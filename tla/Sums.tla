------------------------------- MODULE Sums --------------------------------
EXTENDS Integers, Sequences, SequencesExt, FiniteSets, FiniteSetTheorems, SequenceTheorems, WellFoundedInduction, TLAPS

(* A set of natural numbers has a least element. *)
LEMMA LeastOne ==
  ASSUME NEW T, T \subseteq Nat, T # {}
  PROVE  \E x \in T : \A y \in T : x <= y
<1>1. IsWellFoundedOn({ss \in Nat \X Nat : ss[1] < ss[2]}, Nat)
  BY NatLessThanWellFounded DEF OpToRel
<1>2. PICK R : R = {ss \in Nat \X Nat : ss[1] < ss[2]}
  OBVIOUS
<1>3. PICK x \in T : \A y \in T : ~ (<<y, x>> \in R)
  BY <1>1, <1>2, WFMin
<1>4. \A y \in T : ~ (y < x)
  BY <1>2, <1>3
<1> QED BY <1>4

(* And one that is bounded a greatest. *)
LEMMA GreatestOne ==
  ASSUME NEW k \in Nat, NEW T, T \subseteq 0..k, T # {}
  PROVE  \E x \in T : \A y \in T : x >= y
<1>1. PICK R : R = {k - x : x \in T}
  OBVIOUS
<1>2. R \subseteq Nat /\ R # {}
  <2>1. \A x \in T : x \in Int /\ x <= k /\ k - x \in Nat
    OBVIOUS
  <2> QED BY <1>1, <2>1
<1>3. PICK r \in R : \A q \in R : r <= q
  BY <1>2, LeastOne
<1>4. PICK x \in T : r = k - x
  BY <1>1
<1>5. ASSUME NEW y \in T PROVE x >= y
  <2>1. k - y \in R /\ x \in Nat /\ y \in Nat
    BY <1>1
  <2> QED BY <1>3, <1>4, <2>1
<1> QED BY <1>5

(* Of the subsets of a finite set some are least. *)
LEMMA LeastSet ==
  ASSUME NEW S, IsFiniteSet(S), NEW F, F \subseteq SUBSET S, F # {}
  PROVE  \E m \in F : \A t \in F : t \subseteq m => t = m
<1> DEFINE N == {Cardinality(t) : t \in F}
<1>1. \A t \in F : IsFiniteSet(t) /\ Cardinality(t) \in Nat
  BY FS_Subset, FS_CardinalityType
<1>2. N \subseteq Nat /\ N # {}
  BY <1>1
<1>3. PICK n \in N : \A k \in N : n <= k
  <2> HIDE DEF N
  <2> QED BY <1>2, LeastOne
<1>4. PICK m \in F : Cardinality(m) = n
  OBVIOUS
<1>5. ASSUME NEW t \in F, t \subseteq m PROVE t = m
  <2>1. Cardinality(t) <= Cardinality(m)
    BY <1>1, <1>5, FS_Subset
  <2>2. Cardinality(m) <= Cardinality(t)
    BY <1>3, <1>4
  <2> QED BY <1>1, <1>5, <2>1, <2>2, FS_Subset
<1> QED BY <1>5

-----------------------------------------------------------------------------
(* g sums up v over each subset of S, one element after another as c       *)
(* chooses them.                                                           *)
Part(g, v, c, s) == IF s = {} THEN 0 ELSE v[c[s]] + g[s \ {c[s]}]
Adds(g, v, c, S) == g = [s \in SUBSET S |-> Part(g, v, c, s)]
Folds(g, v, c, S) ==
  \A s \in SUBSET S : g[s] \in {Part(g, v, c, s), IF s = {} THEN 0 ELSE g[s \ {c[s]}] + v[c[s]]}
Chooses(c, S) == \A s \in SUBSET S : s # {} => c[s] \in s

(* There is such a function. *)
LEMMA SumExists ==
  ASSUME NEW S, IsFiniteSet(S), NEW v, NEW c, Chooses(c, S)
  PROVE  \E g : Adds(g, v, c, S)
<1> DEFINE Upto(g, n) == \A s \in SUBSET S : Cardinality(s) <= n => g[s] = Part(g, v, c, s)
           Bad == {n \in Nat : ~ \E g : Upto(g, n)}
<1>0. \A s \in SUBSET S : IsFiniteSet(s) /\ Cardinality(s) \in Nat /\ (Cardinality(s) = 0 <=> s = {})
  BY FS_Subset, FS_CardinalityType, FS_EmptySet
<1>1. 0 \notin Bad
  <2>1. Upto([s \in SUBSET S |-> 0], 0)
    BY <1>0 DEF Part
  <2> QED BY <2>1
<1>2. ASSUME NEW n \in Nat, NEW g, Upto(g, n)
      PROVE  Upto([s \in SUBSET S |-> Part(g, v, c, s)], n + 1)
  <2> DEFINE h == [s \in SUBSET S |-> Part(g, v, c, s)]
  <2> SUFFICES ASSUME NEW s \in SUBSET S, Cardinality(s) <= n + 1 PROVE h[s] = Part(h, v, c, s)
    OBVIOUS
  <2>1. CASE s = {}
    BY <2>1 DEF Part
  <2>2. CASE s # {}
    <3>1. PICK r : r = s \ {c[s]}
      OBVIOUS
    <3>2. r \in SUBSET S /\ c[s] \in s
      BY <2>2, <3>1 DEF Chooses
    <3>3. Cardinality(r) = Cardinality(s) - 1
      BY <1>0, <3>1, <3>2, FS_RemoveElement
    <3>4. Cardinality(r) <= n
      BY <1>0, <3>3
    <3>5. g[r] = Part(g, v, c, r)
      BY <1>2, <3>2, <3>4
    <3>6. h[r] = Part(g, v, c, r) /\ h[s] = Part(g, v, c, s)
      BY <3>2
    <3> QED BY <2>2, <3>1, <3>5, <3>6 DEF Part
  <2> QED BY <2>1, <2>2
<1>3. Bad = {}
  <2> SUFFICES ASSUME Bad # {} PROVE FALSE
    OBVIOUS
  <2>1. PICK n \in Bad : \A k \in Bad : n <= k
    BY LeastOne
  <2>2. n \in Nat /\ n # 0
    BY <1>1
  <2>3. n - 1 \in Nat /\ n - 1 \notin Bad
    BY <2>1, <2>2
  <2>4. PICK g : Upto(g, n - 1)
    BY <2>3
  <2>5. Upto([s \in SUBSET S |-> Part(g, v, c, s)], (n - 1) + 1)
    <3>1. PICK k : k = n - 1
      OBVIOUS
    <3>2. k \in Nat /\ Upto(g, k)
      BY <2>3, <2>4, <3>1
    <3> HIDE DEF Upto
    <3>3. Upto([s \in SUBSET S |-> Part(g, v, c, s)], k + 1)
      BY ONLY <1>2, <3>2
    <3> QED BY ONLY <3>1, <3>3
  <2>6. (n - 1) + 1 = n
    BY <2>2
  <2>7. n \notin Bad
    BY <2>5, <2>6
  <2> QED BY <2>7
<1>4. PICK g : Upto(g, Cardinality(S))
  BY <1>0, <1>3
<1>5. \A s \in SUBSET S : Cardinality(s) <= Cardinality(S)
  BY FS_Subset
<1>6. \A s \in SUBSET S : g[s] = Part(g, v, c, s)
  BY <1>4, <1>5
<1> DEFINE h == [s \in SUBSET S |-> g[s]]
<1>7. \A s \in SUBSET S : Part(h, v, c, s) = Part(g, v, c, s)
  BY DEF Part, Chooses
<1>8. Adds(h, v, c, S)
  BY <1>6, <1>7 DEF Adds
<1> QED BY <1>8

(* It does not matter which element comes first.                           *)
IsSum(g, v, S) ==
  \A s \in SUBSET S : /\ g[s] \in Int /\ (s = {} => g[s] = 0)
                      /\ \A x \in s : g[s] = v[x] + g[s \ {x}]

(* Whatever adds one element after another finds the sum.                  *)
LEMMA SumSteps ==
  ASSUME NEW S, IsFiniteSet(S), NEW v, NEW c, Chooses(c, S), \A x \in S : v[x] \in Int,
         NEW g, Folds(g, v, c, S)
  PROVE  IsSum(g, v, S)
<1> DEFINE Fine(s) == g[s] \in Int /\ \A x \in s : g[s] = v[x] + g[s \ {x}]
           Bad == {s \in SUBSET S : ~ Fine(s)}
<1>1. \A s \in SUBSET S :
        /\ s = {} => g[s] = 0
        /\ s # {} => g[s] = v[c[s]] + g[s \ {c[s]}] \/ g[s] = g[s \ {c[s]}] + v[c[s]]
  BY DEF Folds, Part
<1>2. Bad = {}
  <2> SUFFICES ASSUME Bad # {} PROVE FALSE
    OBVIOUS
  <2>0. Bad \subseteq SUBSET S
    OBVIOUS
  <2>1. PICK m \in Bad : \A t \in Bad : t \subseteq m => t = m
    <3> HIDE DEF Bad
    <3> QED BY <2>0, LeastSet
  <2>2. \A t \in SUBSET m : t # m => Fine(t)
    BY <2>1
  <2>3. m # {} /\ m \in SUBSET S
    <3>1. m \in SUBSET S /\ ~ Fine(m)
      OBVIOUS
    <3>2. m = {} => g[m] = 0
      BY <1>1, <3>1
    <3> QED BY <3>1, <3>2
  <2>4. PICK y : y = c[m]
    OBVIOUS
  <2>5. y \in m /\ g[m] = v[y] + g[m \ {y}] /\ Fine(m \ {y})
    <3>1. y \in m /\ (g[m] = v[y] + g[m \ {y}] \/ g[m] = g[m \ {y}] + v[y])
      BY <1>1, <2>3, <2>4 DEF Chooses
    <3>2. m \ {y} \subseteq m /\ m \ {y} # m
      BY <3>1
    <3>3. Fine(m \ {y})
      BY <2>2, <3>2
    <3>4. v[y] \in Int
      BY <2>3, <3>1
    <3>5. g[m \ {y}] \in Int
      BY <3>3
    <3>6. g[m] = v[y] + g[m \ {y}]
      BY <3>1, <3>4, <3>5
    <3> QED BY <3>1, <3>3, <3>6
  <2>6. g[m] \in Int
    BY <2>3, <2>5
  <2>7. ASSUME NEW x \in m, x # y PROVE g[m] = v[x] + g[m \ {x}]
    <3>1. PICK mx, my, mxy : mx = m \ {x} /\ my = m \ {y} /\ mxy = m \ {x, y}
      OBVIOUS
    <3>2. mxy = mx \ {y} /\ mxy = my \ {x} /\ y \in mx /\ x \in my /\ mx \subseteq m
          /\ my \subseteq m /\ mx # m /\ my # m /\ mxy \subseteq m /\ mxy # m
      BY <2>5, <2>7, <3>1
    <3>3. Fine(mx) /\ Fine(my) /\ Fine(mxy)
      BY <2>2, <3>2
    <3>4. g[mx] = v[y] + g[mxy] /\ g[my] = v[x] + g[mxy] /\ g[mxy] \in Int
      BY <3>2, <3>3
    <3>5. v[x] \in Int /\ v[y] \in Int /\ g[m] = v[y] + g[my]
      BY <2>3, <2>5, <2>7, <3>1
    <3> QED BY <3>1, <3>4, <3>5
  <2>8. Fine(m)
    BY <2>5, <2>6, <2>7
  <2> QED BY <2>8
<1> QED BY <1>1, <1>2 DEF IsSum

(* A function that adds in the order c chooses is one of the folds. *)
LEMMA AddsFolds == \A g, v, c, S : Adds(g, v, c, S) => Folds(g, v, c, S)
<1> SUFFICES ASSUME NEW g, NEW v, NEW c, NEW S, Adds(g, v, c, S), NEW s \in SUBSET S
             PROVE  g[s] = Part(g, v, c, s)
  BY DEF Folds
<1>1. PICK f : f = [r \in SUBSET S |-> Part(g, v, c, r)]
  OBVIOUS
<1>2. g = f
  BY <1>1 DEF Adds
<1> QED BY <1>1, <1>2

(* Nor in which set the sum is taken.                                      *)
LEMMA SumSame ==
  ASSUME NEW S, NEW v, NEW g, IsSum(g, v, S),
         NEW T, NEW w, NEW h, IsSum(h, w, T), IsFiniteSet(S),
         NEW A, A \subseteq S, A \subseteq T, \A x \in A : v[x] = w[x]
  PROVE  g[A] = h[A]
<1> DEFINE Bad == {s \in SUBSET A : g[s] # h[s]}
<1>1. \A s \in SUBSET A : (s = {} => g[s] = 0) /\ \A x \in s : g[s] = v[x] + g[s \ {x}]
  BY DEF IsSum
<1>2. \A s \in SUBSET A : (s = {} => h[s] = 0) /\ \A x \in s : h[s] = w[x] + h[s \ {x}]
  BY DEF IsSum
<1>3. IsFiniteSet(A)
  BY FS_Subset
<1>4. Bad = {}
  <2> SUFFICES ASSUME Bad # {} PROVE FALSE
    OBVIOUS
  <2>0. Bad \subseteq SUBSET A
    OBVIOUS
  <2>1. PICK m \in Bad : \A t \in Bad : t \subseteq m => t = m
    <3> HIDE DEF Bad
    <3> QED BY <1>3, <2>0, LeastSet
  <2>2. m # {}
    BY <1>1, <1>2
  <2>3. PICK x \in m : TRUE
    BY <2>2
  <2>4. g[m \ {x}] = h[m \ {x}]
    BY <2>1, <2>3
  <2> QED BY <1>1, <1>2, <2>3, <2>4
<1> QED BY <1>4

-----------------------------------------------------------------------------
(* The sum of v over S. *)
Some(S) == [s \in SUBSET S |-> CHOOSE x \in s : TRUE]
Total(v, S) == (CHOOSE g : Adds(g, v, Some(S), S))[S]

(* Some element of every set is one of its elements. *)
LEMMA SomeChooses == \A S : Chooses(Some(S), S)
BY DEF Chooses, Some

(* Whatever adds v over a set that includes S finds its total.             *)
LEMMA TotalIs ==
  ASSUME NEW T, IsFiniteSet(T), NEW w, NEW h, IsSum(h, w, T),
         NEW S, S \subseteq T, NEW v, \A x \in S : v[x] = w[x] /\ v[x] \in Int
  PROVE  h[S] = Total(v, S)
<1>1. IsFiniteSet(S)
  BY FS_Subset
<1>2. PICK g : g = CHOOSE f : Adds(f, v, Some(S), S)
  OBVIOUS
<1>3. PICK d : d = Some(S)
  OBVIOUS
<1>4. Chooses(d, S)
  BY <1>3, SomeChooses
<1>5. \E f : Adds(f, v, d, S)
  BY <1>1, <1>4, SumExists
<1>6. Adds(g, v, d, S)
  BY <1>2, <1>3, <1>5
<1>7. g[S] = Total(v, S)
  BY <1>2 DEF Total
<1>8. \A x \in S : v[x] \in Int
  OBVIOUS
<1>9. IsSum(g, v, S)
  BY <1>1, <1>4, <1>6, <1>8, SumSteps, AddsFolds
<1> QED BY <1>7, <1>9, SumSame

(* There is a sum of any numbers. *)
LEMMA IsSumExists ==
  ASSUME NEW S, IsFiniteSet(S), NEW v, \A x \in S : v[x] \in Int
  PROVE  \E g : IsSum(g, v, S)
<1>1. PICK c : c = Some(S)
  OBVIOUS
<1>2. Chooses(c, S)
  BY <1>1, SomeChooses
<1>3. PICK g : Adds(g, v, c, S)
  BY <1>2, SumExists
<1> QED BY <1>2, <1>3, SumSteps, AddsFolds

(* A total is a sum: of nothing, and with one summand more.                *)
LEMMA TotalFacts ==
  ASSUME NEW S, IsFiniteSet(S), NEW v, \A x \in S : v[x] \in Int
  PROVE  /\ Total(v, S) \in Int
         /\ S = {} => Total(v, S) = 0
         /\ \A x \in S : Total(v, S) = v[x] + Total(v, S \ {x})
<1>1. PICK g : IsSum(g, v, S)
  BY IsSumExists
<1>2. \A s \in SUBSET S : g[s] = Total(v, s)
  BY <1>1, TotalIs
<1>3. S \in SUBSET S /\ \A x \in S : S \ {x} \in SUBSET S
  OBVIOUS
<1>4. g[S] \in Int /\ (S = {} => g[S] = 0) /\ \A x \in S : g[S] = v[x] + g[S \ {x}]
  BY <1>1, <1>3 DEF IsSum
<1>5. g[S] = Total(v, S) /\ \A x \in S : g[S \ {x}] = Total(v, S \ {x})
  BY <1>2, <1>3
<1> QED BY <1>4, <1>5

(* A total depends on the summands only.                                   *)
LEMMA TotalSame ==
  ASSUME NEW S, IsFiniteSet(S), NEW v, NEW w, \A x \in S : v[x] \in Int /\ w[x] = v[x]
  PROVE  Total(w, S) = Total(v, S)
<1>1. PICK g : IsSum(g, v, S)
  BY IsSumExists
<1>2. g[S] = Total(v, S)
  BY <1>1, TotalIs
<1>3. g[S] = Total(w, S)
  BY <1>1, TotalIs
<1> QED BY <1>2, <1>3

(* One element more. *)
LEMMA TotalAdd ==
  ASSUME NEW S, IsFiniteSet(S), NEW v, \A x \in S : v[x] \in Int, NEW e, e \notin S, v[e] \in Int
  PROVE  Total(v, S \cup {e}) = Total(v, S) + v[e]
<1>1. PICK T : T = S \cup {e}
  OBVIOUS
<1>2. IsFiniteSet(T) /\ e \in T /\ T \ {e} = S /\ \A x \in T : v[x] \in Int
  BY <1>1, FS_AddElement
<1>3. Total(v, T) = v[e] + Total(v, T \ {e})
  BY <1>2, TotalFacts
<1> QED BY <1>1, <1>2, <1>3, TotalFacts

(* A sum of natural numbers is one, and no less than each of them, nor     *)
(* than the sum of some.                                                   *)
LEMMA TotalNat ==
  ASSUME NEW S, IsFiniteSet(S), NEW v, \A x \in S : v[x] \in Nat
  PROVE  \A s \in SUBSET S : Total(v, s) \in Nat
<1> DEFINE Bad == {s \in SUBSET S : Total(v, s) \notin Nat}
<1> SUFFICES ASSUME Bad # {} PROVE FALSE
  OBVIOUS
<1>0. Bad \subseteq SUBSET S
  OBVIOUS
<1>1. PICK m \in Bad : \A t \in Bad : t \subseteq m => t = m
  <2> HIDE DEF Bad
  <2> QED BY <1>0, LeastSet
<1>2. IsFiniteSet(m) /\ \A x \in m : v[x] \in Int
  BY FS_Subset
<1>3. m # {}
  BY <1>2, TotalFacts
<1>4. PICK x \in m : TRUE
  BY <1>3
<1>5. Total(v, m) = v[x] + Total(v, m \ {x})
  BY <1>2, TotalFacts
<1>6. m \ {x} \in SUBSET S /\ m \ {x} # m /\ m \ {x} \subseteq m
  BY <1>4
<1>7. Total(v, m \ {x}) \in Nat
  BY <1>1, <1>6
<1> QED BY <1>5, <1>7

(* Two sums over disjoint sets are one.                                    *)
LEMMA TotalUnion ==
  ASSUME NEW S, IsFiniteSet(S), NEW T, IsFiniteSet(T), S \cap T = {},
         NEW v, \A x \in S \cup T : v[x] \in Int
  PROVE  Total(v, S \cup T) = Total(v, S) + Total(v, T)
<1> DEFINE Bad == {t \in SUBSET T : Total(v, S \cup t) # Total(v, S) + Total(v, t)}
<1> SUFFICES ASSUME Bad # {} PROVE FALSE
  OBVIOUS
<1>0. Bad \subseteq SUBSET T
  OBVIOUS
<1>1. PICK m \in Bad : \A t \in Bad : t \subseteq m => t = m
  <2> HIDE DEF Bad
  <2> QED BY <1>0, LeastSet
<1>2. IsFiniteSet(m) /\ \A x \in m : v[x] \in Int
  BY FS_Subset
<1>3. Total(v, S) \in Int
  BY TotalFacts
<1>4. m # {}
  <2>1. ASSUME m = {} PROVE FALSE
    <3>1. Total(v, m) = 0
      BY <1>2, <2>1, TotalFacts
    <3>2. S \cup m = S
      BY <2>1
    <3>3. Total(v, S \cup m) # Total(v, S) + Total(v, m)
      BY <1>1
    <3>4. Total(v, S \cup m) = Total(v, S)
      BY <3>2
    <3> QED BY <1>3, <3>1, <3>3, <3>4
  <2> QED BY <2>1
<1>5. PICK x \in m : TRUE
  BY <1>4
<1>6. PICK r : r = m \ {x}
  OBVIOUS
<1>7. Total(v, m) = v[x] + Total(v, r) /\ IsFiniteSet(r) /\ Total(v, r) \in Int
  <2>1. IsFiniteSet(r) /\ \A y \in r : v[y] \in Int
    BY <1>2, <1>6, FS_RemoveElement
  <2> QED BY <1>2, <1>5, <1>6, <2>1, TotalFacts
<1>8. PICK u : u = S \cup m
  OBVIOUS
<1>9. IsFiniteSet(u) /\ (\A y \in u : v[y] \in Int) /\ x \in u /\ u \ {x} = S \cup r
  BY <1>1, <1>2, <1>5, <1>6, <1>8, FS_Union
<1>10. Total(v, u) = v[x] + Total(v, S \cup r)
  BY <1>9, TotalFacts
<1>11. Total(v, S \cup r) = Total(v, S) + Total(v, r)
  BY <1>1, <1>5, <1>6
<1>12. v[x] \in Int
  BY <1>2, <1>5
<1> QED BY <1>1, <1>3, <1>7, <1>8, <1>10, <1>11, <1>12

(* A sum over an interval may be counted from elsewhere.                   *)
LEMMA TotalShift ==
  ASSUME NEW a \in Nat, NEW b \in Nat, NEW u, NEW w,
         \A i \in 1..b : w[i] \in Int /\ u[a + i] = w[i],
         NEW first, first = a + 1, NEW last, last = a + b
  PROVE  Total(u, first..last) = Total(w, 1..b)
<1> DEFINE Bad == {k \in 0..b : Total(u, (a + 1)..(a + k)) # Total(w, 1..k)}
<1> SUFFICES ASSUME Bad # {} PROVE FALSE
  BY b \in 0..b
<1>0. Bad \subseteq Nat
  OBVIOUS
<1>1. PICK k \in Bad : \A j \in Bad : k <= j
  <2> HIDE DEF Bad
  <2> QED BY <1>0, LeastOne
<1>2. k \in 0..b /\ Total(u, (a + 1)..(a + k)) # Total(w, 1..k)
  OBVIOUS
<1>3. k # 0
  <2>1. (a + 1)..(a + 0) = {} /\ 1..0 = {}
    OBVIOUS
  <2>2. Total(u, {}) = 0 /\ Total(w, {}) = 0
    BY TotalFacts, FS_EmptySet
  <2> QED BY <1>2, <2>1, <2>2
<1>4. PICK j : j = k - 1
  OBVIOUS
<1>5. j \in 0..b /\ j \notin Bad /\ k = j + 1
  BY <1>1, <1>2, <1>3, <1>4
<1>6. Total(u, (a + 1)..(a + j)) = Total(w, 1..j)
  BY <1>5
<1>7. PICK A, B : A = (a + 1)..(a + j) /\ B = 1..j
  OBVIOUS
<1>e. PICK e : e = a + k
  OBVIOUS
<1>8. (a + 1)..(a + k) = A \cup {e} /\ e \notin A /\ 1..k = B \cup {k} /\ k \notin B
  <2>1. k \in Nat /\ j \in Nat /\ e \in Nat /\ e = a + j + 1
    BY <1>2, <1>5, <1>e
  <2>2. (a + 1)..(a + k) = A \cup {e} /\ e \notin A
    <3>1. PICK l, m : l = a + 1 /\ m = a + j
      OBVIOUS
    <3>2. l \in Nat /\ m \in Nat /\ l <= m + 1 /\ e = m + 1 /\ A = l..m /\ a + k = m + 1
      BY <1>5, <1>7, <1>e, <2>1, <3>1
    <3>3. l..(m + 1) = (l..m) \cup {m + 1} /\ m + 1 \notin l..m
      BY <3>2
    <3> QED BY <3>1, <3>2, <3>3
  <2>3. 1..k = B \cup {k} /\ k \notin B
    BY <1>5, <1>7, <2>1
  <2> QED BY <2>2, <2>3
<1>9. IsFiniteSet(A) /\ IsFiniteSet(B)
  BY <1>5, <1>7, FS_Interval
<1>10. (\A x \in A : u[x] \in Int) /\ \A x \in B : w[x] \in Int
  <2>1. ASSUME NEW x \in A PROVE u[x] \in Int
    <3>1. x - a \in 1..b /\ x = a + (x - a)
      BY <1>5, <1>7
    <3> QED BY <3>1
  <2> QED BY <1>5, <1>7, <2>1
<1>11. u[e] = w[k] /\ w[k] \in Int /\ u[e] \in Int
  BY <1>2, <1>3, <1>e
<1> HIDE DEF Bad
<1>12. Total(u, A \cup {e}) = Total(u, A) + u[e]
  BY <1>8, <1>9, <1>10, <1>11, TotalAdd
<1>13. Total(w, B \cup {k}) = Total(w, B) + w[k]
  BY <1>8, <1>9, <1>10, <1>11, TotalAdd
<1>14. Total(u, A \cup {e}) # Total(w, B \cup {k})
  BY <1>2, <1>8
<1> QED BY <1>6, <1>7, <1>11, <1>12, <1>13, <1>14

(* Of the first a + b values of u, the first a are those of v, then come   *)
(* those of w.                                                             *)
Joined(u, v, w, a, b) ==
  /\ \A i \in 1..a : v[i] \in Int /\ u[i] = v[i]
  /\ \A i \in 1..b : w[i] \in Int /\ u[a + i] = w[i]

(* The sum over a sequence, and over its parts.                            *)
LEMMA TotalConcat ==
  ASSUME NEW a \in Nat, NEW b \in Nat, NEW u, NEW v, NEW w, Joined(u, v, w, a, b),
         NEW n, n = a + b
  PROVE  /\ Total(u, 1..n) = Total(v, 1..a) + Total(w, 1..b)
         /\ Total(v, 1..a) \in Int /\ Total(w, 1..b) \in Int
<1>j. /\ \A i \in 1..a : v[i] \in Int /\ u[i] = v[i]
      /\ \A i \in 1..b : w[i] \in Int /\ u[a + i] = w[i]
  BY DEF Joined
<1>0. Total(u, (a + 1)..(a + b)) = Total(w, 1..b)
  <2>1. \A i \in 1..b : w[i] \in Int /\ u[a + i] = w[i]
    BY <1>j
  <2>2. PICK first, last : first = a + 1 /\ last = a + b
    OBVIOUS
  <2>3. Total(u, first..last) = Total(w, 1..b)
    BY ONLY SMTT(30), <2>1, <2>2, a \in Nat, b \in Nat, TotalShift
  <2> QED BY <2>2, <2>3
<1>1. PICK A, B, C : A = 1..a /\ B = (a + 1)..(a + b) /\ C = 1..b
  OBVIOUS
<1>2. IsFiniteSet(A) /\ IsFiniteSet(B) /\ IsFiniteSet(C)
  BY <1>1, FS_Interval
<1>3. 1..(a + b) = A \cup B /\ A \cap B = {}
  BY <1>1
<1>4. \A x \in A \cup B : u[x] \in Int
  <2>1. ASSUME NEW x \in B PROVE u[x] \in Int
    <3>1. x - a \in 1..b /\ x = a + (x - a)
      BY <1>1
    <3> QED BY <1>j, <3>1
  <2> QED BY <1>1, <1>j, <2>1
<1>5. Total(u, A \cup B) = Total(u, A) + Total(u, B)
  BY <1>2, <1>3, <1>4, TotalUnion
<1>6. Total(u, A) = Total(v, A)
  <2>1. \A x \in A : v[x] \in Int /\ u[x] = v[x]
    BY <1>1, <1>j
  <2> QED BY <1>2, <2>1, TotalSame
<1>7. Total(u, B) = Total(w, C)
  BY <1>0, <1>1
<1>8. Total(v, A) \in Int
  <2>1. \A x \in A : v[x] \in Int
    BY <1>1, <1>j
  <2> QED BY <1>2, <2>1, TotalFacts
<1>9. Total(w, C) \in Int
  <2>1. \A x \in C : w[x] \in Int
    BY <1>1, <1>j
  <2> QED BY <1>2, <2>1, TotalFacts
<1> QED BY <1>1, <1>3, <1>5, <1>6, <1>7, <1>8, <1>9

(* Another name for each element: as many. *)
LEMMA ImageSize ==
  ASSUME NEW S, IsFiniteSet(S), NEW f, NEW g, \A x \in S : g[f[x]] = x, NEW T, T = {f[x] : x \in S}
  PROVE  IsFiniteSet(T) /\ Cardinality(T) = Cardinality(S)
<1>1. PICK h : h = [x \in S |-> f[x]]
  OBVIOUS
<1>2. h \in Surjection(S, T)
  BY <1>1 DEF Surjection
<1>3. h \in Injection(S, T)
  BY <1>1 DEF Injection, IsInjective
<1> QED BY <1>2, <1>3, FS_Surjection

(* And the same sum. *)
LEMMA TotalImage ==
  ASSUME NEW S, IsFiniteSet(S), NEW f, NEW g, \A x \in S : g[f[x]] = x,
         NEW T, T = {f[x] : x \in S}, NEW v, NEW w, \A x \in S : v[x] \in Int /\ w[f[x]] = v[x]
  PROVE  Total(w, T) = Total(v, S)
<1>1. IsFiniteSet(T)
  BY ImageSize
<1>2. \A y \in T : w[y] \in Int
  OBVIOUS
<1> DEFINE Im(s) == {f[x] : x \in s}
           Bad == {s \in SUBSET S : Total(w, Im(s)) # Total(v, s)}
<1>3. Bad = {}
  <2> SUFFICES ASSUME Bad # {} PROVE FALSE
    OBVIOUS
  <2>0. Bad \subseteq SUBSET S
    OBVIOUS
  <2>1. PICK m \in Bad : \A t \in Bad : t \subseteq m => t = m
    <3> HIDE DEF Bad
    <3> QED BY <2>0, LeastSet
  <2>2. m \in SUBSET S /\ Total(w, Im(m)) # Total(v, m)
    OBVIOUS
  <2>3. IsFiniteSet(m) /\ \A x \in m : v[x] \in Int
    BY <2>2, FS_Subset
  <2>4. m # {}
    <3>1. ASSUME m = {} PROVE FALSE
      <4>1. Im(m) = {}
        BY <3>1
      <4>2. \A u : Total(u, {}) = 0
        BY TotalFacts, FS_EmptySet
      <4> QED BY <2>2, <3>1, <4>1, <4>2
    <3> QED BY <3>1
  <2>5. PICK x \in m : TRUE
    BY <2>4
  <2>6. PICK r : r = m \ {x}
    OBVIOUS
  <2>7. r \in SUBSET S /\ Total(w, Im(r)) = Total(v, r)
    BY <2>1, <2>2, <2>5, <2>6
  <2>8. PICK I, J : I = Im(r) /\ J = Im(m)
    OBVIOUS
  <2>9. J = I \cup {f[x]} /\ f[x] \notin I /\ I \subseteq T /\ f[x] \in T
    BY <2>2, <2>5, <2>6, <2>8
  <2>10. IsFiniteSet(I)
    BY <1>1, <2>9, FS_Subset
  <2>11. Total(w, J) = Total(w, I) + w[f[x]]
    <3>1. (\A y \in I : w[y] \in Int) /\ w[f[x]] \in Int
      BY <1>2, <2>9
    <3>2. PICK e : e = f[x]
      OBVIOUS
    <3> QED BY <2>9, <2>10, <3>1, <3>2, TotalAdd
  <2>12. Total(v, m) = v[x] + Total(v, r)
    BY <2>3, <2>5, <2>6, TotalFacts
  <2>13. Total(v, r) \in Int
    <3>1. IsFiniteSet(r) /\ \A y \in r : v[y] \in Int
      BY <2>3, <2>6, FS_Subset
    <3> QED BY <3>1, TotalFacts
  <2>14. w[f[x]] = v[x] /\ v[x] \in Int
    BY <2>2, <2>5
  <2> HIDE DEF Im
  <2> QED BY <2>2, <2>7, <2>8, <2>11, <2>12, <2>13, <2>14
<1>4. Im(S) = T /\ S \in SUBSET S
  OBVIOUS
<1> QED BY <1>3, <1>4
-----------------------------------------------------------------------------
(* Folds: g applies F to one element after another as c chooses them.      *)
Applied(g, F, base, c, s) == IF s = {} THEN base ELSE F[<<c[s], g[s \ {c[s]}]>>]
Applies(g, F, base, c, S) == g = [s \in SUBSET S |-> Applied(g, F, base, c, s)]

(* There is such a function. *)
LEMMA FoldExists ==
  ASSUME NEW S, IsFiniteSet(S), NEW F, NEW base, NEW c, Chooses(c, S)
  PROVE  \E g : Applies(g, F, base, c, S)
<1> DEFINE Upto(g, n) == \A s \in SUBSET S : Cardinality(s) <= n => g[s] = Applied(g, F, base, c, s)
           Bad == {n \in Nat : ~ \E g : Upto(g, n)}
<1>0. \A s \in SUBSET S : IsFiniteSet(s) /\ Cardinality(s) \in Nat /\ (Cardinality(s) = 0 <=> s = {})
  BY FS_Subset, FS_CardinalityType, FS_EmptySet
<1>1. 0 \notin Bad
  <2>1. Upto([s \in SUBSET S |-> base], 0)
    BY <1>0 DEF Applied
  <2> QED BY <2>1
<1>2. ASSUME NEW n \in Nat, NEW g, Upto(g, n)
      PROVE  Upto([s \in SUBSET S |-> Applied(g, F, base, c, s)], n + 1)
  <2> DEFINE h == [s \in SUBSET S |-> Applied(g, F, base, c, s)]
  <2> SUFFICES ASSUME NEW s \in SUBSET S, Cardinality(s) <= n + 1 PROVE h[s] = Applied(h, F, base, c, s)
    OBVIOUS
  <2>1. CASE s = {}
    BY <2>1 DEF Applied
  <2>2. CASE s # {}
    <3>1. PICK r : r = s \ {c[s]}
      OBVIOUS
    <3>2. r \in SUBSET S /\ c[s] \in s
      BY <2>2, <3>1 DEF Chooses
    <3>3. Cardinality(r) = Cardinality(s) - 1
      BY <1>0, <3>1, <3>2, FS_RemoveElement
    <3>4. Cardinality(r) <= n
      BY <1>0, <3>3
    <3>5. g[r] = Applied(g, F, base, c, r)
      BY <1>2, <3>2, <3>4
    <3>6. h[r] = Applied(g, F, base, c, r) /\ h[s] = Applied(g, F, base, c, s)
      BY <3>2
    <3> QED BY <2>2, <3>1, <3>5, <3>6 DEF Applied
  <2> QED BY <2>1, <2>2
<1>3. Bad = {}
  <2> SUFFICES ASSUME Bad # {} PROVE FALSE
    OBVIOUS
  <2>1. PICK n \in Bad : \A k \in Bad : n <= k
    BY LeastOne
  <2>2. n \in Nat /\ n # 0
    BY <1>1
  <2>3. PICK k : k = n - 1
    OBVIOUS
  <2>4. k \in Nat /\ k \notin Bad /\ k + 1 = n
    BY <2>1, <2>2, <2>3
  <2>5. PICK g : Upto(g, k)
    BY <2>4
  <2>6. Upto([s \in SUBSET S |-> Applied(g, F, base, c, s)], k + 1)
    <3> HIDE DEF Upto
    <3> QED BY ONLY <1>2, <2>4, <2>5
  <2>7. n \notin Bad
    BY <2>4, <2>6
  <2> QED BY <2>7
<1>4. PICK g : Upto(g, Cardinality(S))
  BY <1>0, <1>3
<1>5. \A s \in SUBSET S : Cardinality(s) <= Cardinality(S)
  BY FS_Subset
<1>6. \A s \in SUBSET S : g[s] = Applied(g, F, base, c, s)
  BY <1>4, <1>5
<1> DEFINE h == [s \in SUBSET S |-> g[s]]
<1>7. \A s \in SUBSET S : Applied(h, F, base, c, s) = Applied(g, F, base, c, s)
  BY DEF Applied, Chooses
<1>8. Applies(h, F, base, c, S)
  BY <1>6, <1>7 DEF Applies
<1> QED BY <1>8

(* What every step of a fold keeps is true of its result. *)
LEMMA FoldStays ==
  ASSUME NEW S, IsFiniteSet(S), NEW c, Chooses(c, S), NEW X, NEW g, g[{}] \in X,
         \A s \in SUBSET S : s # {} /\ g[s \ {c[s]}] \in X => g[s] \in X
  PROVE  \A s \in SUBSET S : g[s] \in X
<1> DEFINE Bad == {s \in SUBSET S : g[s] \notin X}
<1> SUFFICES ASSUME Bad # {} PROVE FALSE
  OBVIOUS
<1>0. Bad \subseteq SUBSET S
  OBVIOUS
<1>1. PICK m \in Bad : \A t \in Bad : t \subseteq m => t = m
  <2> HIDE DEF Bad
  <2> QED BY <1>0, LeastSet
<1>2. m \in SUBSET S /\ m # {} /\ g[m] \notin X
  OBVIOUS
<1>3. c[m] \in m
  BY <1>2 DEF Chooses
<1>4. PICK r : r = m \ {c[m]}
  OBVIOUS
<1>5. r \in SUBSET S /\ r \subseteq m /\ r # m
  BY <1>2, <1>3, <1>4
<1>6. g[r] \in X
  BY <1>1, <1>5
<1> QED BY <1>2, <1>4, <1>6

(* And what one step makes of what the former left is true in its turn: P  *)
(* says what, after so many.                                               *)
LEMMA FoldGrows ==
  ASSUME NEW S, IsFiniteSet(S), NEW c, Chooses(c, S), NEW P, NEW g, g[{}] \in P[0],
         \A s \in SUBSET S : s # {} /\ g[s \ {c[s]}] \in P[Cardinality(s) - 1] => g[s] \in P[Cardinality(s)]
  PROVE  \A s \in SUBSET S : g[s] \in P[Cardinality(s)]
<1> DEFINE Bad == {s \in SUBSET S : g[s] \notin P[Cardinality(s)]}
<1> SUFFICES ASSUME Bad # {} PROVE FALSE
  OBVIOUS
<1>0. Bad \subseteq SUBSET S
  OBVIOUS
<1>1. PICK m \in Bad : \A t \in Bad : t \subseteq m => t = m
  <2> HIDE DEF Bad
  <2> QED BY <1>0, LeastSet
<1>2. m \in SUBSET S /\ g[m] \notin P[Cardinality(m)] /\ IsFiniteSet(m)
  BY FS_Subset
<1>3. m # {}
  <2>1. Cardinality({}) = 0
    BY FS_EmptySet
  <2> QED BY <1>2, <2>1
<1>4. PICK x, r : x = c[m] /\ r = m \ {c[m]}
  OBVIOUS
<1>5. x \in m
  BY <1>2, <1>3, <1>4 DEF Chooses
<1>6. r \in SUBSET S /\ r \subseteq m /\ r # m
  BY <1>2, <1>4, <1>5
<1>7. Cardinality(r) = Cardinality(m) - 1
  BY <1>2, <1>4, <1>5, FS_RemoveElement
<1>8. g[r] \in P[Cardinality(m) - 1]
  BY <1>1, <1>6, <1>7
<1> QED BY <1>2, <1>3, <1>4, <1>8

(* The greatest number of a bounded set is one of it: folds from the left. *)
LEMMA LastChooses ==
  ASSUME NEW k \in Nat, NEW c, c = [s \in SUBSET (1..k) |-> Max(s)]
  PROVE  Chooses(c, 1..k) /\ IsFiniteSet(1..k)
<1>1. ASSUME NEW s \in SUBSET (1..k), s # {}
      PROVE  Max(s) \in s /\ \A y \in s : Max(s) >= y
  <2>1. \E x \in s : \A y \in s : x >= y
    <3>1. s \subseteq 0..k
      OBVIOUS
    <3> QED BY <1>1, <3>1, GreatestOne
  <2> QED BY <2>1 DEF Max
<1>2. Chooses(c, 1..k)
  BY <1>1 DEF Chooses
<1>3. IsFiniteSet(1..k)
  BY FS_Interval
<1> QED BY <1>2, <1>3

(* That choice by name. *)
Lasts(c, k) == c = [s \in SUBSET (1..k) |-> Max(s)]

(* Of the first j it is j. *)
LEMMA LastOfFirst ==
  ASSUME NEW k \in Nat, NEW c, Lasts(c, k), NEW j \in 1..k
  PROVE  c[1..j] = j /\ (1..j) \ {j} = 1..(j - 1)
<1>1. PICK s : s = 1..j
  OBVIOUS
<1>2. s \in SUBSET (1..k) /\ s # {} /\ j \in s
  BY <1>1
<1>3. c[s] \in s
  <2>1. Chooses(c, 1..k)
    BY LastChooses DEF Lasts
  <2> QED BY <1>2, <2>1 DEF Chooses
<1>4. \E x \in s : \A y \in s : x >= y
  BY <1>1
<1>5. c[s] = Max(s)
  BY <1>2 DEF Lasts
<1>6. \A y \in s : c[s] >= y
  BY <1>4, <1>5 DEF Max
<1>7. (1..j) \ {j} = 1..(j - 1)
  OBVIOUS
<1> QED BY <1>1, <1>2, <1>3, <1>6, <1>7

(* FoldSeq with +: any element is added to the sum of the others. *)
AddsAny(g, q) ==
  g = [s \in SUBSET (DOMAIN q) |->
         IF s = {} THEN 0 ELSE q[CHOOSE x \in s : TRUE] + g[s \ {CHOOSE x \in s : TRUE}]]

(* There is one such function, and it finds the total. *)
LEMMA SumOfAll ==
  ASSUME NEW q, IsFiniteSet(DOMAIN q), \A x \in DOMAIN q : q[x] \in Int
  PROVE  /\ \E g : AddsAny(g, q)
         /\ \A g : AddsAny(g, q) => g[DOMAIN q] = Total(q, DOMAIN q)
<1>1. PICK S : S = DOMAIN q
  OBVIOUS
<1>2. PICK c : c = Some(S)
  OBVIOUS
<1>3. \A s \in SUBSET S : c[s] = CHOOSE x \in s : TRUE
  BY <1>2 DEF Some
<1>4. \A g : AddsAny(g, q) <=> Adds(g, q, c, S)
  <2> SUFFICES ASSUME NEW g PROVE AddsAny(g, q) <=> Adds(g, q, c, S)
    OBVIOUS
  <2>1. \A s \in SUBSET S : Part(g, q, c, s) =
          IF s = {} THEN 0 ELSE q[CHOOSE x \in s : TRUE] + g[s \ {CHOOSE x \in s : TRUE}]
    BY <1>3 DEF Part
  <2>2. [s \in SUBSET S |-> Part(g, q, c, s)] =
        [s \in SUBSET S |-> IF s = {} THEN 0
                            ELSE q[CHOOSE x \in s : TRUE] + g[s \ {CHOOSE x \in s : TRUE}]]
    BY <2>1
  <2> QED BY ONLY <1>1, <2>2 DEF AddsAny, Adds
<1>5. Chooses(c, S)
  BY <1>2, SomeChooses
<1>6. \E g : Adds(g, q, c, S)
  BY <1>1, <1>5, SumExists
<1>7. ASSUME NEW g, Adds(g, q, c, S) PROVE g[S] = Total(q, S)
  <2>1. IsSum(g, q, S)
    BY <1>1, <1>5, <1>7, SumSteps, AddsFolds
  <2> QED BY <1>1, <2>1, TotalIs
<1> QED BY <1>1, <1>4, <1>6, <1>7

(* What FoldSeq with + computes of a sequence of natural numbers. *)
Added(q) == (CHOOSE g : AddsAny(g, q))[DOMAIN q]

(* It is their total, and a natural number. *)
LEMMA AddedIs ==
  ASSUME NEW q \in Seq(Nat)
  PROVE  Added(q) = Total(q, 1..Len(q)) /\ Added(q) \in Nat
<1>1. PICK k, S : k = Len(q) /\ S = 1..k
  OBVIOUS
<1>2. k \in Nat /\ DOMAIN q = S /\ \A x \in S : q[x] \in Nat /\ q[x] \in Int
  BY <1>1
<1>3. IsFiniteSet(S)
  BY <1>1, <1>2, FS_Interval
<1>4. PICK g : g = CHOOSE f : AddsAny(f, q)
  OBVIOUS
<1>5. AddsAny(g, q) /\ g[S] = Total(q, S)
  <2>1. \E f : AddsAny(f, q)
    BY ONLY <1>2, <1>3, SumOfAll
  <2>2. AddsAny(g, q)
    BY <1>4, <2>1
  <2>3. g[DOMAIN q] = Total(q, DOMAIN q)
    BY ONLY <1>2, <1>3, <2>2, SumOfAll
  <2> QED BY <1>2, <2>2, <2>3
<1>6. Added(q) = g[S]
  BY <1>2, <1>4 DEF Added
<1>7. Total(q, S) \in Nat
  BY <1>2, <1>3, TotalNat
<1> QED BY <1>1, <1>5, <1>6, <1>7

(* Of a sequence after another. *)
LEMMA AddedJoin ==
  ASSUME NEW p \in Seq(Nat), NEW q \in Seq(Nat)
  PROVE  p \o q \in Seq(Nat) /\ Added(p \o q) = Added(p) + Added(q)
<1>1. PICK r, a, b, n : r = p \o q /\ a = Len(p) /\ b = Len(q) /\ n = a + b
  OBVIOUS
<1>2. a \in Nat /\ b \in Nat /\ n \in Nat
  BY <1>1
<1>3. r \in Seq(Nat) /\ Len(r) = n
  BY <1>1, ConcatProperties
<1>4. Joined(r, p, q, a, b)
  <2>1. \A i \in 1..a : p[i] \in Int /\ r[i] = p[i]
    BY <1>1
  <2>2. ASSUME NEW i \in 1..b PROVE q[i] \in Int /\ r[a + i] = q[i]
    <3>1. a + i \in (a + 1)..(a + b) /\ (a + i) - a = i
      BY <1>2
    <3> QED BY <1>1, <3>1
  <2> QED BY <2>1, <2>2 DEF Joined
<1>5. Total(r, 1..n) = Total(p, 1..a) + Total(q, 1..b)
  <2>1. n = a + b
    BY <1>1
  <2> QED BY ONLY <1>2, <1>4, <2>1, TotalConcat
<1>6. Added(r) = Total(r, 1..n)
  BY ONLY <1>3, AddedIs
<1>7. Added(p) = Total(p, 1..a) /\ Added(q) = Total(q, 1..b)
  BY <1>1, AddedIs
<1> QED BY <1>1, <1>3, <1>5, <1>6, <1>7

(* Of one number, of none. *)
LEMMA AddedOne ==
  ASSUME NEW w \in Nat
  PROVE  Added(<<w>>) = w /\ Added(<< >>) = 0
<1>1. PICK q : q = <<w>>
  OBVIOUS
<1>2. q \in Seq(Nat) /\ Len(q) = 1 /\ q[1] = w
  BY <1>1
<1>3. 1..1 = {1} /\ IsFiniteSet({1}) /\ 1..0 = {} /\ IsFiniteSet({})
  BY FS_Singleton, FS_EmptySet
<1>4. Total(q, {1}) = w
  <2>1. \A x \in {1} : q[x] \in Int
    BY <1>2
  <2>2. PICK T, R : T = {1} /\ R = T \ {1}
    OBVIOUS
  <2>3. Total(q, T) = q[1] + Total(q, R)
    BY <1>3, <2>1, <2>2, TotalFacts
  <2>4. R = {}
    BY <2>2
  <2>5. Total(q, R) = 0
    BY <1>3, <2>4, TotalFacts
  <2>6. Total(q, T) = w
    BY <1>2, <2>3, <2>5
  <2> QED BY <2>2, <2>6
<1>5. Added(q) = w
  BY <1>2, <1>3, <1>4, AddedIs
<1>6. PICK e : e = << >>
  OBVIOUS
<1>7. e \in Seq(Nat) /\ Len(e) = 0
  BY <1>6
<1>8. Total(e, {}) = 0
  BY <1>3, TotalFacts
<1>9. Added(e) = 0
  BY <1>3, <1>7, <1>8, AddedIs
<1> QED BY <1>1, <1>5, <1>6, <1>9
===============================================================================
