-------------------------------- MODULE Counting --------------------------------
(***************************************************************************)
(* Lemmas about numbers, finite sets and sums that the other proofs use.   *)
(* Induction is put as the least, or smallest, counterexample.             *)
(***************************************************************************)
EXTENDS Functions, FiniteSetTheorems, WellFoundedInduction, TLAPS

\* A set of numbers with a member has a least one.
LEMMA LeastNumber ==
    ASSUME NEW S, S \subseteq Nat, S # {}
    PROVE  \E k \in S : \A m \in S : k <= m
<1>1. PICK k \in S : \A m \in S : ~(<<m, k>> \in OpToRel(<, Nat))
  BY WFMin, NatLessThanWellFounded
<1>2. ASSUME NEW m \in S, m < k PROVE FALSE
  <2>1. <<m, k>> \in Nat \X Nat
    OBVIOUS
  <2>2. <<m, k>> \in OpToRel(<, Nat)
    BY <1>2, <2>1 DEF OpToRel
  <2> QED
    BY <1>1, <2>2
<1> QED
  BY <1>2

\* A set of subsets of a finite set has a smallest one.
LEMMA SmallestSubset ==
    ASSUME NEW S, IsFiniteSet(S), NEW C, C \subseteq SUBSET S, C # {}
    PROVE  \E t \in C : \A u \in C : ~(u \subseteq t /\ u # t)
<1>1. FiniteSubsetsOf(S) = SUBSET S
  BY FS_FiniteSubsetsOfFinite
<1>2. IsWellFoundedOn(StrictSubsetOrdering(S), SUBSET S)
  BY <1>1, FS_StrictSubsetOrderingWellFounded
<1>3. PICK t \in C : \A u \in C : <<u, t>> \notin StrictSubsetOrdering(S)
  BY <1>2, WFMin
<1>4. ASSUME NEW u \in C, u \subseteq t, u # t PROVE FALSE
  <2>1. <<u, t>> \in (SUBSET S) \X (SUBSET S)
    OBVIOUS
  <2>2. <<u, t>> \in StrictSubsetOrdering(S)
    BY <1>4, <2>1 DEF StrictSubsetOrdering
  <2> QED
    BY <1>3, <2>2
<1> QED
  BY <1>4

-----------------------------------------------------------------------------
(* Sums over finite sets.                                                   *)

\* The element that a fold takes first
Chosen(s) == CHOOSE x \in s : TRUE

LEMMA ChosenIn == ASSUME NEW s, s # {} PROVE Chosen(s) \in s
  BY DEF Chosen

\* t is the table of the sums of f over the subsets of S that a fold computes.
Table(f, S, t) ==
    t = [s \in SUBSET S |-> IF s = {} THEN 0 ELSE f[Chosen(s)] + t[s \ {Chosen(s)}]]

LEMMA SumIsInTable ==
    ASSUME NEW f, NEW S
    PROVE  SumFunctionOnSet(f, S) = (CHOOSE t : Table(f, S, t))[S]
  BY DEF SumFunctionOnSet, FoldFunctionOnSet, MapThenFoldSet, Table, Chosen

\* Tables of two sets agree on the subsets both have.
LEMMA TablesAgree ==
    ASSUME NEW f, NEW v, IsFiniteSet(v), NEW w \in SUBSET v,
           NEW t, Table(f, v, t), NEW r, Table(f, w, r)
    PROVE  \A u \in SUBSET w : t[u] = r[u]
<1> DEFINE wrong == {u \in SUBSET w : t[u] # r[u]}
<1>1. SUFFICES ASSUME wrong # {} PROVE FALSE
  OBVIOUS
<1>2. IsFiniteSet(w)
  BY FS_Subset
<1>3. wrong \subseteq SUBSET w
  OBVIOUS
<1> HIDE DEF wrong
<1>4. PICK u \in wrong : \A x \in wrong : ~(x \subseteq u /\ x # u)
  BY <1>1, <1>2, <1>3, SmallestSubset
<1>5. u \in SUBSET w /\ u \in SUBSET v /\ t[u] # r[u]
  BY <1>4 DEF wrong
<1>6. /\ t[u] = IF u = {} THEN 0 ELSE f[Chosen(u)] + t[u \ {Chosen(u)}]
      /\ r[u] = IF u = {} THEN 0 ELSE f[Chosen(u)] + r[u \ {Chosen(u)}]
  BY <1>5 DEF Table
<1>7. u # {}
  BY <1>5, <1>6
<1>8. u \ {Chosen(u)} \subseteq u /\ u \ {Chosen(u)} # u /\ u \ {Chosen(u)} \in SUBSET w
  BY <1>5, <1>7, ChosenIn
<1>9. u \ {Chosen(u)} \notin wrong
  BY <1>4, <1>8
<1>10. t[u \ {Chosen(u)}] = r[u \ {Chosen(u)}]
  BY <1>8, <1>9 DEF wrong
<1> QED
  BY <1>5, <1>6, <1>10

\* Every finite set has a table.
LEMMA TableExists ==
    ASSUME NEW f, NEW S, IsFiniteSet(S)
    PROVE  \E t : Table(f, S, t)
<1> DEFINE Tab(v) == CHOOSE t : Table(f, v, t)
           without == {v \in SUBSET S : ~\E t : Table(f, v, t)}
<1>1. SUFFICES ASSUME without # {} PROVE FALSE
  OBVIOUS
<1>2. without \subseteq SUBSET S
  OBVIOUS
<1>3. \A v \in SUBSET S : v \notin without => Table(f, v, Tab(v))
  OBVIOUS
<1>4. \A v \in without : ~\E t : Table(f, v, t)
  OBVIOUS
<1> HIDE DEF without, Tab
<1>5. PICK s \in without : \A v \in without : ~(v \subseteq s /\ v # s)
  BY <1>1, <1>2, SmallestSubset
<1>6. s \in SUBSET S /\ IsFiniteSet(s)
  BY <1>2, FS_Subset
<1>7. \A v \in SUBSET s : v # s => Table(f, v, Tab(v))
  BY <1>3, <1>5, <1>6
<1> DEFINE Rest(u) == u \ {Chosen(u)}
           table == [u \in SUBSET s |-> IF u = {} THEN 0 ELSE f[Chosen(u)] + Tab(Rest(u))[Rest(u)]]
<1>8. ASSUME NEW u \in SUBSET s, u # {}
      PROVE  Rest(u) \in SUBSET s /\ Rest(u) # s /\ Rest(u) \in SUBSET u /\ Chosen(u) \in u
  BY <1>8, ChosenIn
<1> HIDE DEF Rest
<1>9. ASSUME NEW v \in SUBSET s, v # s PROVE table[v] = Tab(v)[v]
  <2>1. Table(f, v, Tab(v))
    BY <1>7, <1>9
  <2>2. Tab(v)[v] = IF v = {} THEN 0 ELSE f[Chosen(v)] + Tab(v)[Rest(v)]
    BY <2>1 DEF Table, Rest
  <2>3. v # {} => Tab(v)[Rest(v)] = Tab(Rest(v))[Rest(v)]
    <3>1. SUFFICES ASSUME v # {} PROVE Tab(v)[Rest(v)] = Tab(Rest(v))[Rest(v)]
      OBVIOUS
    <3>2. Rest(v) \in SUBSET v /\ Table(f, Rest(v), Tab(Rest(v))) /\ IsFiniteSet(v)
      BY <1>6, <1>7, <1>8, <3>1, FS_Subset
    <3> QED
      BY <2>1, <3>2, TablesAgree
  <2> QED
    BY <2>2, <2>3
<1>10. table = [u \in SUBSET s |-> IF u = {} THEN 0 ELSE f[Chosen(u)] + table[Rest(u)]]
  <2>1. \A u \in SUBSET s : u # {} => table[Rest(u)] = Tab(Rest(u))[Rest(u)]
    BY <1>8, <1>9
  <2> HIDE DEF Tab
  <2>2. \A u \in SUBSET s :
          (IF u = {} THEN 0 ELSE f[Chosen(u)] + Tab(Rest(u))[Rest(u)])
          = (IF u = {} THEN 0 ELSE f[Chosen(u)] + table[Rest(u)])
    BY <2>1
  <2> QED
    BY <2>2
<1>11. Table(f, s, table)
  BY <1>10 DEF Table, Rest
<1> QED
  BY <1>5, <1>11, <1>4

\* The first step of a fold
LEMMA SumUnfolds ==
    ASSUME NEW f, NEW S, IsFiniteSet(S)
    PROVE  SumFunctionOnSet(f, S) =
             IF S = {} THEN 0 ELSE f[Chosen(S)] + SumFunctionOnSet(f, S \ {Chosen(S)})
<1> DEFINE t == CHOOSE u : Table(f, S, u)
           rest == S \ {Chosen(S)}
           r == CHOOSE u : Table(f, rest, u)
<1>1. Table(f, S, t) /\ SumFunctionOnSet(f, S) = t[S]
  BY TableExists, SumIsInTable
<1>2. IsFiniteSet(rest) /\ rest \in SUBSET S
  BY FS_Subset
<1>3. Table(f, rest, r) /\ SumFunctionOnSet(f, rest) = r[rest]
  BY <1>2, TableExists, SumIsInTable
<1>4. t[S] = IF S = {} THEN 0 ELSE f[Chosen(S)] + t[rest]
  <2>1. S \in SUBSET S
    OBVIOUS
  <2> QED
    BY <1>1, <2>1 DEF Table
<1> HIDE DEF t, r
<1>5. t[rest] = r[rest]
  <2>1. rest \in SUBSET rest
    OBVIOUS
  <2> QED
    BY <1>1, <1>2, <1>3, <2>1, TablesAgree
<1> QED
  BY <1>1, <1>3, <1>4, <1>5

LEMMA SumOfNothing == ASSUME NEW f PROVE SumFunctionOnSet(f, {}) = 0
  BY FS_EmptySet, SumUnfolds

\* A sum of members of a set that addition does not leave is in it.
LEMMA SumClosed ==
    ASSUME NEW f, NEW S, IsFiniteSet(S), NEW N, 0 \in N, \A x, y \in N : x + y \in N,
           \A x \in S : f[x] \in N
    PROVE  SumFunctionOnSet(f, S) \in N
<1> DEFINE wrong == {s \in SUBSET S : SumFunctionOnSet(f, s) \notin N}
<1>1. SUFFICES ASSUME wrong # {} PROVE FALSE
  OBVIOUS
<1>2. wrong \subseteq SUBSET S
  OBVIOUS
<1>3. \A s \in SUBSET S : s \notin wrong => SumFunctionOnSet(f, s) \in N
  OBVIOUS
<1>4. \A s \in wrong : SumFunctionOnSet(f, s) \notin N
  OBVIOUS
<1> HIDE DEF wrong
<1>5. PICK s \in wrong : \A u \in wrong : ~(u \subseteq s /\ u # s)
  BY <1>1, <1>2, SmallestSubset
<1>6. IsFiniteSet(s) /\ s \in SUBSET S
  BY <1>2, FS_Subset
<1>7. s # {}
  <2>1. SumFunctionOnSet(f, {}) \in N
    BY SumOfNothing
  <2> QED
    BY <1>5, <1>4, <2>1, Zenon
<1>8. Chosen(s) \in s /\ s \ {Chosen(s)} \in SUBSET S /\ s \ {Chosen(s)} # s
  BY <1>6, <1>7, ChosenIn
<1>9. SumFunctionOnSet(f, s \ {Chosen(s)}) \in N /\ f[Chosen(s)] \in N
  BY <1>5, <1>6, <1>8, <1>3
<1>10. SumFunctionOnSet(f, s) \in N
  BY <1>6, <1>7, <1>9, SumUnfolds
<1> QED
  BY <1>5, <1>10, <1>4

LEMMA SumType ==
    ASSUME NEW f, NEW S, IsFiniteSet(S), \A x \in S : f[x] \in Int
    PROVE  SumFunctionOnSet(f, S) \in Int
<1>1. 0 \in Int /\ \A x, y \in Int : x + y \in Int
  OBVIOUS
<1> QED
  BY <1>1, SumClosed

\* An element adds its value, whatever order the fold takes them in.
LEMMA SumAdds ==
    ASSUME NEW f, NEW S, IsFiniteSet(S), \A x \in S : f[x] \in Int,
           NEW a \in S
    PROVE  SumFunctionOnSet(f, S) = f[a] + SumFunctionOnSet(f, S \ {a})
<1> DEFINE Right(s) == \A x \in s : SumFunctionOnSet(f, s) = f[x] + SumFunctionOnSet(f, s \ {x})
           wrong == {s \in SUBSET S : ~Right(s)}
<1>1. SUFFICES ASSUME wrong # {} PROVE FALSE
  OBVIOUS
<1>2. wrong \subseteq SUBSET S
  OBVIOUS
<1>3. \A s \in SUBSET S : s \notin wrong => Right(s)
  OBVIOUS
<1>4. \A s \in wrong : ~Right(s)
  OBVIOUS
<1> HIDE DEF wrong
<1>5. PICK s \in wrong : \A u \in wrong : ~(u \subseteq s /\ u # s)
  BY <1>1, <1>2, SmallestSubset
<1>6. IsFiniteSet(s) /\ s \in SUBSET S
  BY <1>2, FS_Subset
<1>7. PICK x \in s : SumFunctionOnSet(f, s) # f[x] + SumFunctionOnSet(f, s \ {x})
  BY <1>5, <1>4
<1> DEFINE c == Chosen(s)
<1>8. c \in s
  BY ChosenIn
<1> HIDE DEF c
<1>9. SumFunctionOnSet(f, s) = f[c] + SumFunctionOnSet(f, s \ {c})
  BY <1>6, SumUnfolds DEF c
<1>10. c # x
  BY <1>7, <1>9
<1>11. Right(s \ {c}) /\ Right(s \ {x})
  BY <1>5, <1>6, <1>8, <1>3
<1>12. /\ SumFunctionOnSet(f, s \ {c}) = f[x] + SumFunctionOnSet(f, (s \ {c}) \ {x})
       /\ SumFunctionOnSet(f, s \ {x}) = f[c] + SumFunctionOnSet(f, (s \ {x}) \ {c})
  BY <1>8, <1>10, <1>11
<1>13. (s \ {c}) \ {x} = (s \ {x}) \ {c}
  OBVIOUS
<1> DEFINE both == SumFunctionOnSet(f, (s \ {c}) \ {x})
<1>14. both = SumFunctionOnSet(f, (s \ {x}) \ {c})
  BY <1>13, Zenon
<1>15. f[c] + (f[x] + both) # f[x] + (f[c] + both)
  BY <1>7, <1>9, <1>12, <1>14
<1>16. f[x] \in Int /\ f[c] \in Int /\ both \in Int
  <2>1. IsFiniteSet((s \ {c}) \ {x})
    BY <1>6, FS_Subset
  <2> QED
    BY <1>6, <1>8, <2>1, SumType
<1> HIDE DEF both, Right
<1> QED
  BY <1>16, <1>15

\* Only the values on the set matter.
LEMMA SumsEqual ==
    ASSUME NEW f, NEW g, NEW S, IsFiniteSet(S), \A x \in S : f[x] = g[x]
    PROVE  SumFunctionOnSet(f, S) = SumFunctionOnSet(g, S)
<1> DEFINE wrong == {s \in SUBSET S : SumFunctionOnSet(f, s) # SumFunctionOnSet(g, s)}
<1>1. SUFFICES ASSUME wrong # {} PROVE FALSE
  OBVIOUS
<1>2. wrong \subseteq SUBSET S
  OBVIOUS
<1>3. \A s \in SUBSET S : s \notin wrong => SumFunctionOnSet(f, s) = SumFunctionOnSet(g, s)
  OBVIOUS
<1>4. \A s \in wrong : SumFunctionOnSet(f, s) # SumFunctionOnSet(g, s)
  OBVIOUS
<1> HIDE DEF wrong
<1>5. PICK s \in wrong : \A u \in wrong : ~(u \subseteq s /\ u # s)
  BY <1>1, <1>2, SmallestSubset
<1>6. IsFiniteSet(s) /\ s \in SUBSET S
  BY <1>2, FS_Subset
<1>7. s # {}
  BY <1>5, <1>4, SumOfNothing, Zenon
<1>8. Chosen(s) \in s /\ s \ {Chosen(s)} \in SUBSET S /\ s \ {Chosen(s)} # s
  BY <1>6, <1>7, ChosenIn
<1>9. SumFunctionOnSet(f, s \ {Chosen(s)}) = SumFunctionOnSet(g, s \ {Chosen(s)})
  BY <1>5, <1>6, <1>8, <1>3
<1>10. f[Chosen(s)] = g[Chosen(s)]
  BY <1>6, <1>8
<1>11. SumFunctionOnSet(f, s) = SumFunctionOnSet(g, s)
  BY <1>6, <1>7, <1>9, <1>10, SumUnfolds
<1> QED
  BY <1>5, <1>11, <1>4

\* A sum when one of its terms changes
LEMMA SumChangesAt ==
    ASSUME NEW f, NEW g, NEW S, IsFiniteSet(S), \A x \in S : f[x] \in Int /\ g[x] \in Int,
           NEW a \in S, \A x \in S \ {a} : g[x] = f[x]
    PROVE  /\ SumFunctionOnSet(g, S) + f[a] = SumFunctionOnSet(f, S) + g[a]
           /\ SumFunctionOnSet(f, S) \in Int /\ SumFunctionOnSet(g, S) \in Int
<1>1. IsFiniteSet(S \ {a}) /\ S \ {a} \subseteq S
  BY FS_Subset
<1>2. SumFunctionOnSet(f, S \ {a}) = SumFunctionOnSet(g, S \ {a})
  BY <1>1, SumsEqual
<1>3. SumFunctionOnSet(f, S \ {a}) \in Int
  BY <1>1, SumType
<1>4. /\ SumFunctionOnSet(f, S) = f[a] + SumFunctionOnSet(f, S \ {a})
      /\ SumFunctionOnSet(g, S) = g[a] + SumFunctionOnSet(g, S \ {a})
  BY SumAdds
<1> QED
  BY <1>2, <1>3, <1>4

\* A sum of numbers that have a bound
LEMMA SumBounded ==
    ASSUME NEW f, NEW S, IsFiniteSet(S), NEW m \in Nat, \A x \in S : f[x] \in 0 .. m
    PROVE  SumFunctionOnSet(f, S) \in 0 .. Cardinality(S) * m
<1> DEFINE Right(s) == SumFunctionOnSet(f, s) \in 0 .. Cardinality(s) * m
           wrong == {s \in SUBSET S : ~Right(s)}
<1>1. SUFFICES ASSUME wrong # {} PROVE FALSE
  OBVIOUS
<1>2. wrong \subseteq SUBSET S
  OBVIOUS
<1>3. \A s \in SUBSET S : s \notin wrong => Right(s)
  OBVIOUS
<1>4. \A s \in wrong : ~Right(s)
  OBVIOUS
<1> HIDE DEF wrong
<1>5. PICK s \in wrong : \A u \in wrong : ~(u \subseteq s /\ u # s)
  BY <1>1, <1>2, SmallestSubset
<1>6. IsFiniteSet(s) /\ s \in SUBSET S
  BY <1>2, FS_Subset
<1>7. s # {}
  <2>1. ASSUME s = {} PROVE Right(s)
    <3>1. 0 * m = 0
      OBVIOUS
    <3> QED
      BY <2>1, <3>1, SumOfNothing, FS_EmptySet
  <2> QED
    BY <1>5, <1>4, <2>1
<1> DEFINE r == s \ {Chosen(s)}
<1>8. Chosen(s) \in s /\ r \in SUBSET S /\ r # s /\ r \subseteq s
  BY <1>6, <1>7, ChosenIn
<1>9. Right(r) /\ f[Chosen(s)] \in 0 .. m
  BY <1>5, <1>6, <1>8, <1>3
<1>10. Cardinality(r) \in Nat /\ Cardinality(s) = Cardinality(r) + 1
  <2>1. /\ IsFiniteSet(r) /\ Cardinality(s) \in Nat
        /\ Cardinality(r) = IF Chosen(s) \in s THEN Cardinality(s) - 1 ELSE Cardinality(s)
    BY <1>6, FS_RemoveElement, FS_CardinalityType
  <2>2. Cardinality(r) \in Nat
    BY <2>1, FS_CardinalityType
  <2> HIDE DEF r
  <2> QED
    BY <1>8, <2>1, <2>2
<1>11. SumFunctionOnSet(f, s) = f[Chosen(s)] + SumFunctionOnSet(f, r)
  BY <1>6, <1>7, SumUnfolds
<1>12. Right(s)
  <2> HIDE DEF r
  <2>1. PICK k \in Nat : k = Cardinality(r)
    BY <1>10
  <2>2. (k + 1) * m = k * m + m /\ k * m \in Nat
    BY <2>1
  <2> QED
    BY <1>9, <1>10, <1>11, <2>1, <2>2
<1> QED
  BY <1>5, <1>12, <1>4

\* The number of elements in an interval that starts at 1
LEMMA CardinalityUpTo ==
    ASSUME NEW n \in Nat
    PROVE  IsFiniteSet(1 .. n) /\ Cardinality(1 .. n) = n
<1>1. 1 \in Int /\ n \in Int /\ (1 > n => n = 0)
  OBVIOUS
<1>2. IsFiniteSet(1 .. n) /\ Cardinality(1 .. n) = IF 1 > n THEN 0 ELSE n - 1 + 1
  BY <1>1, FS_Interval
<1> QED
  BY <1>1, <1>2

\* A sum over one number more
LEMMA SumUpTo ==
    ASSUME NEW f, NEW k \in Nat, \A j \in 1 .. k + 1 : f[j] \in Int
    PROVE  /\ SumFunctionOnSet(f, 1 .. k + 1) = SumFunctionOnSet(f, 1 .. k) + f[k + 1]
           /\ SumFunctionOnSet(f, 1 .. k) \in Int
<1>1. k + 1 \in 1 .. k + 1 /\ (1 .. k + 1) \ {k + 1} = 1 .. k
  OBVIOUS
<1>2. IsFiniteSet(1 .. k + 1) /\ IsFiniteSet(1 .. k)
  BY CardinalityUpTo
<1> DEFINE last == k + 1
           rest == (1 .. k + 1) \ {last}
<1>3. SumFunctionOnSet(f, 1 .. k + 1) = f[last] + SumFunctionOnSet(f, rest)
  BY <1>1, <1>2, SumAdds
<1>4. SumFunctionOnSet(f, rest) = SumFunctionOnSet(f, 1 .. k)
  BY <1>1, Zenon
<1>5. f[last] \in Int /\ \A j \in 1 .. k : f[j] \in Int
  OBVIOUS
<1>6. SumFunctionOnSet(f, 1 .. k) \in Int
  BY <1>2, <1>5, SumType
<1> HIDE DEF rest
<1> QED
  BY <1>3, <1>4, <1>5, <1>6

\* f has the same numbers above e, up to en, as g above d, up to dn.
SameRun(f, e, en, g, d, dn) ==
    /\ d \in Nat /\ e \in Nat /\ dn \in Nat /\ en \in Nat
    /\ d <= dn /\ dn - d = en - e
    /\ \A j \in 1 .. en : f[j] \in Int
    /\ \A j \in 1 .. dn : g[j] \in Int
    /\ \A j \in d + 1 .. dn : g[j] = f[e + (j - d)]

\* A run of numbers has the same sum wherever it stands.
LEMMA SumShifted ==
    ASSUME NEW f, NEW e, NEW en, NEW g, NEW d, NEW dn, SameRun(f, e, en, g, d, dn)
    PROVE  SumFunctionOnSet(g, 1 .. dn) - SumFunctionOnSet(g, 1 .. d)
             = SumFunctionOnSet(f, 1 .. en) - SumFunctionOnSet(f, 1 .. e)
<1> DEFINE n == dn - d
<1>1. /\ d \in Nat /\ e \in Nat /\ dn \in Nat /\ en \in Nat
      /\ d <= dn /\ dn - d = en - e
      /\ \A j \in 1 .. en : f[j] \in Int
      /\ \A j \in 1 .. dn : g[j] \in Int
      /\ \A j \in d + 1 .. dn : g[j] = f[e + (j - d)]
  BY DEF SameRun
<1> USE <1>1
<1>2. n \in Nat /\ d + n = dn /\ e + n = en
  OBVIOUS
<1>3. /\ \A j \in 1 .. e + n : f[j] \in Int
      /\ \A j \in 1 .. d + n : g[j] \in Int
      /\ \A j \in 1 .. n : g[d + j] = f[e + j]
  <2>1. ASSUME NEW j \in 1 .. n PROVE g[d + j] = f[e + j]
    <3> DEFINE k == d + j
    <3>1. k \in d + 1 .. dn /\ k - d = j
      BY <1>2
    <3> HIDE DEF k
    <3>2. g[k] = f[e + (k - d)]
      BY <3>1
    <3> QED
      BY <3>1, <3>2 DEF k
  <2> QED
    BY <1>2, <2>1
<1> HIDE DEF n
<1> DEFINE F(k) == SumFunctionOnSet(f, 1 .. k)
           G(k) == SumFunctionOnSet(g, 1 .. k)
           wrong == {k \in 0 .. n : G(d + k) - G(d) # F(e + k) - F(e)}
<1>4. ASSUME NEW k \in 0 .. e + n - 1
      PROVE  F(k + 1) = F(k) + f[k + 1] /\ F(k) \in Int /\ f[k + 1] \in Int
  <2>1. k \in Nat /\ \A j \in 1 .. k + 1 : f[j] \in Int
    BY <1>2, <1>3
  <2> QED
    BY <1>2, <1>3, <2>1, SumUpTo
<1>5. ASSUME NEW k \in 0 .. d + n - 1
      PROVE  G(k + 1) = G(k) + g[k + 1] /\ G(k) \in Int /\ g[k + 1] \in Int
  <2>1. k \in Nat /\ \A j \in 1 .. k + 1 : g[j] \in Int
    BY <1>2, <1>3
  <2> QED
    BY <1>2, <1>3, <2>1, SumUpTo
<1> HIDE DEF F, G
<1>6. SUFFICES ASSUME wrong # {} PROVE FALSE
  <2>1. n \in 0 .. n
    BY <1>2
  <2> QED
    BY <1>2, <2>1 DEF F, G
<1>7. wrong \subseteq Nat
  OBVIOUS
<1>8. \A k \in 0 .. n : k \in wrong <=> G(d + k) - G(d) # F(e + k) - F(e)
  OBVIOUS
<1>9. wrong \subseteq 0 .. n
  OBVIOUS
<1> HIDE DEF wrong
<1>10. PICK k \in wrong : \A m \in wrong : k <= m
  BY <1>6, <1>7, LeastNumber
<1>11. CASE k = 0
  <2>1. G(d + k) - G(d) # F(e + k) - F(e)
    BY <1>8, <1>9, <1>10
  <2>2. G(d) \in Int /\ F(e) \in Int
    <3>1. IsFiniteSet(1 .. d) /\ IsFiniteSet(1 .. e)
      BY CardinalityUpTo
    <3>2. (\A j \in 1 .. d : g[j] \in Int) /\ (\A j \in 1 .. e : f[j] \in Int)
      BY <1>2, <1>3
    <3> QED
      BY <3>1, <3>2, SumType DEF F, G
  <2>3. d + 0 = d /\ e + 0 = e
    OBVIOUS
  <2>4. G(d + k) = G(d) /\ F(e + k) = F(e)
    BY <1>11, <2>3, Zenon
  <2> QED
    BY <2>1, <2>2, <2>4
<1>12. CASE k # 0
  <2>1. k \in 1 .. n /\ k - 1 \in 0 .. n /\ k - 1 \notin wrong
    BY <1>2, <1>9, <1>10, <1>12
  <2> DEFINE m == k - 1
  <2>2. G(d + m) - G(d) = F(e + m) - F(e)
    BY <1>8, <2>1
  <2>3. d + m \in 0 .. d + n - 1 /\ e + m \in 0 .. e + n - 1
    BY <1>2, <2>1
  <2> DEFINE dm == d + m
             em == e + m
  <2>4. dm + 1 = d + k /\ em + 1 = e + k
    BY <1>2, <2>1
  <2>5. /\ G(dm + 1) = G(dm) + g[dm + 1] /\ G(dm) \in Int /\ g[dm + 1] \in Int
        /\ F(em + 1) = F(em) + f[em + 1] /\ F(em) \in Int /\ f[em + 1] \in Int
    <3> HIDE DEF dm, em
    <3> QED
      BY <1>4, <1>5, <2>3 DEF dm, em
  <2>6. G(d + k) = G(dm) + g[d + k] /\ F(e + k) = F(em) + f[e + k]
    BY <2>4, <2>5, Zenon
  <2>7. g[d + k] = f[e + k]
    BY <1>3, <2>1
  <2>8. G(d) \in Int /\ F(e) \in Int
    <3>1. d \in 0 .. d + n - 1 /\ e \in 0 .. e + n - 1
      BY <1>2, <2>1
    <3> QED
      BY <1>4, <1>5, <3>1
  <2>9. G(d + k) - G(d) # F(e + k) - F(e)
    BY <1>8, <1>9, <1>10
  <2>10. g[d + k] \in Int
    BY <2>4, <2>5, Zenon
  <2> QED
    BY <2>2, <2>5, <2>6, <2>7, <2>8, <2>9, <2>10
<1> QED
  BY <1>11, <1>12

\* The leading numbers that are in a set
LEMMA LeadingNumbers ==
    ASSUME NEW n \in Nat, NEW B, NEW passed \in SUBSET (1 .. n),
           \A j \in 1 .. n : j \in passed <=> \A k \in 1 .. j : k \in B
    PROVE  /\ Cardinality(passed) \in 0 .. n
           /\ \A k \in 1 .. Cardinality(passed) : k \in B
           /\ Cardinality(passed) < n => Cardinality(passed) + 1 \notin B
<1> DEFINE others == {j \in 1 .. n : j \notin B}
           c == Cardinality(passed)
<1>1. CASE others = {}
  <2>1. passed = 1 .. n
    <3>1. \A k \in 1 .. n : k \in B
      BY <1>1
    <3>2. \A j \in 1 .. n : \A k \in 1 .. j : k \in 1 .. n
      OBVIOUS
    <3>3. 1 .. n \subseteq passed
      BY <3>1, <3>2
    <3> QED
      BY <3>3
  <2>2. c = n
    BY <2>1, CardinalityUpTo
  <2> HIDE DEF c
  <2>3. \A k \in 1 .. n : k \in B
    BY <1>1
  <2>4. c \in 0 .. n /\ (\A k \in 1 .. c : k \in B) /\ ~(c < n)
    BY <2>2, <2>3
  <2> QED
    BY <2>4 DEF c
<1>2. CASE others # {}
  <2>1. others \subseteq Nat
    OBVIOUS
  <2> HIDE DEF others
  <2>2. PICK least \in others : \A m \in others : least <= m
    BY <1>2, <2>1, LeastNumber
  <2> USE DEF others
  <2>3. least \in 1 .. n /\ least \notin B /\ \A k \in 1 .. n : k < least => k \in B
    BY <2>2
  <2> HIDE DEF others
  <2>4. passed = 1 .. least - 1
    <3>1. ASSUME NEW j \in passed PROVE j \in 1 .. least - 1
      BY <2>3, <3>1
    <3>2. ASSUME NEW j \in 1 .. least - 1 PROVE j \in passed
      <4>1. j \in 1 .. n /\ \A k \in 1 .. j : k \in 1 .. n /\ k < least
        BY <2>3, <3>2
      <4> QED
        BY <2>3, <4>1
    <3> QED
      BY <3>1, <3>2
  <2>5. c = least - 1
    <3>1. least - 1 \in Nat
      BY <2>3
    <3> QED
      BY <2>4, <3>1, CardinalityUpTo
  <2> HIDE DEF c
  <2>6. c \in 0 .. n /\ (\A k \in 1 .. c : k \in B) /\ c + 1 \notin B
    BY <2>3, <2>5
  <2> QED
    BY <2>6 DEF c
<1> QED
  BY <1>1, <1>2
=================================================================================
