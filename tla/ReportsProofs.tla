---------------------------- MODULE ReportsProofs ----------------------------
(***************************************************************************)
(* Theorems about Reports, for every calendar, every length of the windows *)
(* and any number of vehicles and entries.                                 *)
(***************************************************************************)
EXTENDS Reports, FiniteSetTheorems, TLAPS

-----------------------------------------------------------------------------
(* Sums. *)

\* SumFunction adds the values of a function in the order in which CHOOSE gives
\* its arguments.  The lemmas need no induction schema: a smallest set that
\* refutes one is looked at instead.
First(s) == CHOOSE x \in s : TRUE

\* The function that SumFunction chooses, for the values of f on a set.
Adds(f, h, S) ==
  h = [s \in SUBSET S |-> IF s = {} THEN 0 ELSE f[First(s)] + h[s \ {First(s)}]]

\* The sum of the values of f on a set.
Total(f, S) == (CHOOSE h : Adds(f, h, S))[S]

\* SumFunction is that sum over the domain of the function.
LEMMA SumIsTotal == \A f : SumFunction(f) = Total(f, DOMAIN f)
  BY Zenon DEF SumFunction, SumFunctionOnSet, FoldFunctionOnSet, MapThenFoldSet, Total, Adds, First

\* Among sets of rows one contains no other.
LEMMA SmallestSet ==
  ASSUME NEW S, IsFiniteSet(S), NEW sets \in SUBSET SUBSET S, sets # {}
  PROVE  \E s \in sets : \A u \in sets : u \subseteq s => u = s
  <1>1. IsWellFoundedOn(StrictSubsetOrdering(S), SUBSET S)
    BY FS_StrictSubsetOrderingWellFounded, FS_FiniteSubsetsOfFinite
  <1>2. PICK s \in sets : \A u \in sets : ~ (<<u, s>> \in StrictSubsetOrdering(S))
    BY <1>1, WFMin
  <1>3. QED BY <1>2 DEF StrictSubsetOrdering

\* The first of some rows is one of them.
LEMMA FirstIsOne == \A s : s # {} => First(s) \in s
  BY DEF First

\* What the function of Adds gives for each set of rows.
LEMMA AddsStep ==
  ASSUME NEW f, NEW S, NEW h, Adds(f, h, S)
  PROVE  /\ h[{}] = 0
         /\ \A s \in SUBSET S :
              s # {} => h[s] = f[First(s)] + h[s \ {First(s)}]
  BY DEF Adds

\* Two such functions agree where both are defined.
LEMMA AddsAgree ==
  ASSUME NEW f, NEW S, IsFiniteSet(S), NEW T \in SUBSET S, NEW h, NEW g,
         Adds(f, h, S), Adds(f, g, T)
  PROVE  \A s \in SUBSET T : h[s] = g[s]
  <1> DEFINE Bad == {s \in SUBSET T : h[s] # g[s]}
  <1> SUFFICES ASSUME Bad # {} PROVE FALSE OBVIOUS
  <1>1. Bad \in SUBSET SUBSET S OBVIOUS
  <1>2. PICK s \in Bad : \A u \in Bad : u \subseteq s => u = s
    <2> HIDE DEF Bad
    <2> QED BY <1>1, SmallestSet
  <1>3. s \in SUBSET T /\ s \in SUBSET S /\ h[s] # g[s] OBVIOUS
  <1>4. s # {} BY <1>3, AddsStep
  <1>5. First(s) \in s BY <1>4, FirstIsOne
  <1>6. s \ {First(s)} \notin Bad BY <1>2, <1>5
  <1>7. h[s \ {First(s)}] = g[s \ {First(s)}] BY <1>3, <1>6
  <1>8. QED BY <1>3, <1>4, <1>7, AddsStep

\* There is one for every finite set of rows.
LEMMA AddsExists ==
  ASSUME NEW f, NEW S, IsFiniteSet(S)
  PROVE  \A T \in SUBSET S : \E h : Adds(f, h, T)
  <1> DEFINE Bad == {T \in SUBSET S : ~ \E h : Adds(f, h, T)}
             F(u) == CHOOSE h : Adds(f, h, u)
  <1> SUFFICES ASSUME Bad # {} PROVE FALSE OBVIOUS
  <1>1. Bad \in SUBSET SUBSET S OBVIOUS
  <1>2. PICK T \in Bad : \A u \in Bad : u \subseteq T => u = T
    <2> HIDE DEF Bad
    <2> QED BY <1>1, SmallestSet
  <1>3. T \in SUBSET S /\ ~ \E h : Adds(f, h, T) OBVIOUS
  <1>4. \A u \in SUBSET T : u # T => Adds(f, F(u), u)
    <2> SUFFICES ASSUME NEW u \in SUBSET T, u # T PROVE Adds(f, F(u), u) OBVIOUS
    <2>1. \E h : Adds(f, h, u) BY <1>2, <1>3
    <2>2. QED BY <2>1, Zenon
  <1> DEFINE g == [s \in SUBSET T |->
                     IF s = {} THEN 0
                     ELSE f[First(s)] + Total(f, s \ {First(s)})]
  <1>5. \A u \in SUBSET T : u # T => g[u] = Total(f, u)
    <2> SUFFICES ASSUME NEW u \in SUBSET T, u # T PROVE g[u] = Total(f, u) OBVIOUS
    <2>1. Adds(f, F(u), u) /\ Total(f, u) = F(u)[u] BY <1>4, Zenon DEF Total
    <2> HIDE DEF F
    <2>2. CASE u = {} BY <2>1, <2>2, AddsStep
    <2>3. CASE u # {}
      <3> DEFINE v == u \ {First(u)}
      <3>1. First(u) \in u BY <2>3, FirstIsOne
      <3>2. v \in SUBSET T /\ v # T /\ v \in SUBSET u BY <3>1
      <3>3. Adds(f, F(v), v) /\ Total(f, v) = F(v)[v]
        BY <1>4, <3>2, Zenon DEF Total, F
      <3>4. IsFiniteSet(u) BY <1>3, FS_Subset
      <3>5. F(u)[v] = F(v)[v]
        <4> HIDE DEF v
        <4> QED BY <2>1, <3>2, <3>3, <3>4, AddsAgree
      <3>6. F(u)[u] = f[First(u)] + F(u)[v]
        <4>1. PICK h : h = F(u) OBVIOUS
        <4>2. Adds(f, h, u) BY <2>1, <4>1
        <4>3. \A s \in SUBSET u : s # {} => h[s] = f[First(s)] + h[s \ {First(s)}]
          BY <4>2, AddsStep
        <4>4. QED BY <2>3, <4>1, <4>3
      <3>7. g[u] = f[First(u)] + Total(f, v) BY <2>3
      <3>8. QED BY <2>1, <3>3, <3>5, <3>6, <3>7
    <2>4. QED BY <2>2, <2>3
  <1>6. \A s \in SUBSET T : s # {} => g[s \ {First(s)}] = Total(f, s \ {First(s)})
    <2> SUFFICES ASSUME NEW s \in SUBSET T, s # {}
                 PROVE  g[s \ {First(s)}] = Total(f, s \ {First(s)})
      OBVIOUS
    <2>1. First(s) \in s BY FirstIsOne
    <2> HIDE DEF g
    <2>2. QED BY <1>5, <2>1
  <1>7. g = [s \in SUBSET T |->
               IF s = {} THEN 0 ELSE f[First(s)] + g[s \ {First(s)}]]
    <2> DEFINE G(s) == f[First(s)] + Total(f, s \ {First(s)})
               H(s) == f[First(s)] + g[s \ {First(s)}]
    <2>1. \A s \in SUBSET T : s # {} => G(s) = H(s)
      <3> HIDE DEF g
      <3> QED BY <1>6
    <2>2. g = [s \in SUBSET T |-> IF s = {} THEN 0 ELSE G(s)] OBVIOUS
    <2> HIDE DEF g, G, H
    <2>3. g = [s \in SUBSET T |-> IF s = {} THEN 0 ELSE H(s)] BY <2>1, <2>2
    <2>4. QED BY <2>3 DEF H
  <1>8. Adds(f, g, T)
    <2> HIDE DEF g
    <2> QED BY <1>7 DEF Adds
  <1>9. QED BY <1>3, <1>8

\* What the sum of any finite set of rows is: nothing, or the first and the rest.
LEMMA TotalStep ==
  ASSUME NEW f, NEW S, IsFiniteSet(S)
  PROVE  /\ Total(f, {}) = 0
         /\ \A T \in SUBSET S :
              T # {} => Total(f, T) = f[First(T)] + Total(f, T \ {First(T)})
  <1> DEFINE F(u) == CHOOSE h : Adds(f, h, u)
  <1>1. \A T \in SUBSET S : Adds(f, F(T), T) /\ Total(f, T) = F(T)[T]
    <2> SUFFICES ASSUME NEW T \in SUBSET S
                 PROVE  Adds(f, F(T), T) /\ Total(f, T) = F(T)[T]
      OBVIOUS
    <2>1. \E h : Adds(f, h, T) BY AddsExists
    <2>2. QED BY <2>1, Zenon DEF Total
  <1> HIDE DEF F
  <1>2. Total(f, {}) = 0 BY <1>1, AddsStep
  <1>3. ASSUME NEW T \in SUBSET S, T # {}
        PROVE  Total(f, T) = f[First(T)] + Total(f, T \ {First(T)})
    <2> DEFINE v == T \ {First(T)}
    <2>1. v \in SUBSET T /\ v \in SUBSET S OBVIOUS
    <2>2. IsFiniteSet(T) BY FS_Subset
    <2>3. Adds(f, F(T), T) /\ Adds(f, F(v), v) BY <1>1, <2>1
    <2>4. F(T)[v] = F(v)[v]
      <3> HIDE DEF v
      <3> QED BY <2>1, <2>2, <2>3, AddsAgree
    <2>5. F(T)[T] = f[First(T)] + F(T)[v]
      <3>1. \A s \in SUBSET T : s # {} => F(T)[s] = f[First(s)] + F(T)[s \ {First(s)}]
        BY <2>3, AddsStep
      <3>2. QED BY <1>3, <3>1
    <2>6. QED BY <1>1, <2>1, <2>4, <2>5
  <1>4. QED BY <1>2, <1>3

\* Only the amounts of the summed rows count.
LEMMA TotalAgrees ==
  ASSUME NEW f, NEW g, NEW S, IsFiniteSet(S), \A k \in S : f[k] = g[k]
  PROVE  Total(f, S) = Total(g, S)
  <1> DEFINE Bad == {s \in SUBSET S : Total(f, s) # Total(g, s)}
  <1>1. ASSUME Bad # {}
        PROVE  FALSE
    <2>1. Bad \in SUBSET SUBSET S OBVIOUS
    <2>2. PICK s \in Bad : \A u \in Bad : u \subseteq s => u = s
      <3> HIDE DEF Bad
      <3> QED BY <1>1, <2>1, SmallestSet
    <2>3. s \in SUBSET S /\ Total(f, s) # Total(g, s) OBVIOUS
    <2>4. s # {} BY <2>3, TotalStep
    <2>5. First(s) \in s BY <2>4, FirstIsOne
    <2>6. Total(f, s \ {First(s)}) = Total(g, s \ {First(s)}) BY <2>2, <2>3, <2>5
    <2>7. QED BY <2>3, <2>4, <2>5, <2>6, TotalStep
  <1>2. QED BY <1>1

\* Whole amounts have a whole sum.
LEMMA TotalIsInt ==
  ASSUME NEW f, NEW S, IsFiniteSet(S), \A k \in S : f[k] \in Int
  PROVE  \A T \in SUBSET S : Total(f, T) \in Int
  <1> DEFINE Bad == {s \in SUBSET S : Total(f, s) \notin Int}
  <1>1. ASSUME Bad # {}
        PROVE  FALSE
    <2>1. Bad \in SUBSET SUBSET S OBVIOUS
    <2>2. PICK s \in Bad : \A u \in Bad : u \subseteq s => u = s
      <3> HIDE DEF Bad
      <3> QED BY <1>1, <2>1, SmallestSet
    <2>3. s \in SUBSET S /\ Total(f, s) \notin Int OBVIOUS
    <2>4. s # {}
      <3>1. Total(f, {}) = 0 BY TotalStep
      <3>2. QED BY <2>3, <3>1
    <2>5. First(s) \in s BY <2>4, FirstIsOne
    <2>6. Total(f, s \ {First(s)}) \in Int BY <2>2, <2>3, <2>5
    <2>7. Total(f, s) = f[First(s)] + Total(f, s \ {First(s)})
      BY <2>3, <2>4, TotalStep
    <2>8. f[First(s)] \in Int BY <2>3, <2>5
    <2>9. QED BY <2>3, <2>6, <2>7, <2>8
  <1>2. QED BY <1>1

\* Any row can be taken out of the sum, not only the first.
LEMMA TotalWithout ==
  ASSUME NEW f, NEW S, IsFiniteSet(S), \A k \in S : f[k] \in Int, NEW l \in S
  PROVE  Total(f, S) = f[l] + Total(f, S \ {l})
  <1> DEFINE Splits(s, k) == Total(f, s) = f[k] + Total(f, s \ {k})
             Bad == {s \in SUBSET S : \E k \in s : ~Splits(s, k)}
  <1>1. ASSUME Bad # {}
        PROVE  FALSE
    <2>1. Bad \in SUBSET SUBSET S OBVIOUS
    <2>2. PICK s \in Bad : \A u \in Bad : u \subseteq s => u = s
      <3> HIDE DEF Bad
      <3> QED BY <1>1, <2>1, SmallestSet
    <2>3. PICK k \in s : ~Splits(s, k) OBVIOUS
    <2> DEFINE c == First(s)
    <2>4. s \in SUBSET S /\ s # {} BY <2>3
    <2>5. c \in s BY <2>4, FirstIsOne
    <2>6. Splits(s, c) BY <2>4, TotalStep
    <2>7. c # k BY <2>3, <2>6
    <2>8. \A u \in SUBSET s : u # s => \A j \in u : Splits(u, j) BY <2>2, <2>4
    <2> HIDE DEF c, Splits
    <2>9. Splits(s \ {c}, k) /\ Splits(s \ {k}, c) BY <2>3, <2>5, <2>7, <2>8
    <2>10. (s \ {c}) \ {k} = (s \ {k}) \ {c} OBVIOUS
    <2>11. /\ f[c] \in Int
           /\ f[k] \in Int
           /\ Total(f, (s \ {k}) \ {c}) \in Int
      BY <2>3, <2>4, <2>5, TotalIsInt
    <2>12. /\ Total(f, s) = f[c] + Total(f, s \ {c})
           /\ Total(f, s \ {c}) = f[k] + Total(f, (s \ {k}) \ {c})
           /\ Total(f, s \ {k}) = f[c] + Total(f, (s \ {k}) \ {c})
           /\ Total(f, s) # f[k] + Total(f, s \ {k})
      BY <2>3, <2>6, <2>9, <2>10 DEF Splits
    <2>13. QED BY <2>11, <2>12
  <1>2. Splits(S, l) BY <1>1
  <1>3. QED BY <1>2


\* A sum may run over what numbers its terms.
LEMMA TotalReindexed ==
  ASSUME NEW f, NEW g, NEW S, IsFiniteSet(S), NEW T, NEW b \in Bijection(S, T),
         \A x \in S : f[x] = g[b[x]], \A y \in T : g[y] \in Int
  PROVE  Total(f, S) = Total(g, T)
  <1> DEFINE Image(s) == {b[x] : x \in s}
             Bad == {s \in SUBSET S : Total(f, s) # Total(g, Image(s))}
  <1>1. /\ b \in [S -> T]
        /\ \A x, y \in S : b[x] = b[y] => x = y
        /\ \A y \in T : \E x \in S : b[x] = y
    BY DEF Bijection, Injection, Surjection, IsInjective
  <1>2. IsFiniteSet(T) BY FS_Bijection DEF ExistsBijection
  <1>3. ASSUME Bad # {}
        PROVE  FALSE
    <2>1. Bad \in SUBSET SUBSET S OBVIOUS
    <2>2. PICK s \in Bad : \A u \in Bad : u \subseteq s => u = s
      <3> HIDE DEF Bad
      <3> QED BY <1>3, <2>1, SmallestSet
    <2>3. s \in SUBSET S /\ Total(f, s) # Total(g, Image(s)) OBVIOUS
    <2>4. s # {}
      <3>1. Image({}) = {} OBVIOUS
      <3>2. Total(f, {}) = 0 /\ Total(g, {}) = 0 BY <1>2, TotalStep
      <3>3. QED BY <2>3, <3>1, <3>2
    <2> DEFINE c == First(s)
    <2>5. c \in s BY <2>4, FirstIsOne
    <2>6. Total(f, s \ {c}) = Total(g, Image(s \ {c})) BY <2>2, <2>3, <2>5
    <2>7. Image(s \ {c}) = Image(s) \ {b[c]} BY <1>1, <2>3, <2>5
    <2>8. Total(f, s) = f[c] + Total(f, s \ {c}) BY <2>3, <2>4, TotalStep
    <2>9. Total(g, Image(s)) = g[b[c]] + Total(g, Image(s) \ {b[c]})
      <3>1. Image(s) \in SUBSET T /\ b[c] \in Image(s) BY <1>1, <2>3, <2>5
      <3>2. IsFiniteSet(Image(s)) BY <1>2, <3>1, FS_Subset
      <3> HIDE DEF Image, c
      <3>3. QED BY <3>1, <3>2, TotalWithout
    <2>10. f[c] = g[b[c]] BY <2>3, <2>5
    <2> HIDE DEF Image, c
    <2>11. QED BY <2>3, <2>6, <2>7, <2>8, <2>9, <2>10
  <1>4. Image(S) = T BY <1>1
  <1>5. QED BY <1>3, <1>4

\* Two sets with nothing in common are summed apart.
LEMMA TotalUnion ==
  ASSUME NEW f, NEW S, IsFiniteSet(S), NEW T, IsFiniteSet(T), S \cap T = {},
         \A x \in S \cup T : f[x] \in Int
  PROVE  Total(f, S \cup T) = Total(f, S) + Total(f, T)
  <1> DEFINE Bad == {s \in SUBSET S : Total(f, s \cup T) # Total(f, s) + Total(f, T)}
  <1>1. IsFiniteSet(S \cup T) BY FS_Union
  <1>2. \A u \in SUBSET (S \cup T) : Total(f, u) \in Int BY <1>1, TotalIsInt
  <1>3. ASSUME Bad # {}
        PROVE  FALSE
    <2>1. Bad \in SUBSET SUBSET S OBVIOUS
    <2>2. PICK s \in Bad : \A u \in Bad : u \subseteq s => u = s
      <3> HIDE DEF Bad
      <3> QED BY <1>3, <2>1, SmallestSet
    <2>3. s \in SUBSET S /\ Total(f, s \cup T) # Total(f, s) + Total(f, T) OBVIOUS
    <2>4. s # {}
      <3> SUFFICES ASSUME s = {} PROVE FALSE OBVIOUS
      <3>1. s \cup T = T OBVIOUS
      <3>2. Total(f, s) = 0 BY <1>1, TotalStep
      <3>3. Total(f, T) \in Int BY <1>2
      <3>4. QED BY <2>3, <3>1, <3>2, <3>3
    <2> DEFINE c == First(s)
    <2>5. c \in s BY <2>4, FirstIsOne
    <2>6. Total(f, (s \ {c}) \cup T) = Total(f, s \ {c}) + Total(f, T) BY <2>2, <2>3, <2>5
    <2>7. (s \cup T) \ {c} = (s \ {c}) \cup T BY <2>3, <2>5
    <2>8. Total(f, s) = f[c] + Total(f, s \ {c}) BY <2>3, <2>4, TotalStep
    <2>9. Total(f, s \cup T) = f[c] + Total(f, (s \cup T) \ {c})
      <3>1. s \cup T \in SUBSET (S \cup T) /\ c \in s \cup T BY <2>3, <2>5
      <3>2. IsFiniteSet(s \cup T) BY <1>1, <3>1, FS_Subset
      <3> HIDE DEF c
      <3>3. QED BY <3>1, <3>2, TotalWithout
    <2>10. f[c] \in Int /\ Total(f, s \ {c}) \in Int /\ Total(f, T) \in Int
      BY <1>2, <2>3, <2>5
    <2> HIDE DEF c
    <2>11. Total(f, s \cup T) = f[c] + (Total(f, s \ {c}) + Total(f, T))
      BY <2>6, <2>7, <2>9
    <2>12. QED BY <2>3, <2>8, <2>10, <2>11
  <1>4. QED BY <1>3

\* The sum of the sums of some sets that have nothing in common is that of all.
LEMMA TotalOfTotals ==
  ASSUME NEW f, NEW g, NEW K, IsFiniteSet(K), NEW R, IsFiniteSet(UNION {R[k] : k \in K}),
         \A x \in UNION {R[k] : k \in K} : f[x] \in Int,
         \A k \in K : g[k] = Total(f, R[k]),
         \A k, l \in K : k # l => R[k] \cap R[l] = {}
  PROVE  Total(g, K) = Total(f, UNION {R[k] : k \in K})
  <1> DEFINE All(s) == UNION {R[k] : k \in s}
             Bad == {s \in SUBSET K : Total(g, s) # Total(f, All(s))}
  <1>1. ASSUME Bad # {}
        PROVE  FALSE
    <2>1. Bad \in SUBSET SUBSET K OBVIOUS
    <2>2. PICK s \in Bad : \A u \in Bad : u \subseteq s => u = s
      <3> HIDE DEF Bad
      <3> QED BY <1>1, <2>1, SmallestSet
    <2>3. s \in SUBSET K /\ Total(g, s) # Total(f, All(s)) OBVIOUS
    <2>4. s # {}
      <3>1. All({}) = {} OBVIOUS
      <3>2. Total(g, {}) = 0 /\ Total(f, {}) = 0 BY TotalStep
      <3>3. QED BY <2>3, <3>1, <3>2
    <2> DEFINE c == First(s)
    <2>5. c \in s BY <2>4, FirstIsOne
    <2>6. Total(g, s \ {c}) = Total(f, All(s \ {c})) BY <2>2, <2>3, <2>5
    <2>7. Total(g, s) = g[c] + Total(g, s \ {c}) BY <2>3, <2>4, TotalStep
    <2>8. g[c] = Total(f, R[c]) BY <2>3, <2>5
    <2>9. Total(f, All(s)) = Total(f, R[c]) + Total(f, All(s \ {c}))
      <3>1. All(s) = R[c] \cup All(s \ {c}) BY <2>5
      <3>2. R[c] \cap All(s \ {c}) = {} BY <2>3, <2>5
      <3>3. R[c] \subseteq All(K) /\ All(s \ {c}) \subseteq All(K) BY <2>3, <2>5
      <3>4. IsFiniteSet(R[c]) /\ IsFiniteSet(All(s \ {c})) BY <3>3, FS_Subset
      <3>5. \A x \in R[c] \cup All(s \ {c}) : f[x] \in Int BY <3>3
      <3>6. PICK P, Q : P = R[c] /\ Q = All(s \ {c}) OBVIOUS
      <3> HIDE DEF All, c
      <3>7. /\ IsFiniteSet(P) /\ IsFiniteSet(Q) /\ P \cap Q = {}
            /\ \A x \in P \cup Q : f[x] \in Int
        BY <3>2, <3>4, <3>5, <3>6
      <3>8. Total(f, P \cup Q) = Total(f, P) + Total(f, Q) BY <3>7, TotalUnion
      <3>9. QED BY <3>1, <3>6, <3>8
    <2> HIDE DEF All, c
    <2>10. QED BY <2>3, <2>6, <2>7, <2>8, <2>9
  <1>2. QED BY <1>1

\* A sum of one value is that value.
LEMMA TotalOfOne ==
  ASSUME NEW f, NEW x, f[x] \in Int
  PROVE  Total(f, {x}) = f[x]
  <1>1. IsFiniteSet({x}) BY FS_Singleton
  <1>2. {x} \ {x} = {} OBVIOUS
  <1>3. Total(f, {x}) = f[x] + Total(f, {}) BY <1>1, <1>2, TotalWithout
  <1>4. Total(f, {}) = 0 BY <1>1, TotalStep
  <1>5. QED BY <1>3, <1>4

-----------------------------------------------------------------------------
(* The table. *)

\* What a well-typed table holds.
LEMMA EntryFields ==
  ASSUME PTypeOK
  PROVE  /\ IsFiniteSet(DOMAIN entry)
         /\ today \in Int
         /\ \A e \in DOMAIN entry :
              /\ e \in Nat
              /\ entry[e].vehicle \in Vehicles
              /\ entry[e].day \in Int /\ entry[e].day <= today
              /\ entry[e].reading \in Nat
              /\ entry[e].litres \in Nat
              /\ entry[e].cost \in Nat
  <1>1. IsFiniteSet(DOMAIN entry)
    <2>1. IsFiniteSet(1..MaxEntries) BY FS_Interval, InstanceAssumption
    <2>2. QED BY <2>1, FS_Subset DEF PTypeOK, IsTable
  <1>2. today \in Int BY CalendarAssumption DEF PTypeOK
  <1>3. ASSUME NEW e \in DOMAIN entry
        PROVE  entry[e] \in FuelEntryRow /\ entry[e].day <= today /\ e \in 1..MaxEntries
    BY DEF PTypeOK, IsTable
  <1>4. QED BY <1>1, <1>2, <1>3, CalendarAssumption, InstanceAssumption DEF FuelEntryRow

LEMMA PInitInv == PInit => PTypeOK
  BY CalendarAssumption DEF PInit, PTypeOK, IsTable, EmptyTable

\* The steps keep the offered forms, which are rows.
FormsAreRows == forms \subseteq FuelEntryRow

LEMMA PInitForms == PInit => FormsAreRows
  BY OffersAssumption DEF PInit, FormsAreRows

LEMMA PStepInv ==
  ASSUME PTypeOK, FormsAreRows, [PNext]_pvars
  PROVE  PTypeOK' /\ FormsAreRows'
  <1>1. ASSUME NEW form \in forms, AddEntry(form)
        PROVE  PTypeOK' /\ FormsAreRows'
    <2>1. Cardinality(DOMAIN entry) + 1 \in 1..MaxEntries
      <3>1. Cardinality(DOMAIN entry) \in Nat BY EntryFields, FS_CardinalityType
      <3>2. QED BY <1>1, <3>1, InstanceAssumption DEF AddEntry
    <2>2. PICK k \in 1..MaxEntries : entry' = Insert(entry, k, form)
      BY <1>1, <2>1 DEF AddEntry
    <2>3. form \in FuelEntryRow BY DEF FormsAreRows
    <2>4. /\ DOMAIN entry' = DOMAIN entry \cup {k}
          /\ \A e \in DOMAIN entry' : entry'[e] = IF e = k THEN form ELSE entry[e]
          /\ entry' = [e \in DOMAIN entry' |-> entry'[e]]
      BY <2>2 DEF Insert
    <2>5. IsTable(entry', 1..MaxEntries, FuelEntryRow)
      BY <2>3, <2>4 DEF IsTable, PTypeOK
    <2>6. \A e \in DOMAIN entry' : entry'[e].day <= today'
      BY <1>1, <2>4 DEF AddEntry, Accepted, PTypeOK
    <2>7. QED BY <1>1, <2>5, <2>6 DEF AddEntry, PTypeOK, FormsAreRows
  <1>2. ASSUME NEW form \in forms, NEW e \in DOMAIN entry, EditEntry(e, form)
        PROVE  PTypeOK' /\ FormsAreRows'
    <2>1. form \in FuelEntryRow BY DEF FormsAreRows
    <2>2. IsTable(entry', 1..MaxEntries, FuelEntryRow)
      BY <1>2, <2>1 DEF EditEntry, IsTable, PTypeOK
    <2>3. \A d \in DOMAIN entry' : entry'[d].day <= today'
      BY <1>2 DEF EditEntry, Accepted, PTypeOK, IsTable
    <2>4. QED BY <1>2, <2>2, <2>3 DEF EditEntry, PTypeOK, FormsAreRows
  <1>3. ASSUME NEW e \in DOMAIN entry, DeleteEntry(e)
        PROVE  PTypeOK' /\ FormsAreRows'
    <2>1. entry' = [entry EXCEPT ![e] = [entry[e] EXCEPT !.deleted = TRUE]]
      BY <1>3 DEF DeleteEntry
    <2>2. entry[e] \in FuelEntryRow BY DEF PTypeOK, IsTable
    <2>3. /\ [entry[e] EXCEPT !.deleted = TRUE] \in FuelEntryRow
          /\ [entry[e] EXCEPT !.deleted = TRUE].day = entry[e].day
      BY <2>2 DEF FuelEntryRow
    <2>4. IsTable(entry', 1..MaxEntries, FuelEntryRow)
      BY <2>1, <2>3 DEF IsTable, PTypeOK
    <2>5. \A d \in DOMAIN entry' : entry'[d].day <= today'
      BY <1>3, <2>1, <2>3 DEF DeleteEntry, PTypeOK, IsTable
    <2>6. QED BY <1>3, <2>4, <2>5 DEF DeleteEntry, PTypeOK, FormsAreRows
  <1>4. ASSUME NEW v \in Vehicles, DeleteVehicle(v)
        PROVE  PTypeOK' /\ FormsAreRows'
    BY <1>4 DEF DeleteVehicle, PTypeOK, FormsAreRows, IsTable
  <1>5. ASSUME Midnight
        PROVE  PTypeOK' /\ FormsAreRows'
    <2>1. today' \in FirstToday..LastDay /\ today < today'
      BY <1>5, CalendarAssumption DEF Midnight, PTypeOK
    <2>2. \A e \in DOMAIN entry : entry[e].day <= today'
      BY <2>1, EntryFields, CalendarAssumption
    <2>3. QED BY <1>5, <2>1, <2>2 DEF Midnight, PTypeOK, FormsAreRows, IsTable
  <1>6. CASE UNCHANGED pvars
    BY <1>6 DEF pvars, PTypeOK, FormsAreRows, IsTable
  <1>7. QED BY <1>1, <1>2, <1>3, <1>4, <1>5, <1>6 DEF PNext

-----------------------------------------------------------------------------
(* Consumption. *)

\* No two fills of a set have one reading.
Separate(S) == \A p, e \in S : entry[p].reading = entry[e].reading => p = e

\* Neighbours by reading, whichever page has sorted them.
Steps(S) ==
  {s \in S \X S :
     /\ entry[s[1]].reading < entry[s[2]].reading
     /\ \A f \in S : ~(/\ entry[s[1]].reading < entry[f].reading
                       /\ entry[f].reading < entry[s[2]].reading)}

\* The fills that end a step.
Ends(S) == {e \in S : \E p \in S : entry[p].reading < entry[e].reading}

\* As many readings as fills means that they differ.
LEMMA ReadingsSeparate ==
  ASSUME PTypeOK, NEW v \in Vehicles, ReadingsDiffer(v)
  PROVE  Separate(FullFills(v))
  <1> DEFINE F == FullFills(v)
             f == [e \in F |-> entry[e].reading]
  <1>1. IsFiniteSet(F)
    BY EntryFields, FS_Subset DEF FullFills, EntriesOf, ActiveEntries
  <1>2. f \in Surjection(F, Readings(v)) BY DEF Surjection, Readings
  <1>3. Cardinality(F) = Cardinality(Readings(v)) BY DEF ReadingsDiffer
  <1>4. f \in Injection(F, Readings(v))
    <2> HIDE DEF F, f
    <2> QED BY <1>1, <1>2, <1>3, FS_SurjSameCardinalityImpliesInj
  <1>5. QED BY <1>4 DEF Injection, IsInjective, Separate

\* Where readings differ the rank plays no part in the order of the fills.
LEMMA SegmentsAreSteps ==
  ASSUME PTypeOK, NEW S \in SUBSET DOMAIN entry, Separate(S), NEW rank,
         \A e \in S : rank[e] \in Int
  PROVE  Segments(S, rank) = Steps(S)
  <1>1. \A p, e \in S : ByReading(rank, p, e) <=> entry[p].reading < entry[e].reading
    <2> SUFFICES ASSUME NEW p \in S, NEW e \in S
                 PROVE  ByReading(rank, p, e) <=> entry[p].reading < entry[e].reading
      OBVIOUS
    <2>1. CASE entry[p].reading = entry[e].reading
      <3>1. p = e BY <2>1 DEF Separate
      <3>2. ~(rank[p] < rank[e]) BY <3>1
      <3>3. QED BY <2>1, <3>2, EntryFields DEF ByReading
    <2>2. CASE entry[p].reading # entry[e].reading BY <2>2 DEF ByReading
    <2>3. QED BY <2>1, <2>2
  <1>2. \A p, e \in S : Distance(p, e) > 0 <=> entry[p].reading < entry[e].reading
    BY EntryFields DEF Distance
  <1>3. ASSUME NEW s \in S \X S
        PROVE  s \in Segments(S, rank) <=> s \in Steps(S)
    BY <1>1, <1>2, <1>3 DEF Segments, Steps
  <1>4. QED BY <1>3 DEF Segments, Steps

\* A place in the order of dates is a number.
LEMMA DateRankIsNat ==
  ASSUME PTypeOK, NEW S \in SUBSET DOMAIN entry
  PROVE  \A e \in S : DateRank(S)[e] \in Nat
  <1> SUFFICES ASSUME NEW e \in S PROVE DateRank(S)[e] \in Nat OBVIOUS
  <1>1. {p \in S : ByDate(p, e)} \in SUBSET DOMAIN entry OBVIOUS
  <1>2. IsFiniteSet({p \in S : ByDate(p, e)}) BY <1>1, EntryFields, FS_Subset
  <1>3. Cardinality({p \in S : ByDate(p, e)}) \in Nat BY <1>2, FS_CardinalityType
  <1>4. QED BY <1>3 DEF DateRank

\* Naturals have a least one among them.
LEMMA LeastNat ==
  ASSUME NEW T \in SUBSET Nat, T # {}
  PROVE  \E x \in T : \A y \in T : x <= y
  <1>1. PICK x \in T : \A y \in T : ~ (<<y, x>> \in OpToRel(<, Nat))
    BY Zenon, NatLessThanWellFounded, WFMin
  <1>2. \A y \in T : ~ (y < x) BY <1>1 DEF OpToRel
  <1>3. QED BY <1>2

\* Each fill above another ends exactly one step.
LEMMA StepsEnd ==
  ASSUME PTypeOK, NEW S \in SUBSET DOMAIN entry, Separate(S)
  PROVE  [s \in Steps(S) |-> s[2]] \in Bijection(Steps(S), Ends(S))
  <1> DEFINE b == [s \in Steps(S) |-> s[2]]
  <1>1. ASSUME NEW s \in Steps(S)
        PROVE  s[2] \in Ends(S)
    BY DEF Steps, Ends
  <1>2. ASSUME NEW s \in Steps(S), NEW u \in Steps(S), s[2] = u[2]
        PROVE  s = u
    <2>1. s[1] \in S /\ u[1] \in S /\ s = <<s[1], s[2]>> /\ u = <<u[1], u[2]>> BY DEF Steps
    <2>2. ~(entry[s[1]].reading < entry[u[1]].reading) BY <1>2, <2>1 DEF Steps
    <2>3. ~(entry[u[1]].reading < entry[s[1]].reading) BY <1>2, <2>1 DEF Steps
    <2>4. entry[s[1]].reading = entry[u[1]].reading BY <2>1, <2>2, <2>3, EntryFields
    <2>5. s[1] = u[1] BY <2>1, <2>4 DEF Separate
    <2>6. QED BY <1>2, <2>1, <2>5
  <1>3. ASSUME NEW e \in Ends(S)
        PROVE  \E s \in Steps(S) : s[2] = e
    <2> DEFINE Lower == {p \in S : entry[p].reading < entry[e].reading}
               T == {entry[e].reading - entry[p].reading : p \in Lower}
    <2>1. e \in S /\ Lower # {} BY DEF Ends
    <2>2. T \in SUBSET Nat BY <2>1, EntryFields
    <2>3. T # {} BY <2>1
    <2>4. PICK d \in T : \A y \in T : d <= y
      <3> HIDE DEF T
      <3> QED BY <2>2, <2>3, LeastNat
    <2>5. PICK p \in Lower : d = entry[e].reading - entry[p].reading OBVIOUS
    <2>6. \A q \in Lower : entry[q].reading <= entry[p].reading
      <3> SUFFICES ASSUME NEW q \in Lower PROVE entry[q].reading <= entry[p].reading OBVIOUS
      <3>1. d <= entry[e].reading - entry[q].reading BY <2>4
      <3>2. entry[e].reading \in Nat /\ entry[p].reading \in Nat /\ entry[q].reading \in Nat
        BY <2>1, EntryFields
      <3>3. QED BY <2>5, <3>1, <3>2
    <2>7. \A f \in S : ~(entry[p].reading < entry[f].reading /\ entry[f].reading < entry[e].reading)
      <3> SUFFICES ASSUME NEW f \in S, entry[f].reading < entry[e].reading
                   PROVE  ~(entry[p].reading < entry[f].reading)
        OBVIOUS
      <3>1. entry[f].reading <= entry[p].reading BY <2>6
      <3>2. entry[f].reading \in Nat /\ entry[p].reading \in Nat BY EntryFields
      <3>3. QED BY <3>1, <3>2
    <2>8. <<p, e>> \in Steps(S) BY <2>1, <2>7 DEF Steps
    <2>9. QED BY <2>8
  <1>4. QED BY <1>1, <1>2, <1>3 DEF Bijection, Injection, Surjection, IsInjective

\* A step has a whole rate.
LEMMA RateIsInt ==
  ASSUME PTypeOK, NEW S \in SUBSET DOMAIN entry, NEW s \in Steps(S)
  PROVE  Rate(s) \in Int /\ Distance(s[1], s[2]) \in Nat \ {0}
  <1>1. s[1] \in DOMAIN entry /\ s[2] \in DOMAIN entry BY DEF Steps
  <1>2. Distance(s[1], s[2]) \in Nat \ {0}
    BY <1>1, EntryFields DEF Distance, Steps
  <1>3. Unit \div Distance(s[1], s[2]) \in Int BY <1>2, InstanceAssumption
  <1>4. entry[s[2]].litres \in Int BY <1>1, EntryFields
  <1>5. QED BY <1>2, <1>3, <1>4 DEF Rate

\* An average is taken over the fills that end a step.
LEMMA AverageOverEnds ==
  ASSUME PTypeOK, NEW S \in SUBSET DOMAIN entry, Separate(S),
         NEW rank, \A e \in S : rank[e] \in Int,
         NEW g, \A s \in Steps(S) : g[s[2]] = Rate(s)
  PROVE  Average(S, rank) = [sum |-> Total(g, Ends(S)), n |-> Cardinality(Ends(S))]
  <1> DEFINE f == [s \in Steps(S) |-> Rate(s)]
             b == [s \in Steps(S) |-> s[2]]
  <1>1. Average(S, rank) = [sum |-> SumFunction(f), n |-> Cardinality(Steps(S))]
    BY SegmentsAreSteps DEF Average
  <1>2. b \in Bijection(Steps(S), Ends(S)) BY StepsEnd
  <1>3. IsFiniteSet(Steps(S))
    <2>1. IsFiniteSet(S) BY EntryFields, FS_Subset
    <2>2. IsFiniteSet(S \X S) BY <2>1, FS_Product
    <2>3. Steps(S) \subseteq S \X S BY DEF Steps
    <2>4. QED BY <2>2, <2>3, FS_Subset
  <1>4. Cardinality(Ends(S)) = Cardinality(Steps(S))
    BY <1>2, <1>3, FS_Bijection DEF ExistsBijection
  <1>5. \A s \in Steps(S) : f[s] = g[b[s]] OBVIOUS
  <1>6. \A e \in Ends(S) : g[e] \in Int
    <2> SUFFICES ASSUME NEW e \in Ends(S) PROVE g[e] \in Int OBVIOUS
    <2>1. PICK s \in Steps(S) : b[s] = e BY <1>2 DEF Bijection, Surjection
    <2>2. g[e] = Rate(s) BY <2>1
    <2>3. QED BY <2>2, RateIsInt
  <1>7. SumFunction(f) = Total(f, Steps(S)) BY SumIsTotal
  <1>8. Total(f, Steps(S)) = Total(g, Ends(S))
    <2> HIDE DEF f, b
    <2> QED BY <1>2, <1>3, <1>5, <1>6, TotalReindexed
  <1>9. QED BY <1>1, <1>4, <1>7, <1>8

\* The full fills of a vehicle.
LEMMA FullFillsAre ==
  /\ \A v : FullFills(v) \in SUBSET DOMAIN entry
  /\ \A v : \A e \in FullFills(v) : entry[e].vehicle = v /\ entry[e].full
  /\ \A v : FullFills(v) = {e \in EntriesOf(v) : entry[e].full}
  BY DEF FullFills, EntriesOf, ActiveEntries

\* The least distance to a lower reading is that of the step that ends here.
LEMMA WayIsDistance ==
  ASSUME PTypeOK, NEW S \in SUBSET DOMAIN entry, Separate(S), NEW s \in Steps(S)
  PROVE  Min({entry[s[2]].reading - entry[p].reading :
                p \in {q \in S : entry[q].reading < entry[s[2]].reading}}) = Distance(s[1], s[2])
  <1> DEFINE Lower == {q \in S : entry[q].reading < entry[s[2]].reading}
             T == {entry[s[2]].reading - entry[p].reading : p \in Lower}
             d == Distance(s[1], s[2])
  <1>1. s[1] \in Lower /\ s[2] \in S BY DEF Steps
  <1>2. d \in T BY <1>1 DEF Distance
  <1>3. \A p \in S : entry[p].reading \in Nat BY EntryFields
  <1>4. \A p \in Lower : entry[p].reading <= entry[s[1]].reading
    <2> SUFFICES ASSUME NEW p \in Lower PROVE entry[p].reading <= entry[s[1]].reading OBVIOUS
    <2>1. ~(entry[s[1]].reading < entry[p].reading) BY DEF Steps
    <2>2. QED BY <1>1, <1>3, <2>1
  <1>5. \A y \in T : y \in Int /\ d <= y
    <2> SUFFICES ASSUME NEW p \in Lower
                 PROVE  /\ entry[s[2]].reading - entry[p].reading \in Int
                        /\ d <= entry[s[2]].reading - entry[p].reading
      OBVIOUS
    <2>1. entry[p].reading <= entry[s[1]].reading BY <1>4
    <2>2. /\ entry[p].reading \in Nat
          /\ entry[s[1]].reading \in Nat
          /\ entry[s[2]].reading \in Nat
      BY <1>1, <1>3
    <2>3. QED BY <2>1, <2>2 DEF Distance
  <1> HIDE DEF T, d
  <1>6. Min(T) \in T /\ \A y \in T : Min(T) <= y BY <1>2, <1>5 DEF Min
  <1>7. Min(T) = d BY <1>2, <1>5, <1>6
  <1>8. QED BY <1>7 DEF T, d

LEMMA WaysCountOnce == PTypeOK => EveryWayCountsOnce
  <1> SUFFICES ASSUME PTypeOK, NEW v \in Vehicles, ReadingsDiffer(v)
               PROVE  LET fills == {e \in EntriesOf(v) : entry[e].full}
                          Lower(e) == {p \in fills : entry[p].reading < entry[e].reading}
                          Way(e) == Min({entry[e].reading - entry[p].reading : p \in Lower(e)})
                          ends == {e \in fills : Lower(e) # {}}
                      IN  BreakdownAverage(v) =
                            [sum |-> SumFunction([e \in ends |->
                                       entry[e].litres * (Unit \div Way(e))]),
                             n |-> Cardinality(ends)]
    BY DEF EveryWayCountsOnce
  <1> DEFINE F == FullFills(v)
             Lower(e) == {p \in F : entry[p].reading < entry[e].reading}
             Way(e) == Min({entry[e].reading - entry[p].reading : p \in Lower(e)})
             g == [e \in Ends(F) |-> entry[e].litres * (Unit \div Way(e))]
  <1>1. F \in SUBSET DOMAIN entry /\ F = {e \in EntriesOf(v) : entry[e].full} BY FullFillsAre
  <1>2. Separate(F) BY ReadingsSeparate
  <1>3. \A e \in F : DateRank(F)[e] \in Int BY <1>1, DateRankIsNat
  <1>4. {e \in F : Lower(e) # {}} = Ends(F) BY DEF Ends
  <1>5. \A s \in Steps(F) : g[s[2]] = Rate(s)
    <2> SUFFICES ASSUME NEW s \in Steps(F) PROVE g[s[2]] = Rate(s) OBVIOUS
    <2>1. s[2] \in Ends(F) BY DEF Steps, Ends
    <2>2. Way(s[2]) = Distance(s[1], s[2])
      <3> HIDE DEF F
      <3> QED BY <1>1, <1>2, WayIsDistance
    <2> HIDE DEF Way
    <2>3. QED BY <2>1, <2>2 DEF Rate
  <1>6. BreakdownAverage(v) = [sum |-> Total(g, Ends(F)), n |-> Cardinality(Ends(F))]
    <2> HIDE DEF F, g
    <2>1. Average(F, DateRank(F)) = [sum |-> Total(g, Ends(F)), n |-> Cardinality(Ends(F))]
      BY <1>1, <1>2, <1>3, <1>5, AverageOverEnds
    <2>2. QED BY <2>1 DEF BreakdownAverage, F
  <1>7. SumFunction(g) = Total(g, Ends(F)) BY SumIsTotal
  <1>8. BreakdownAverage(v) = [sum |-> SumFunction(g), n |-> Cardinality(Ends(F))]
    BY <1>6, <1>7
  <1> HIDE DEF F
  <1>9. QED BY <1>1, <1>4, <1>8

\* However the summary sorts, it finds the same segments.
LEMMA SummaryIsBreakdown ==
  ASSUME PTypeOK, NEW v \in Vehicles, ReadingsDiffer(v), NEW average \in SummaryAverages(v)
  PROVE  average = BreakdownAverage(v)
  <1> DEFINE F == FullFills(v)
  <1>1. F \in SUBSET DOMAIN entry BY FullFillsAre
  <1>2. Separate(F) BY ReadingsSeparate
  <1>3. PICK rank \in Ranks(F) : average = Average(F, rank) BY DEF SummaryAverages
  <1>4. \A e \in F : rank[e] \in Int
    <2>1. \A e \in F : rank[e] \in F BY <1>3 DEF Ranks
    <2>2. QED BY <1>1, <2>1, EntryFields
  <1>5. \A e \in F : DateRank(F)[e] \in Int BY <1>1, DateRankIsNat
  <1> HIDE DEF F
  <1>6. Segments(F, rank) = Segments(F, DateRank(F))
    <2>1. Segments(F, rank) = Steps(F) BY <1>1, <1>2, <1>4, SegmentsAreSteps
    <2>2. Segments(F, DateRank(F)) = Steps(F) BY <1>1, <1>2, <1>5, SegmentsAreSteps
    <2>3. QED BY <2>1, <2>2
  <1>7. QED BY <1>3, <1>6 DEF Average, BreakdownAverage, F

\* Of two entries one is the earlier.
LEMMA DatesOrder ==
  ASSUME PTypeOK, NEW p \in DOMAIN entry, NEW e \in DOMAIN entry
  PROVE  /\ p # e => ByDate(p, e) \/ ByDate(e, p)
         /\ ~ByDate(e, e)
  BY EntryFields DEF ByDate

\* Where readings rise, dates and readings tell the same.
LEMMA DatesAreReadings ==
  ASSUME PTypeOK, NEW v \in Vehicles, ReadingsRise(v)
  PROVE  /\ Separate(FullFills(v))
         /\ \A p, e \in FullFills(v) :
              ByDate(p, e) <=> entry[p].reading < entry[e].reading
  <1> SUFFICES ASSUME NEW p \in FullFills(v), NEW e \in FullFills(v)
               PROVE  /\ entry[p].reading = entry[e].reading => p = e
                      /\ ByDate(p, e) <=> entry[p].reading < entry[e].reading
    BY DEF Separate
  <1>1. p \in DOMAIN entry /\ e \in DOMAIN entry BY FullFillsAre
  <1>2. entry[p].reading \in Nat /\ entry[e].reading \in Nat BY <1>1, EntryFields
  <1>3. /\ ByDate(p, e) => entry[p].reading < entry[e].reading
        /\ ByDate(e, p) => entry[e].reading < entry[p].reading
    BY DEF ReadingsRise
  <1>4. p # e => ByDate(p, e) \/ ByDate(e, p) BY <1>1, DatesOrder
  <1>5. QED BY <1>2, <1>3, <1>4

\* Then the full fill before one by date is the start of the step it ends.
LEMMA PreviousIsStep ==
  ASSUME PTypeOK, NEW v \in Vehicles, ReadingsRise(v), NEW e \in FullFills(v)
  PROVE  PreviousFull(e) = {p \in FullFills(v) : <<p, e>> \in Steps(FullFills(v))}
  <1> DEFINE F == FullFills(v)
  <1>1. entry[e].vehicle = v BY FullFillsAre
  <1>2. PreviousFull(e) = {p \in F : /\ ByDate(p, e)
                                     /\ \A f \in F : ByDate(f, e) => ~ByDate(p, f)}
    BY <1>1 DEF PreviousFull
  <1>3. \A p, f \in F : ByDate(p, f) <=> entry[p].reading < entry[f].reading
    BY DatesAreReadings
  <1> HIDE DEF F
  <1>4. e \in F BY DEF F
  <1>5. \A p \in F : <<p, e>> \in Steps(F) <=>
          /\ entry[p].reading < entry[e].reading
          /\ \A f \in F : ~(entry[p].reading < entry[f].reading
                            /\ entry[f].reading < entry[e].reading)
    BY <1>4 DEF Steps
  <1>6. QED BY <1>2, <1>3, <1>4, <1>5 DEF F

\* A pair of fills has one segment.
LEMMA PairHasOneRate ==
  ASSUME PTypeOK, NEW p \in DOMAIN entry, NEW e \in DOMAIN entry,
         entry[p].reading < entry[e].reading
  PROVE  Average({p, e}, DateRank({p, e})) = [sum |-> Rate(<<p, e>>), n |-> 1]
  <1> DEFINE S == {p, e}
             g == [x \in {e} |-> Rate(<<p, e>>)]
  <1>1. S \in SUBSET DOMAIN entry OBVIOUS
  <1>2. entry[p].reading \in Nat /\ entry[e].reading \in Nat BY EntryFields
  <1>3. Separate(S) BY <1>2 DEF Separate
  <1>4. \A x \in S : DateRank(S)[x] \in Int BY <1>1, DateRankIsNat
  <1>5. Ends(S) = {e} BY <1>2 DEF Ends
  <1>6. <<p, e>> \in Steps(S) BY <1>2 DEF Steps
  <1>7. \A s \in Steps(S) : s = <<p, e>> BY <1>2 DEF Steps
  <1>8. \A s \in Steps(S) : g[s[2]] = Rate(s) BY <1>7
  <1> HIDE DEF S
  <1>9. Rate(<<p, e>>) \in Int BY <1>1, <1>6, RateIsInt
  <1>10. Total(g, {e}) = Rate(<<p, e>>) BY <1>9, TotalOfOne
  <1> HIDE DEF g
  <1>11. Average(S, DateRank(S)) = [sum |-> Total(g, Ends(S)), n |-> Cardinality(Ends(S))]
    BY <1>1, <1>3, <1>4, <1>8, AverageOverEnds
  <1>12. Cardinality({e}) = 1 BY FS_Singleton
  <1>13. QED BY <1>5, <1>10, <1>11, <1>12 DEF S

LEMMA BreakdownIsMean ==
  ASSUME PTypeOK, NEW v \in Vehicles, ReadingsRise(v)
  PROVE  BreakdownAverage(v) = MeanOf(EntriesOf(v))
  <1> DEFINE F == FullFills(v)
             g == [e \in Valued(EntriesOf(v)) |-> ConsumptionOf(e).sum]
  <1>1. F \in SUBSET DOMAIN entry /\ F = {e \in EntriesOf(v) : entry[e].full} BY FullFillsAre
  <1>2. Separate(F) BY DatesAreReadings
  <1>3. \A e \in F : DateRank(F)[e] \in Int BY <1>1, DateRankIsNat
  <1>4. ASSUME NEW s \in Steps(F)
        PROVE  ConsumptionOf(s[2]) = [sum |-> Rate(s), n |-> 1]
    <2>1. s[1] \in F /\ s[2] \in F /\ s = <<s[1], s[2]>> BY DEF Steps
    <2>2. s[1] \in PreviousFull(s[2]) BY <2>1, PreviousIsStep
    <2>3. \A q \in PreviousFull(s[2]) : q = s[1]
      <3> SUFFICES ASSUME NEW q \in PreviousFull(s[2]) PROVE q = s[1] OBVIOUS
      <3>1. q \in F /\ <<q, s[2]>> \in Steps(F) BY <2>1, PreviousIsStep
      <3>2. [u \in Steps(F) |-> u[2]] \in Bijection(Steps(F), Ends(F)) BY <1>1, <1>2, StepsEnd
      <3>3. <<q, s[2]>> = s BY <2>1, <3>1, <3>2 DEF Bijection, Injection, IsInjective
      <3>4. QED BY <2>1, <3>3
    <2>4. (CHOOSE q \in PreviousFull(s[2]) : TRUE) = s[1] BY <2>2, <2>3
    <2>5. entry[s[2]].full BY <1>1, <2>1
    <2>6. ConsumptionOf(s[2]) = Average({s[1], s[2]}, DateRank({s[1], s[2]}))
      BY <2>2, <2>4, <2>5 DEF ConsumptionOf
    <2>7. entry[s[1]].reading < entry[s[2]].reading BY DEF Steps
    <2>8. Average({s[1], s[2]}, DateRank({s[1], s[2]})) = [sum |-> Rate(<<s[1], s[2]>>), n |-> 1]
      BY <1>1, <2>1, <2>7, PairHasOneRate
    <2>9. QED BY <2>1, <2>6, <2>8
  <1>5. Valued(EntriesOf(v)) = Ends(F)
    <2>1. ASSUME NEW e \in Ends(F)
          PROVE  e \in Valued(EntriesOf(v))
      <3>1. PICK s \in Steps(F) : s[2] = e
        BY <1>1, <1>2, StepsEnd DEF Bijection, Surjection
      <3>2. ConsumptionOf(e).n = 1
        <4>1. ConsumptionOf(s[2]) = [sum |-> Rate(s), n |-> 1] BY <1>4
        <4>2. ConsumptionOf(e) = [sum |-> Rate(s), n |-> 1] BY <3>1, <4>1
        <4>3. QED BY <4>2
      <3>3. e \in EntriesOf(v) BY <1>1 DEF Ends
      <3>4. QED BY <3>2, <3>3 DEF Valued
    <2>2. ASSUME NEW e \in Valued(EntriesOf(v))
          PROVE  e \in Ends(F)
      <3>1. e \in EntriesOf(v) /\ entry[e].full /\ PreviousFull(e) # {}
        BY DEF Valued, ConsumptionOf
      <3>2. e \in F BY <1>1, <3>1
      <3>3. PICK p \in PreviousFull(e) : TRUE BY <3>1
      <3>4. p \in F /\ <<p, e>> \in Steps(F) BY <3>2, <3>3, PreviousIsStep
      <3>5. QED BY <3>2, <3>4 DEF Ends, Steps
    <2>3. QED BY <2>1, <2>2
  <1>6. \A s \in Steps(F) : g[s[2]] = Rate(s)
    <2> SUFFICES ASSUME NEW s \in Steps(F) PROVE g[s[2]] = Rate(s) OBVIOUS
    <2>1. s[2] \in Valued(EntriesOf(v)) BY <1>5 DEF Steps, Ends
    <2>2. g[s[2]] = ConsumptionOf(s[2]).sum BY <2>1
    <2>3. ConsumptionOf(s[2]) = [sum |-> Rate(s), n |-> 1] BY <1>4
    <2>4. QED BY <2>2, <2>3
  <1>7. SumFunction(g) = Total(g, Ends(F)) BY <1>5, SumIsTotal
  <1>8. MeanOf(EntriesOf(v)) = [sum |-> SumFunction(g), n |-> Cardinality(Ends(F))]
    BY <1>5 DEF MeanOf
  <1> HIDE DEF F, g
  <1>9. Average(F, DateRank(F)) = [sum |-> Total(g, Ends(F)), n |-> Cardinality(Ends(F))]
    BY <1>1, <1>2, <1>3, <1>6, AverageOverEnds
  <1>10. QED BY <1>7, <1>8, <1>9 DEF BreakdownAverage, F

LEMMA PagesAgree == PTypeOK => AveragesAgree
  <1> SUFFICES ASSUME PTypeOK, NEW v \in Vehicles
               PROVE  /\ ReadingsDiffer(v) =>
                           \A average \in SummaryAverages(v) :
                             SameMean(average, BreakdownAverage(v))
                      /\ ReadingsRise(v) =>
                           SameMean(BreakdownAverage(v), MeanOf(EntriesOf(v)))
    BY DEF AveragesAgree
  <1>1. \A a : SameMean(a, a) BY DEF SameMean
  <1>2. QED BY <1>1, SummaryIsBreakdown, BreakdownIsMean

-----------------------------------------------------------------------------
(* The calendar. *)

\* Months counted through, where the code keeps a year and a month.
Month(k) == <<k \div MonthsInYear, (k % MonthsInYear) + 1>>

NumberOf(day) == day \div DaysInMonth

\* Quotient and remainder ...
LEMMA Division ==
  ASSUME NEW a \in Int, NEW b \in Nat \ {0}
  PROVE  /\ a \div b \in Int /\ a % b \in Int
         /\ a = b * (a \div b) + (a % b)
         /\ 0 <= a % b /\ a % b < b
  OBVIOUS

\* ... are the only ones.
LEMMA DivisionIsUnique ==
  ASSUME NEW a \in Int, NEW b \in Nat \ {0}, NEW x \in Int, NEW y \in Int,
         a = b * x + y, 0 <= y, y < b
  PROVE  a \div b = x /\ a % b = y
  <1> DEFINE q == a \div b
             r == a % b
  <1>1. q \in Int /\ r \in Int /\ a = b * q + r /\ 0 <= r /\ r < b BY Division
  <1> HIDE DEF q, r
  <1>2. b * (x - q) = r - y BY <1>1
  <1>3. ~(x - q >= 1)
    <2> SUFFICES ASSUME x - q >= 1 PROVE FALSE OBVIOUS
    <2>1. b * (x - q) >= b BY <1>1
    <2>2. QED BY <1>1, <1>2, <2>1
  <1>4. ~(x - q <= -1)
    <2> SUFFICES ASSUME x - q <= -1 PROVE FALSE OBVIOUS
    <2>1. b * (x - q) <= 0 - b BY <1>1
    <2>2. QED BY <1>1, <1>2, <2>1
  <1>5. x = q BY <1>1, <1>3, <1>4
  <1>6. y = r BY <1>1, <1>5
  <1>7. QED BY <1>5, <1>6 DEF q, r

\* A day of month number k is one of its DaysInMonth.
LEMMA NumberIsMonth ==
  ASSUME NEW day \in Int, NEW k \in Int
  PROVE  /\ NumberOf(day) \in Int
         /\ NumberOf(day) >= k <=> day >= k * DaysInMonth
  <1> DEFINE q == day \div DaysInMonth
             r == day % DaysInMonth
  <1>1. DaysInMonth \in Nat \ {0} BY CalendarAssumption
  <1>2. q \in Int /\ r \in Int /\ day = DaysInMonth * q + r /\ 0 <= r /\ r < DaysInMonth
    BY <1>1, Division
  <1> HIDE DEF q, r
  <1>3. ASSUME q >= k
        PROVE  day >= k * DaysInMonth
    <2>1. DaysInMonth * q >= DaysInMonth * k BY <1>1, <1>2, <1>3
    <2>2. QED BY <1>1, <1>2, <2>1
  <1>4. ASSUME q < k
        PROVE  day < k * DaysInMonth
    <2>1. k >= q + 1 BY <1>2, <1>4
    <2>2. DaysInMonth * k >= DaysInMonth * (q + 1) BY <1>1, <1>2, <2>1
    <2>3. DaysInMonth * (q + 1) = DaysInMonth * q + DaysInMonth BY <1>1, <1>2
    <2>4. QED BY <1>1, <1>2, <2>2, <2>3
  <1>5. NumberOf(day) = q BY DEF NumberOf, q
  <1>6. k * DaysInMonth \in Int BY <1>1
  <1>7. QED BY <1>2, <1>3, <1>4, <1>5, <1>6

\* The month of a day is the one with its number.
LEMMA MonthOfDay ==
  ASSUME NEW day \in Int
  PROVE  MonthOf(day) = Month(NumberOf(day))
  <1> DEFINE q == day \div DaysInMonth
             r == day % DaysInMonth
             y == q \div MonthsInYear
             m == q % MonthsInYear
  <1>1. DaysInMonth \in Nat \ {0} /\ MonthsInYear \in Nat \ {0} BY CalendarAssumption
  <1>2. q \in Int /\ r \in Int /\ day = DaysInMonth * q + r /\ 0 <= r /\ r < DaysInMonth
    BY <1>1, Division
  <1> HIDE DEF q, r
  <1>3. y \in Int /\ m \in Int /\ q = MonthsInYear * y + m /\ 0 <= m /\ m < MonthsInYear
    BY <1>1, <1>2, Division
  <1> HIDE DEF y, m
  <1>4. DaysInMonth * MonthsInYear \in Nat \ {0} BY <1>1
  <1>5. day = (DaysInMonth * MonthsInYear) * y + (DaysInMonth * m + r)
    <2>1. day = DaysInMonth * (MonthsInYear * y + m) + r BY <1>2, <1>3
    <2>2. DaysInMonth * (MonthsInYear * y + m) = (DaysInMonth * MonthsInYear) * y + DaysInMonth * m
      BY <1>1, <1>3
    <2>3. DaysInMonth * m \in Int /\ (DaysInMonth * MonthsInYear) * y \in Int BY <1>1, <1>3
    <2>4. QED BY <1>2, <2>1, <2>2, <2>3
  <1>6. DaysInMonth * m + r \in Int /\ 0 <= DaysInMonth * m + r
    BY <1>1, <1>2, <1>3
  <1>7. DaysInMonth * m + r < DaysInMonth * MonthsInYear
    <2>1. DaysInMonth * (m + 1) <= DaysInMonth * MonthsInYear BY <1>1, <1>3
    <2>2. DaysInMonth * (m + 1) = DaysInMonth * m + DaysInMonth BY <1>1, <1>3
    <2>3. QED BY <1>1, <1>2, <1>3, <2>1, <2>2
  <1>8. day \div (DaysInMonth * MonthsInYear) = y
    BY <1>3, <1>4, <1>5, <1>6, <1>7, DivisionIsUnique
  <1>9. QED BY <1>8 DEF MonthOf, Month, NumberOf, q, y

\* Every month has one number.
LEMMA MonthHasNumber ==
  ASSUME NEW j \in Int, NEW k \in Int, Month(j) = Month(k)
  PROVE  j = k
  <1>1. MonthsInYear \in Nat \ {0} BY CalendarAssumption
  <1>2. j \div MonthsInYear = k \div MonthsInYear /\ (j % MonthsInYear) + 1 = (k % MonthsInYear) + 1
    BY DEF Month
  <1>3. j % MonthsInYear = k % MonthsInYear
    <2>1. j % MonthsInYear \in Int /\ k % MonthsInYear \in Int BY <1>1, Division
    <2>2. QED BY <1>2, <2>1
  <1>4. /\ j = MonthsInYear * (j \div MonthsInYear) + (j % MonthsInYear)
        /\ k = MonthsInYear * (k \div MonthsInYear) + (k % MonthsInYear)
    BY <1>1, Division
  <1>5. QED BY <1>2, <1>3, <1>4

\* The first day of a month.
LEMMA FirstOfMonth ==
  ASSUME NEW k \in Int
  PROVE  FirstOf(Month(k)) = k * DaysInMonth
  <1> DEFINE y == k \div MonthsInYear
             m == k % MonthsInYear
  <1>1. MonthsInYear \in Nat \ {0} BY CalendarAssumption
  <1>2. y \in Int /\ m \in Int /\ k = MonthsInYear * y + m BY <1>1, Division
  <1> HIDE DEF y, m
  <1>3. Month(k) = <<y, m + 1>> BY DEF Month, y, m
  <1>4. FirstOf(Month(k)) = (y * MonthsInYear + (m + 1) - 1) * DaysInMonth
    BY <1>3 DEF FirstOf
  <1>5. y * MonthsInYear + (m + 1) - 1 = k BY <1>1, <1>2
  <1>6. QED BY <1>4, <1>5

\* The month before is the one with the number before, at the turn of the year too.
LEMMA MonthBefore ==
  ASSUME NEW k \in Int
  PROVE  PreviousMonth(Month(k)) = Month(k - 1)
  <1> DEFINE y == k \div MonthsInYear
             m == k % MonthsInYear
  <1>1. MonthsInYear \in Nat \ {0} BY CalendarAssumption
  <1>2. y \in Int /\ m \in Int /\ k = MonthsInYear * y + m /\ 0 <= m /\ m < MonthsInYear
    BY <1>1, Division
  <1> HIDE DEF y, m
  <1>3. Month(k) = <<y, m + 1>> BY DEF Month, y, m
  <1>4. CASE m = 0
    <2>1. k - 1 = MonthsInYear * (y - 1) + (MonthsInYear - 1)
      <3>1. MonthsInYear * (y - 1) = MonthsInYear * y - MonthsInYear BY <1>1, <1>2
      <3>2. MonthsInYear * y \in Int BY <1>1, <1>2
      <3>3. QED BY <1>1, <1>2, <1>4, <3>1, <3>2
    <2>2. /\ k - 1 \in Int /\ y - 1 \in Int /\ MonthsInYear - 1 \in Int
          /\ 0 <= MonthsInYear - 1 /\ MonthsInYear - 1 < MonthsInYear
      BY <1>1, <1>2
    <2>3. (k - 1) \div MonthsInYear = y - 1 /\ (k - 1) % MonthsInYear = MonthsInYear - 1
      BY <1>1, <2>1, <2>2, DivisionIsUnique
    <2>4. Month(k - 1) = <<y - 1, MonthsInYear>> BY <1>1, <2>3 DEF Month
    <2>5. PreviousMonth(Month(k)) = <<y - 1, MonthsInYear>> BY <1>3, <1>4 DEF PreviousMonth
    <2>6. QED BY <2>4, <2>5
  <1>5. CASE m # 0
    <2>1. k - 1 = MonthsInYear * y + (m - 1)
      <3>1. MonthsInYear * y \in Int BY <1>1, <1>2
      <3>2. QED BY <1>2, <3>1
    <2>2. k - 1 \in Int /\ m - 1 \in Int /\ 0 <= m - 1 /\ m - 1 < MonthsInYear
      BY <1>1, <1>2, <1>5
    <2>3. (k - 1) \div MonthsInYear = y /\ (k - 1) % MonthsInYear = m - 1
      BY <1>1, <1>2, <2>1, <2>2, DivisionIsUnique
    <2>4. Month(k - 1) = <<y, m>> BY <1>2, <2>3 DEF Month
    <2>5. PreviousMonth(Month(k)) = <<y, m>>
      <3>1. m + 1 # 1 /\ (m + 1) - 1 = m BY <1>2, <1>5
      <3>2. QED BY <1>3, <3>1 DEF PreviousMonth
    <2>6. QED BY <2>4, <2>5
  <1>6. QED BY <1>4, <1>5

\* The function that MonthsBack chooses.
GoesBack(n, b) ==
  b = [i \in 0..n - 1 |-> IF i = 0 THEN MonthOf(today) ELSE PreviousMonth(b[i - 1])]

\* Going back month by month counts down.
LEMMA MonthsBackCountDown ==
  ASSUME PTypeOK, NEW n \in Nat
  PROVE  \A i \in 0..n - 1 : MonthsBack(n)[i] = Month(NumberOf(today) - i)
  <1> DEFINE q == NumberOf(today)
             g == [i \in 0..n - 1 |-> Month(q - i)]
             B == MonthsBack(n)
  <1>1. today \in Int /\ q \in Int /\ MonthOf(today) = Month(q)
    BY EntryFields, NumberIsMonth, MonthOfDay
  <1> HIDE DEF q
  <1>2. \A i \in 0..n - 1 : i # 0 => Month(q - i) = PreviousMonth(g[i - 1])
    <2> SUFFICES ASSUME NEW i \in 0..n - 1, i # 0
                 PROVE  Month(q - i) = PreviousMonth(g[i - 1])
      OBVIOUS
    <2>1. i - 1 \in 0..n - 1 /\ q - (i - 1) \in Int /\ (q - (i - 1)) - 1 = q - i BY <1>1
    <2>2. PreviousMonth(Month(q - (i - 1))) = Month((q - (i - 1)) - 1) BY <2>1, MonthBefore
    <2>3. QED BY <2>1, <2>2
  <1>3. GoesBack(n, g)
    <2>1. q - 0 = q BY <1>1
    <2>2. \A i \in 0..n - 1 :
            Month(q - i) = IF i = 0 THEN MonthOf(today) ELSE PreviousMonth(g[i - 1])
      BY <1>1, <1>2, <2>1
    <2>3. g = [i \in 0..n - 1 |-> Month(q - i)] OBVIOUS
    <2> HIDE DEF g
    <2>4. QED BY <2>2, <2>3 DEF GoesBack
  <1>4. B = CHOOSE b : GoesBack(n, b) BY Zenon DEF MonthsBack, GoesBack
  <1>5. GoesBack(n, B)
    <2> HIDE DEF B, g
    <2> QED BY <1>3, <1>4
  <1> HIDE DEF B
  <1>6. \A i \in 0..n - 1 : B[i] = IF i = 0 THEN MonthOf(today) ELSE PreviousMonth(B[i - 1])
    BY <1>5 DEF GoesBack
  <1> DEFINE Bad == {i \in 0..n - 1 : B[i] # Month(q - i)}
  <1>7. ASSUME Bad # {}
        PROVE  FALSE
    <2>1. Bad \in SUBSET Nat OBVIOUS
    <2>2. PICK i \in Bad : \A k \in Bad : i <= k
      <3> HIDE DEF Bad
      <3> QED BY <1>7, <2>1, LeastNat
    <2>3. i \in 0..n - 1 /\ B[i] # Month(q - i) OBVIOUS
    <2>4. CASE i = 0
      <3>1. q - i = q BY <1>1, <2>4
      <3>2. QED BY <1>1, <1>6, <2>3, <2>4, <3>1
    <2>5. CASE i # 0
      <3>1. i - 1 \in 0..n - 1 /\ ~(i <= i - 1) BY <2>3, <2>5
      <3>2. B[i - 1] = Month(q - (i - 1)) BY <2>2, <3>1
      <3>3. B[i] = PreviousMonth(B[i - 1]) BY <1>6, <2>3, <2>5
      <3>4. g[i - 1] = Month(q - (i - 1)) BY <3>1
      <3>5. QED BY <1>2, <2>3, <2>5, <3>2, <3>3, <3>4
    <2>6. QED BY <2>4, <2>5
  <1>8. QED BY <1>7 DEF B, q

\* The first day of the earliest of n months.
LEMMA StartOfMonths ==
  ASSUME PTypeOK, NEW n \in Nat \ {0}
  PROVE  StartFloor(n) = (NumberOf(today) - (n - 1)) * DaysInMonth
  <1>1. NumberOf(today) \in Int BY EntryFields, NumberIsMonth
  <1>2. n - 1 \in 0..n - 1 OBVIOUS
  <1>3. MonthsBack(n)[n - 1] = Month(NumberOf(today) - (n - 1)) BY <1>2, MonthsBackCountDown
  <1>4. QED BY <1>1, <1>3, FirstOfMonth DEF StartFloor

\* The day of an entry lies within n months if it is not before their first day,
\* and then its month is one of them.
LEMMA WithinMonths ==
  ASSUME PTypeOK, NEW n \in Nat \ {0}, NEW e \in DOMAIN entry
  PROVE  /\ NumberOf(entry[e].day) \in Int /\ NumberOf(today) \in Int
         /\ NumberOf(entry[e].day) <= NumberOf(today)
         /\ entry[e].day >= StartFloor(n) <=> NumberOf(today) - NumberOf(entry[e].day) < n
         /\ entry[e].day >= StartFloor(n) => MonthOf(entry[e].day) \in MonthKeys(n)
  <1> DEFINE q == NumberOf(today)
             k == NumberOf(entry[e].day)
  <1>1. entry[e].day \in Int /\ today \in Int /\ entry[e].day <= today BY EntryFields
  <1>2. q \in Int /\ k \in Int BY <1>1, NumberIsMonth
  <1>3. k <= q
    <2>1. entry[e].day >= k * DaysInMonth BY <1>1, <1>2, NumberIsMonth
    <2>2. k * DaysInMonth \in Int BY <1>2, CalendarAssumption
    <2>3. today >= k * DaysInMonth BY <1>1, <2>1, <2>2
    <2>4. QED BY <1>1, <1>2, <2>3, NumberIsMonth
  <1>4. entry[e].day >= StartFloor(n) <=> k >= q - (n - 1)
    <2>1. q - (n - 1) \in Int BY <1>2
    <2>2. k >= q - (n - 1) <=> entry[e].day >= (q - (n - 1)) * DaysInMonth
      BY <1>1, <2>1, NumberIsMonth
    <2>3. QED BY <2>2, StartOfMonths
  <1>5. ASSUME k >= q - (n - 1)
        PROVE  MonthOf(entry[e].day) \in MonthKeys(n)
    <2>1. q - k \in 0..n - 1 /\ q - (q - k) = k BY <1>2, <1>3, <1>5
    <2>2. MonthsBack(n)[q - k] = Month(q - (q - k)) BY <2>1, MonthsBackCountDown
    <2>3. MonthOf(entry[e].day) = Month(k) BY <1>1, MonthOfDay
    <2>4. MonthsBack(n)[q - k] = MonthOf(entry[e].day)
      <3> HIDE DEF q, k
      <3> QED BY <2>1, <2>2, <2>3
    <2> HIDE DEF q, k
    <2>5. QED BY <2>1, <2>4 DEF MonthKeys
  <1> HIDE DEF q, k
  <1>6. k >= q - (n - 1) <=> q - k < n BY <1>2
  <1>7. QED BY <1>2, <1>3, <1>4, <1>5, <1>6 DEF q, k

-----------------------------------------------------------------------------
(* What the pages add up. *)

LitresColumn == [e \in DOMAIN entry |-> entry[e].litres]

CostColumn == [e \in DOMAIN entry |-> entry[e].cost]

\* The sums of a page are sums over a column of the table.
LEMMA SumsOfColumns ==
  ASSUME PTypeOK, NEW es \in SUBSET DOMAIN entry
  PROVE  /\ IsFiniteSet(es)
         /\ Litres(es) = Total(LitresColumn, es)
         /\ Cost(es) = Total(CostColumn, es)
  <1> DEFINE f == [e \in es |-> entry[e].litres]
             g == [e \in es |-> entry[e].cost]
  <1>1. IsFiniteSet(es) BY EntryFields, FS_Subset
  <1>2. \A e \in es : f[e] = LitresColumn[e] BY DEF LitresColumn
  <1>3. \A e \in es : g[e] = CostColumn[e] BY DEF CostColumn
  <1>4. DOMAIN f = es /\ DOMAIN g = es OBVIOUS
  <1>5. Litres(es) = SumFunction(f) /\ Cost(es) = SumFunction(g) BY DEF Litres, Cost
  <1> HIDE DEF f, g
  <1>6. Total(f, es) = Total(LitresColumn, es) BY <1>1, <1>2, TotalAgrees
  <1>7. Total(g, es) = Total(CostColumn, es) BY <1>1, <1>3, TotalAgrees
  <1>8. QED BY <1>1, <1>4, <1>5, <1>6, <1>7, SumIsTotal

LEMMA ColumnsAreInts ==
  PTypeOK => \A e \in DOMAIN entry : LitresColumn[e] \in Int /\ CostColumn[e] \in Int
  BY EntryFields DEF LitresColumn, CostColumn

\* Rows that share no entry add up to the sum of all their entries.
LEMMA RowsAddUp ==
  ASSUME PTypeOK, NEW K, IsFiniteSet(K), NEW R, NEW es \in SUBSET DOMAIN entry,
         UNION {R[k] : k \in K} = es, \A k, l \in K : k # l => R[k] \cap R[l] = {}
  PROVE  SumFunction([k \in K |-> Litres(R[k])]) = Litres(es)
  <1> DEFINE g == [k \in K |-> Litres(R[k])]
  <1>1. \A k \in K : g[k] = Total(LitresColumn, R[k])
    <2> SUFFICES ASSUME NEW k \in K PROVE Litres(R[k]) = Total(LitresColumn, R[k]) OBVIOUS
    <2>1. R[k] \in SUBSET DOMAIN entry OBVIOUS
    <2>2. QED BY <2>1, SumsOfColumns
  <1>2. IsFiniteSet(UNION {R[k] : k \in K}) BY SumsOfColumns
  <1>3. \A x \in UNION {R[k] : k \in K} : LitresColumn[x] \in Int BY ColumnsAreInts
  <1>4. SumFunction(g) = Total(g, K) BY SumIsTotal
  <1> HIDE DEF g
  <1>5. Total(g, K) = Total(LitresColumn, UNION {R[k] : k \in K})
    BY <1>1, <1>2, <1>3, TotalOfTotals
  <1>6. SumFunction(g) = Litres(es) BY <1>4, <1>5, SumsOfColumns
  <1>7. QED BY <1>6 DEF g

\* The entries of the last year, by the number of their months.
LastYear == {e \in ActiveEntries : NumberOf(today) - NumberOf(entry[e].day) < MonthsInYear}

LEMMA MonthKeysFinite == \A n \in Nat : IsFiniteSet(MonthKeys(n))
  <1> SUFFICES ASSUME NEW n \in Nat PROVE IsFiniteSet(MonthKeys(n)) OBVIOUS
  <1> DEFINE f == [i \in 0..n - 1 |-> MonthsBack(n)[i]]
  <1>1. f \in Surjection(0..n - 1, MonthKeys(n)) BY DEF Surjection, MonthKeys
  <1>2. IsFiniteSet(0..n - 1) BY FS_Interval
  <1> HIDE DEF f
  <1>3. QED BY <1>1, <1>2, FS_Surjection

LEMMA YearAdds == PTypeOK => YearAddsUp
  <1> SUFFICES ASSUME PTypeOK
               PROVE  /\ SumFunction([key \in MonthKeys(MonthsInYear) |->
                                        Litres(SummaryRow(key))]) = Litres(LastYear)
                      /\ SumFunction([v \in Vehicles |-> Litres(VehicleRow(v))]) = Litres(LastYear)
    BY DEF YearAddsUp, LastYear, NumberOf
  <1>1. MonthsInYear \in Nat \ {0} BY CalendarAssumption
  <1>2. ActiveEntries \subseteq DOMAIN entry /\ LastYear \in SUBSET DOMAIN entry
    BY DEF ActiveEntries, LastYear
  <1>3. \A e \in ActiveEntries :
          /\ e \in LastYear <=> entry[e].day >= StartFloor(MonthsInYear)
          /\ e \in LastYear => MonthOf(entry[e].day) \in MonthKeys(MonthsInYear)
    BY <1>1, <1>2, WithinMonths DEF LastYear
  <1>4. SumFunction([key \in MonthKeys(MonthsInYear) |-> Litres(SummaryRow(key))]) = Litres(LastYear)
    <2> DEFINE K == MonthKeys(MonthsInYear)
               R == [key \in K |-> SummaryRow(key)]
    <2>1. IsFiniteSet(K) BY <1>1, MonthKeysFinite
    <2>2. \A key \in K : R[key] = {e \in LastYear : MonthOf(entry[e].day) = key}
      BY <1>3 DEF SummaryRow, LastYear
    <2>3. UNION {R[key] : key \in K} = LastYear
      <3> HIDE DEF R, K
      <3>1. \A e \in LastYear : MonthOf(entry[e].day) \in K BY <1>3 DEF LastYear, K
      <3>2. QED BY <2>2, <3>1
    <2>4. \A j, k \in K : j # k => R[j] \cap R[k] = {} BY <2>2
    <2>5. [key \in K |-> Litres(R[key])] = [key \in K |-> Litres(SummaryRow(key))] OBVIOUS
    <2> HIDE DEF K, R
    <2>6. SumFunction([key \in K |-> Litres(R[key])]) = Litres(LastYear)
      BY <1>2, <2>1, <2>3, <2>4, RowsAddUp
    <2>7. QED BY <2>5, <2>6 DEF K
  <1>5. SumFunction([v \in Vehicles |-> Litres(VehicleRow(v))]) = Litres(LastYear)
    <2> DEFINE R == [v \in Vehicles |-> VehicleRow(v)]
    <2>1. IsFiniteSet(Vehicles) BY InstanceAssumption
    <2>2. \A v \in Vehicles : R[v] = {e \in LastYear : entry[e].vehicle = v}
      BY <1>3 DEF VehicleRow, EntriesOf, LastYear
    <2>3. UNION {R[v] : v \in Vehicles} = LastYear
      <3> HIDE DEF R
      <3>1. \A e \in LastYear : entry[e].vehicle \in Vehicles BY <1>2, EntryFields
      <3>2. QED BY <2>2, <3>1
    <2>4. \A u, v \in Vehicles : u # v => R[u] \cap R[v] = {} BY <2>2
    <2>5. [v \in Vehicles |-> Litres(R[v])] = [v \in Vehicles |-> Litres(VehicleRow(v))] OBVIOUS
    <2> HIDE DEF R
    <2>6. SumFunction([v \in Vehicles |-> Litres(R[v])]) = Litres(LastYear)
      BY <1>2, <2>1, <2>3, <2>4, RowsAddUp
    <2>7. QED BY <2>5, <2>6
  <1>6. QED BY <1>4, <1>5

\* The range the dashboard fetches reaches back to all it shows.
LEMMA RangeReaches ==
  ASSUME PTypeOK
  PROVE  \A e \in ActiveEntries :
           (\/ entry[e].day >= StartFloor(CostMonths)
            \/ entry[e].day >= FirstOf(MonthOf(today)))
           => e \in RangedEntries
  <1> SUFFICES ASSUME NEW e \in ActiveEntries,
                      \/ entry[e].day >= StartFloor(CostMonths)
                      \/ entry[e].day >= FirstOf(MonthOf(today))
               PROVE  e \in RangedEntries
    OBVIOUS
  <1> DEFINE a == FirstOf(MonthOf(today))
             b == today - (WindowDays - 1)
             c == StartFloor(CostMonths)
  <1>1. entry[e].day \in Int /\ today \in Int /\ entry[e].day <= today
    BY EntryFields DEF ActiveEntries
  <1>2. a \in Int
    <2>1. NumberOf(today) \in Int BY <1>1, NumberIsMonth
    <2>2. a = NumberOf(today) * DaysInMonth BY <1>1, <2>1, MonthOfDay, FirstOfMonth
    <2> HIDE DEF a
    <2>3. QED BY <2>1, <2>2, CalendarAssumption
  <1>3. b \in Int BY <1>1, CalendarAssumption
  <1>4. c \in Int
    <2>1. CostMonths \in Nat \ {0} /\ DaysInMonth \in Int BY CalendarAssumption
    <2>2. NumberOf(today) - (CostMonths - 1) \in Int BY <1>1, <2>1, NumberIsMonth
    <2>3. c = (NumberOf(today) - (CostMonths - 1)) * DaysInMonth BY <2>1, StartOfMonths
    <2> HIDE DEF c
    <2>4. QED BY <2>1, <2>2, <2>3
  <1>5. RangeStart = SmallerOf(a, SmallerOf(b, c)) BY DEF RangeStart
  <1>6. entry[e].day >= a \/ entry[e].day >= c OBVIOUS
  <1> HIDE DEF a, b, c
  <1>7. entry[e].day >= RangeStart BY <1>1, <1>2, <1>3, <1>4, <1>5, <1>6 DEF SmallerOf
  <1>8. QED BY <1>1, <1>7 DEF RangedEntries

\* A key of the last n months is the month of an entry only if the entry lies
\* within them.
LEMMA KeyIsWithin ==
  ASSUME PTypeOK, NEW n \in Nat \ {0}, NEW e \in DOMAIN entry,
         MonthOf(entry[e].day) \in MonthKeys(n)
  PROVE  NumberOf(today) - NumberOf(entry[e].day) < n
  <1> DEFINE q == NumberOf(today)
             k == NumberOf(entry[e].day)
  <1>1. k \in Int /\ q \in Int BY WithinMonths
  <1>2. MonthOf(entry[e].day) = Month(k) BY EntryFields, MonthOfDay
  <1>3. PICK i \in 0..n - 1 : MonthOf(entry[e].day) = MonthsBack(n)[i] BY DEF MonthKeys
  <1>4. MonthsBack(n)[i] = Month(q - i) BY MonthsBackCountDown
  <1> HIDE DEF q, k
  <1>5. k = q - i
    <2>1. q - i \in Int BY <1>1
    <2>2. Month(k) = Month(q - i) BY <1>2, <1>3, <1>4 DEF q, k
    <2>3. QED BY <1>1, <2>1, <2>2, MonthHasNumber
  <1>6. q - k < n BY <1>1, <1>5
  <1>7. QED BY <1>6 DEF q, k

LEMMA BarsAreRows == PTypeOK => DashboardFollowsSummary
  <1> SUFFICES ASSUME PTypeOK PROVE DashboardFollowsSummary OBVIOUS
  <1>1. MonthsInYear \in Nat \ {0} /\ CostMonths \in Nat \ {0} /\ CostMonths <= MonthsInYear
    BY CalendarAssumption
  <1>2. ActiveEntries \subseteq DOMAIN entry BY DEF ActiveEntries
  <1>3. \A e \in ActiveEntries :
          MonthOf(entry[e].day) \in MonthKeys(CostMonths) =>
            /\ entry[e].day >= StartFloor(CostMonths)
            /\ entry[e].day >= StartFloor(MonthsInYear)
    <2> SUFFICES ASSUME NEW e \in ActiveEntries,
                        MonthOf(entry[e].day) \in MonthKeys(CostMonths)
                 PROVE  /\ entry[e].day >= StartFloor(CostMonths)
                        /\ entry[e].day >= StartFloor(MonthsInYear)
      OBVIOUS
    <2>1. NumberOf(today) - NumberOf(entry[e].day) < CostMonths BY <1>1, <1>2, KeyIsWithin
    <2>2. NumberOf(today) \in Int /\ NumberOf(entry[e].day) \in Int BY <1>1, <1>2, WithinMonths
    <2>3. NumberOf(today) - NumberOf(entry[e].day) < MonthsInYear BY <1>1, <2>1, <2>2
    <2>4. QED BY <1>1, <1>2, <2>1, <2>3, WithinMonths
  <1>4. \A key \in MonthKeys(CostMonths) : CostBar(key) = SummaryRow(key)
    BY <1>3, RangeReaches DEF CostBar, SummaryRow, RangedEntries
  <1>5. CostBar(MonthOf(today)) = MonthEntries
    <2>1. \A e \in ActiveEntries :
            entry[e].day >= StartFloor(CostMonths) /\ MonthOf(entry[e].day) = MonthOf(today)
              <=> entry[e].day >= FirstOf(MonthOf(today))
      <3> SUFFICES ASSUME NEW e \in ActiveEntries
                   PROVE  entry[e].day >= StartFloor(CostMonths)
                            /\ MonthOf(entry[e].day) = MonthOf(today)
                          <=> entry[e].day >= FirstOf(MonthOf(today))
        OBVIOUS
      <3> DEFINE q == NumberOf(today)
                 k == NumberOf(entry[e].day)
      <3>1. /\ k \in Int /\ q \in Int /\ k <= q
            /\ entry[e].day >= StartFloor(CostMonths) <=> q - k < CostMonths
        BY <1>1, <1>2, WithinMonths
      <3>2. entry[e].day \in Int /\ today \in Int BY <1>2, EntryFields
      <3>3. MonthOf(entry[e].day) = Month(k) /\ MonthOf(today) = Month(q) BY <3>2, MonthOfDay
      <3>4. entry[e].day >= q * DaysInMonth <=> k >= q BY <3>1, <3>2, NumberIsMonth
      <3>5. FirstOf(MonthOf(today)) = q * DaysInMonth BY <3>1, <3>3, FirstOfMonth
      <3> HIDE DEF q, k
      <3>6. MonthOf(entry[e].day) = MonthOf(today) <=> k = q BY <3>1, <3>3, MonthHasNumber
      <3>7. QED BY <1>1, <3>1, <3>4, <3>5, <3>6
    <2>2. QED BY <2>1 DEF CostBar, MonthEntries, RangedEntries
  <1>6. QED BY <1>4, <1>5 DEF DashboardFollowsSummary

\* Two windows side by side.
LEMMA WindowsAdd == PTypeOK => WindowsMeet
  <1> SUFFICES ASSUME PTypeOK PROVE WindowsMeet OBVIOUS
  <1> DEFINE both == Between(today - 2 * WindowDays + 1, today)
             Cur == CurrentWindow
             Prev == PreviousWindow
  <1>1. WindowDays \in Nat \ {0} /\ today \in Int BY CalendarAssumption, EntryFields
  <1>2. \A e \in ActiveEntries : entry[e].day \in Int BY EntryFields DEF ActiveEntries
  <1>3. Cur \cup Prev = both /\ Cur \cap Prev = {}
    BY <1>1, <1>2 DEF Between, CurrentWindow, PreviousWindow, CurrentStart, PreviousEnd, PreviousStart
  <1>4. Cur \in SUBSET DOMAIN entry /\ Prev \in SUBSET DOMAIN entry /\ both \in SUBSET DOMAIN entry
    BY DEF CurrentWindow, PreviousWindow, Between, ActiveEntries
  <1> HIDE DEF both, Cur, Prev
  <1>5. Cost(Cur) + Cost(Prev) = Cost(both)
    <2>1. IsFiniteSet(Cur) /\ IsFiniteSet(Prev) BY <1>4, SumsOfColumns
    <2>2. \A e \in Cur \cup Prev : CostColumn[e] \in Int BY <1>4, ColumnsAreInts
    <2>3. Total(CostColumn, Cur \cup Prev) = Total(CostColumn, Cur) + Total(CostColumn, Prev)
      BY <1>3, <2>1, <2>2, TotalUnion
    <2>4. QED BY <1>3, <1>4, <2>3, SumsOfColumns
  <1>6. MeanOf(Cur).n + MeanOf(Prev).n = MeanOf(both).n
    <2>1. Valued(Cur) \cup Valued(Prev) = Valued(both) /\ Valued(Cur) \cap Valued(Prev) = {}
      BY <1>3 DEF Valued
    <2>2. IsFiniteSet(Valued(Cur)) /\ IsFiniteSet(Valued(Prev))
      <3>1. Valued(Cur) \in SUBSET DOMAIN entry /\ Valued(Prev) \in SUBSET DOMAIN entry
        BY <1>4 DEF Valued
      <3>2. QED BY <3>1, SumsOfColumns
    <2>3. Cardinality(Valued(both)) = Cardinality(Valued(Cur)) + Cardinality(Valued(Prev)) - Cardinality({})
      BY <2>1, <2>2, FS_Union
    <2>4. Cardinality({}) = 0 BY FS_EmptySet
    <2>5. Cardinality(Valued(Cur)) \in Nat /\ Cardinality(Valued(Prev)) \in Nat
      BY <2>2, FS_CardinalityType
    <2>6. QED BY <2>3, <2>4, <2>5 DEF MeanOf
  <1>7. ChartDays # {} <=> MeanOf(Cur).n > 0
    <2>1. Valued(Cur) \in SUBSET DOMAIN entry BY <1>4 DEF Valued
    <2>2. IsFiniteSet(Valued(Cur)) BY <2>1, SumsOfColumns
    <2>3. Cardinality(Valued(Cur)) \in Nat /\ (Cardinality(Valued(Cur)) = 0 <=> Valued(Cur) = {})
      BY <2>2, FS_CardinalityType, FS_EmptySet
    <2>4. ChartDays # {} <=> Valued(Cur) # {} BY DEF ChartDays, Cur
    <2>5. QED BY <2>3, <2>4 DEF MeanOf
  <1>8. QED BY <1>5, <1>6, <1>7 DEF WindowsMeet, both, Cur, Prev

-----------------------------------------------------------------------------
(* The theorems. *)

\* The inductive invariant: the table is well-typed, and so is what may be entered.
THEOREM PInvariance == PSpec => [](PTypeOK /\ FormsAreRows)
  <1>1. PInit => PTypeOK /\ FormsAreRows BY PInitInv, PInitForms
  <1>2. PTypeOK /\ FormsAreRows /\ [PNext]_pvars => (PTypeOK /\ FormsAreRows)' BY PStepInv
  <1>3. QED BY <1>1, <1>2, PTL DEF PSpec

\* average_consumption_for_vehicle gives the summary and the analytics page one
\* average however each of them sorts, and, where readings rise with dates, the
\* mean of what the dashboard shows for the single fills.
THEOREM AveragesAlwaysAgree == PSpec => []AveragesAgree
  <1>1. QED BY PagesAgree, PInvariance, PTL

\* Each way between two full fills enters the average once, with the litres that
\* filled the tank at its end.
THEOREM WaysAlwaysCountOnce == PSpec => []EveryWayCountsOnce
  <1>1. QED BY WaysCountOnce, PInvariance, PTL

\* For every length of months, years and windows the pages count an entry once:
\* get_summary_context, get_analytics_context, get_dashboard_context, and the
\* trends.
THEOREM PagesAlwaysAddUp == PSpec => []PagesCountOnce
  <1>1. PTypeOK => PagesCountOnce BY YearAdds, BarsAreRows, WindowsAdd DEF PagesCountOnce
  <1>2. QED BY <1>1, PInvariance, PTL

=============================================================================
