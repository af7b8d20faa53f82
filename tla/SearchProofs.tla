---------------------------- MODULE SearchProofs ----------------------------
(***************************************************************************)
(* Proofs about GeneticSearch, for all layouts of boreholes and stations,  *)
(* fitness formulas, gene limits, population sizes and limits of the       *)
(* search.                                                                 *)
(***************************************************************************)
EXTENDS GeneticSearch, TLAPS, FiniteSetTheorems, SequenceTheorems

USE SearchAssumption

-----------------------------------------------------------------------------
(* Stations and their indices.                                             *)

(* A set of natural numbers that is not empty has a least one.             *)
LEMMA LeastExists ==
  ASSUME NEW S \in SUBSET Nat, S # {}
  PROVE  \E n \in S : \A m \in S : n <= m
<1> DEFINE R == OpToRel(<, Nat)
<1>1. IsWellFoundedOn(R, Nat)
  BY NatLessThanWellFounded
<1>2. \A m, n \in Nat : <<m, n>> \notin R => ~(m < n)
  BY DEF OpToRel
<1> HIDE DEF R
<1>3. PICK n \in S : \A m \in S : <<m, n>> \notin R
  BY <1>1, WFMin, Zenon
<1>4. \A m \in S : ~(m < n)
  BY <1>2, <1>3
<1>5. \A m \in S : n <= m
  BY <1>4
<1> QED BY <1>5

(* A layout is a finite numbering of boreholes.                            *)
LEMMA LayoutShape ==
  ASSUME NEW l \in Layouts
  PROVE  \E n \in Nat \ {0} : DOMAIN l = 1..n /\ l \in [1..n -> Nat]
<1>1. l \in Seq(Nat) /\ l # <<>>
  OBVIOUS
<1>2. Len(l) \in Nat /\ DOMAIN l = 1..Len(l) /\ l \in [1..Len(l) -> Nat]
  BY <1>1
<1>3. Len(l) # 0
  BY <1>1, <1>2
<1> QED BY <1>2, <1>3

(* The first borehole of a station is one of it, none before it is, and    *)
(* boreholes of one station have the same.                                 *)
LEMMA FirstIsFirst ==
  ASSUME NEW l \in Layouts, NEW b \in DOMAIN l
  PROVE  /\ First(l, b) \in DOMAIN l /\ First(l, b) <= b /\ 1 <= First(l, b)
         /\ l[First(l, b)] = l[b]
         /\ \A c \in 1..(First(l, b) - 1) : l[c] # l[b]
<1>1. PICK n \in Nat \ {0} : DOMAIN l = 1..n
  BY LayoutShape
<1> DEFINE S == {a \in 1..b : l[a] = l[b]}
<1>2. S \in SUBSET Nat /\ b \in S
  BY <1>1
<1>3. PICK a \in S : \A c \in S : a <= c
  BY <1>2, LeastExists
<1>4. a \in 1..b /\ l[a] = l[b] /\ \A c \in 1..(a - 1) : l[c] # l[a]
  BY <1>1, <1>3
<1>5. /\ First(l, b) \in 1..b /\ l[First(l, b)] = l[b]
      /\ \A c \in 1..(First(l, b) - 1) : l[c] # l[First(l, b)]
  <2> DEFINE P(x) == l[x] = l[b] /\ \A c \in 1..(x - 1) : l[c] # l[x]
  <2>1. First(l, b) = CHOOSE x \in 1..b : P(x)
    BY DEF First
  <2>2. \E x \in 1..b : P(x)
    BY <1>4
  <2> QED BY <2>1, <2>2
<1> QED BY <1>1, <1>5

(* Boreholes of one station have the same first borehole.                  *)
LEMMA SameFirst ==
  ASSUME NEW l \in Layouts, NEW b \in DOMAIN l, NEW c \in DOMAIN l, l[b] = l[c]
  PROVE  First(l, b) = First(l, c)
<1>1. PICK n \in Nat \ {0} : DOMAIN l = 1..n
  BY LayoutShape
<1> DEFINE f == First(l, b)
           g == First(l, c)
<1>2. /\ f \in Nat /\ 1 <= f /\ l[f] = l[b] /\ \A a \in 1..(f - 1) : l[a] # l[b]
      /\ g \in Nat /\ 1 <= g /\ l[g] = l[c] /\ \A a \in 1..(g - 1) : l[a] # l[c]
  <2>1. /\ f \in DOMAIN l /\ 1 <= f /\ l[f] = l[b]
        /\ \A a \in 1..(f - 1) : l[a] # l[b]
    BY FirstIsFirst, Zenon
  <2>2. /\ g \in DOMAIN l /\ 1 <= g /\ l[g] = l[c]
        /\ \A a \in 1..(g - 1) : l[a] # l[c]
    BY FirstIsFirst, Zenon
  <2> HIDE DEF f, g
  <2> QED BY <1>1, <2>1, <2>2
<1> HIDE DEF f, g
<1>3. ~(f < g) /\ ~(g < f)
  BY <1>2
<1>4. f = g
  BY <1>2, <1>3
<1> QED BY <1>4 DEF f, g

(* The stations among the first boreholes of a layout.                     *)
LEMMA StationsFinite ==
  ASSUME NEW l \in Layouts
  PROVE  IsFiniteSet(StationsIn(l)) /\ Cardinality(StationsIn(l)) \in Nat
<1>1. PICK n \in Nat \ {0} : DOMAIN l = 1..n /\ l \in [1..n -> Nat]
  BY LayoutShape
<1>2. l \in Surjection(1..n, StationsIn(l))
  BY <1>1 DEF Surjection, StationsIn
<1>3. IsFiniteSet(StationsIn(l))
  BY <1>2, FS_Interval, FS_Surjection
<1> QED BY <1>3, FS_CardinalityType

(* What a station's index counts.                                          *)
Before(l, b) == {l[a] : a \in 1..First(l, b)}

(* An index counts some of the stations, the borehole's own among them.    *)
LEMMA BeforeFinite ==
  ASSUME NEW l \in Layouts, NEW b \in DOMAIN l
  PROVE  /\ Before(l, b) \subseteq StationsIn(l) /\ l[b] \in Before(l, b)
         /\ IsFiniteSet(Before(l, b))
         /\ PumpStationIdx(l, b) = Cardinality(Before(l, b))
         /\ PumpStationIdx(l, b) \in 1..Cardinality(StationsIn(l))
<1>1. PICK n \in Nat \ {0} : DOMAIN l = 1..n
  BY LayoutShape
<1>2. First(l, b) \in 1..n /\ l[First(l, b)] = l[b] /\ First(l, b) \in 1..First(l, b)
  BY <1>1, FirstIsFirst
<1>3. Before(l, b) \subseteq StationsIn(l) /\ l[b] \in Before(l, b)
  BY <1>1, <1>2 DEF Before, StationsIn
<1>4. IsFiniteSet(Before(l, b)) /\ Cardinality(Before(l, b)) <= Cardinality(StationsIn(l))
  BY <1>3, StationsFinite, FS_Subset
<1>5. PumpStationIdx(l, b) = Cardinality(Before(l, b))
  BY DEF PumpStationIdx, Before
<1>6. Cardinality(Before(l, b)) \in Nat /\ Cardinality(Before(l, b)) # 0
  BY <1>3, <1>4, FS_CardinalityType, FS_EmptySet
<1>7. Cardinality(StationsIn(l)) \in Nat
  BY StationsFinite
<1> QED BY <1>3, <1>4, <1>5, <1>6, <1>7

(* Boreholes of one station have one index.                                *)
LEMMA OneIndexPerStation ==
  ASSUME NEW l \in Layouts, NEW b \in DOMAIN l, NEW c \in DOMAIN l, l[b] = l[c]
  PROVE  PumpStationIdx(l, b) = PumpStationIdx(l, c)
BY SameFirst DEF PumpStationIdx

(* A station whose first borehole comes later has a greater index.         *)
LEMMA LaterIsGreater ==
  ASSUME NEW l \in Layouts, NEW b \in DOMAIN l, NEW c \in DOMAIN l,
         First(l, b) < First(l, c)
  PROVE  PumpStationIdx(l, b) < PumpStationIdx(l, c)
<1>1. PICK n \in Nat \ {0} : DOMAIN l = 1..n
  BY LayoutShape
<1>2. /\ First(l, b) \in DOMAIN l /\ First(l, c) \in DOMAIN l
      /\ \A a \in 1..(First(l, c) - 1) : l[a] # l[c]
  BY FirstIsFirst, Zenon
<1>3. 1..First(l, b) \subseteq 1..(First(l, c) - 1)
  BY <1>1, <1>2
<1>4. l[c] \notin Before(l, b) /\ Before(l, b) \subseteq Before(l, c)
  <2>1. 1..(First(l, c) - 1) \subseteq 1..First(l, c)
    BY <1>1, <1>2
  <2> QED BY <1>2, <1>3, <2>1, Zenon DEF Before
<1>5. Before(l, b) # Before(l, c)
  BY <1>4, BeforeFinite
<1>6. /\ Cardinality(Before(l, b)) <= Cardinality(Before(l, c))
      /\ Cardinality(Before(l, b)) # Cardinality(Before(l, c))
  BY <1>4, <1>5, BeforeFinite, FS_Subset
<1>7. /\ PumpStationIdx(l, b) = Cardinality(Before(l, b))
      /\ PumpStationIdx(l, c) = Cardinality(Before(l, c))
      /\ PumpStationIdx(l, b) \in Int /\ PumpStationIdx(l, c) \in Int
  BY BeforeFinite
<1> QED BY <1>6, <1>7

(* Two stations have two indices.                                          *)
LEMMA IndexIsInjective ==
  ASSUME NEW l \in Layouts, NEW b \in DOMAIN l, NEW c \in DOMAIN l,
         PumpStationIdx(l, b) = PumpStationIdx(l, c)
  PROVE  l[b] = l[c]
<1>1. PICK n \in Nat \ {0} : DOMAIN l = 1..n
  BY LayoutShape
<1>2. /\ First(l, b) \in Nat /\ First(l, c) \in Nat
      /\ l[First(l, b)] = l[b] /\ l[First(l, c)] = l[c]
  <2>1. /\ First(l, b) \in DOMAIN l /\ First(l, c) \in DOMAIN l
        /\ l[First(l, b)] = l[b] /\ l[First(l, c)] = l[c]
    BY FirstIsFirst, Zenon
  <2> QED BY <1>1, <2>1
<1>3. PumpStationIdx(l, b) \in Int /\ PumpStationIdx(l, c) \in Int
  BY BeforeFinite
<1>4. ~(First(l, b) < First(l, c)) /\ ~(First(l, c) < First(l, b))
  BY <1>3, LaterIsGreater
<1>5. First(l, b) = First(l, c)
  BY <1>2, <1>4
<1> QED BY <1>2, <1>5

(* Every index is that of a station: with as many indices as stations, two *)
(* stations with two indices leave none out.                               *)
LEMMA EveryIndexIsUsed ==
  ASSUME NEW l \in Layouts, NEW i \in 1..Cardinality(StationsIn(l))
  PROVE  \E b \in DOMAIN l : PumpStationIdx(l, b) = i
<1> DEFINE S == StationsIn(l)
           T == 1..Cardinality(S)
           of(s) == CHOOSE b \in DOMAIN l : l[b] = s
           f == [s \in S |-> PumpStationIdx(l, of(s))]
<1>1. ASSUME NEW s \in S PROVE of(s) \in DOMAIN l /\ l[of(s)] = s
  BY DEF StationsIn
<1> HIDE DEF of
<1>2. f \in [S -> T]
  BY <1>1, BeforeFinite
<1>3. ASSUME NEW s \in S, NEW t \in S, f[s] = f[t] PROVE s = t
  <2>1. PumpStationIdx(l, of(s)) = PumpStationIdx(l, of(t))
    BY <1>3
  <2> QED BY <1>1, <2>1, IndexIsInjective
<1>4. IsFiniteSet(T) /\ Cardinality(T) = Cardinality(S) /\ Cardinality(S) \in Nat
  BY StationsFinite, FS_Interval
<1> HIDE DEF T
<1>5. f \in Injection(S, T)
  BY <1>2, <1>3 DEF Injection, IsInjective
<1> HIDE DEF f, S
<1>6. f \in Surjection(S, T)
  BY <1>4, <1>5, FS_Injection
<1>7. \E s \in S : f[s] = i
  BY <1>6 DEF Surjection, T, S
<1> QED BY <1>1, <1>7 DEF f

(* The way back from an index leads to the station it came from.           *)
LEMMA StationAtIndex ==
  ASSUME NEW l \in Layouts, NEW b \in DOMAIN l
  PROVE  StationAt(l, PumpStationIdx(l, b)) = l[b]
<1> DEFINE i == PumpStationIdx(l, b)
           c == CHOOSE x \in DOMAIN l : PumpStationIdx(l, x) = i
<1>1. c \in DOMAIN l /\ PumpStationIdx(l, c) = i
  OBVIOUS
<1>2. StationAt(l, i) = l[c]
  BY DEF StationAt
<1> HIDE DEF c
<1> QED BY <1>1, <1>2, IndexIsInjective

-----------------------------------------------------------------------------
(* Genes and their fitness.                                                *)

(* Clamping keeps the limits and leaves alone what is within them.         *)
LEMMA ClampLimits ==
  ASSUME NEW lo \in Int, NEW hi \in Int, lo <= hi, NEW v \in Int
  PROVE  Clamp(v, lo, hi) \in lo..hi /\ (v \in lo..hi => Clamp(v, lo, hi) = v)
BY DEF Clamp

(* What the boreholes get: the pressure of their station, and their own    *)
(* opening, which is not clamped for the score alone.                      *)
LEMMA EffectiveIsPlan ==
  ASSUME NEW l \in Layouts, NEW g \in GenesFor(l)
  PROVE  /\ Effective(l, g) = [b \in DOMAIN l |-> <<g.pumps[PumpStationIdx(l, b)], g.valves[b]>>]
         /\ Score(Effective(l, g)) \in Scores
<1>1. /\ g.pumps \in [1..Cardinality(StationsIn(l)) -> PumpMin..PumpMax]
      /\ g.valves \in [DOMAIN l -> ValveMin..ValveMax]
  BY DEF GenesFor
<1>2. ASSUME NEW b \in DOMAIN l
      PROVE  /\ g.pumps[PumpStationIdx(l, b)] \in PumpMin..PumpMax
             /\ g.valves[b] \in ValveMin..ValveMax
             /\ Clamp(g.valves[b], ValveMin, ValveMax) = g.valves[b]
  <2>1. PumpStationIdx(l, b) \in 1..Cardinality(StationsIn(l))
    BY BeforeFinite
  <2>2. g.valves[b] \in ValveMin..ValveMax /\ g.valves[b] \in Int
    BY <1>1
  <2>3. g.pumps[PumpStationIdx(l, b)] \in PumpMin..PumpMax
    BY <1>1, <2>1
  <2>4. Clamp(g.valves[b], ValveMin, ValveMax) = g.valves[b]
    BY <2>2, ClampLimits
  <2> QED BY <2>2, <2>3, <2>4, Zenon
<1>3. Effective(l, g) = [b \in DOMAIN l |-> <<g.pumps[PumpStationIdx(l, b)], g.valves[b]>>]
  BY <1>2 DEF Effective
<1>4. Effective(l, g) \in [DOMAIN l -> (PumpMin..PumpMax) \X (ValveMin..ValveMax)]
  BY <1>2, <1>3
<1>5. Score(Effective(l, g)) \in Scores
  BY <1>4
<1> QED BY <1>3, <1>5

(* The fitness of genes is a value of the formula, or NaN for all of them. *)
LEMMA FitnessTypes ==
  ASSUME stationOf \in Layouts, NEW g \in Genes
  PROVE  FitnessOf(g) \in Fitness /\ (FitnessOf(g) = NaN <=> ~sound)
<1>1. Score(Effective(stationOf, g)) \in Scores
  BY EffectiveIsPlan DEF Genes
<1> QED BY <1>1 DEF FitnessOf, Fitness

(* As long as the boreholes are the same, so is the fitness of genes.      *)
LEMMA FitnessStays ==
  ASSUME UNCHANGED <<stationOf, sound>>
  PROVE  Genes' = Genes /\ \A g : FitnessOf(g)' = FitnessOf(g)
<1>1. Genes' = Genes
  BY DEF Genes
<1>2. ASSUME NEW g PROVE FitnessOf(g)' = FitnessOf(g)
  BY DEF FitnessOf
<1> QED BY <1>1, <1>2

(* Genes that come of two plans are within the limits.                     *)
LEMMA MixedInLimits ==
  ASSUME NEW lo \in Int, NEW hi \in Int, lo <= hi, NEW D,
         NEW s \in [D -> lo..hi], NEW t \in [D -> lo..hi],
         NEW m \in Mixed(s, t, lo, hi)
  PROVE  m \in [D -> lo..hi]
<1>1. ASSUME NEW v \in lo..hi PROVE Mutated(v, lo, hi) \subseteq lo..hi
  BY ClampLimits DEF Mutated
<1> DEFINE From(k) == UNION {Mutated(v, lo, hi) : v \in {s[k], t[k]}}
<1>2. ASSUME NEW k \in D PROVE From(k) \subseteq lo..hi
  BY <1>1
<1>3. DOMAIN m = D /\ \A k \in D : m[k] \in From(k)
  BY DEF Mixed
<1>4. m \in [D -> UNION {From(k) : k \in D}]
  BY DEF Mixed
<1> HIDE DEF From
<1> QED BY <1>2, <1>3, <1>4

(* The child of two plans is one for the same boreholes.                   *)
LEMMA OffspringAreGenes ==
  ASSUME NEW l, NEW g1 \in GenesFor(l), NEW g2 \in GenesFor(l), NEW g \in Offspring(g1, g2)
  PROVE  g \in GenesFor(l)
<1>1. g = [pumps |-> g.pumps, valves |-> g.valves]
  BY DEF Offspring
<1>2. g.pumps \in [1..Cardinality(StationsIn(l)) -> PumpMin..PumpMax]
  <2>1. g.pumps \in Mixed(g1.pumps, g2.pumps, PumpMin, PumpMax)
    BY DEF Offspring
  <2> QED BY <2>1, MixedInLimits DEF GenesFor
<1>3. g.valves \in [DOMAIN l -> ValveMin..ValveMax]
  <2>1. g.valves \in Mixed(g1.valves, g2.valves, ValveMin, ValveMax)
    BY DEF Offspring
  <2> QED BY <2>1, MixedInLimits DEF GenesFor
<1> QED BY <1>1, <1>2, <1>3 DEF GenesFor

-----------------------------------------------------------------------------
(* Sorting, and room for a child.                                          *)

(* Sorted plans are the plans there were, in the order of a permutation.   *)
LEMMA OrdersPermute ==
  ASSUME NEW s, NEW t \in Orders(s)
  PROVE  /\ \E p \in [DOMAIN s -> DOMAIN s] :
              /\ \A i, j \in DOMAIN s : p[i] = p[j] => i = j
              /\ t = [i \in DOMAIN s |-> s[p[i]]]
         /\ \A i, j \in DOMAIN s : i < j => ~Greater(t[j].fitness, t[i].fitness)
BY DEF Orders

(* A heap that is not full has a place for the genes of a child.           *)
LEMMA FreshIsFree ==
  ASSUME DOMAIN heap \subseteq Addresses, IsFiniteSet(DOMAIN heap),
         Cardinality(DOMAIN heap) <= 2 * PopulationSize
  PROVE  Fresh \in Addresses \ DOMAIN heap
<1> DEFINE S == Addresses \ DOMAIN heap
<1>1. Cardinality(Addresses) = 2 * PopulationSize + 1
  BY FS_Interval DEF Addresses
<1>2. DOMAIN heap # Addresses
  BY <1>1, FS_CardinalityType
<1>3. S \in SUBSET Nat /\ S # {}
  <2>1. Addresses \subseteq Nat
    BY DEF Addresses
  <2> QED BY <1>2, <2>1
<1> DEFINE P(a) == \A c \in S : a <= c
<1>4. \E a \in S : P(a)
  BY <1>3, LeastExists
<1>5. Fresh = CHOOSE a \in S : P(a)
  BY DEF Fresh
<1> HIDE DEF S
<1> QED BY <1>4, <1>5 DEF S

(* A sequence of addresses stays one when there are more of them.          *)
LEMMA SeqGrows ==
  ASSUME NEW S, NEW T, S \subseteq T, NEW q \in Seq(S)
  PROVE  q \in Seq(T)
OBVIOUS

-----------------------------------------------------------------------------
(* The steps of the search.                                                *)

LEMMA InitHolds == Init => SearchInv
<1> SUFFICES ASSUME Init PROVE SearchInv
  OBVIOUS
<1>1. TypeOK
  <2>1. DOMAIN heap = {} /\ DOMAIN scored = {} /\ newPop = <<>> /\ newPop \in Seq({})
        /\ Len(newPop) = 0
    BY DEF Init
  <2>2. best \in Scored
    BY DEF Init, Scored, Addresses, Fitness
  <2>3. \A i \in DOMAIN scored : scored[i].ref \in DOMAIN heap
    BY <2>1
  <2>4. newPop \in Seq(DOMAIN heap) /\ Len(newPop) <= PopulationSize
        /\ DOMAIN heap \subseteq Addresses
    BY <2>1
  <2>5. /\ pc = "fetch" /\ stationOf \in Layouts \cup {<<>>} /\ sound \in BOOLEAN
        /\ expired \in BOOLEAN /\ announced \in BOOLEAN /\ seen \subseteq Fitness
        /\ gen \in 0..MaxGenerations /\ stagnation \in 0..StagnationLimit
    <3>1. pc = "fetch" /\ stationOf = <<>> /\ sound = TRUE /\ expired = FALSE
          /\ announced = FALSE /\ seen = {} /\ gen = 0 /\ stagnation = 0
      BY DEF Init
    <3>2. gen \in 0..MaxGenerations /\ stagnation \in 0..StagnationLimit
      BY <3>1
    <3>3. sound \in BOOLEAN /\ expired \in BOOLEAN /\ announced \in BOOLEAN
      BY <3>1, Zenon
    <3> QED BY <3>1, <3>2, <3>3, Zenon
  <2> QED BY <2>2, <2>3, <2>4, <2>5 DEF TypeOK
<1>2. CleanEnds /\ LoopHasItsLimits /\ PlansAreWhole /\ EliteFirst
  BY DEF Init, CleanEnds, LoopHasItsLimits, PlansAreWhole, EliteFirst, Searching
<1> QED BY <1>1, <1>2 DEF Init, SearchInv, ScoreIsCurrent, CommandedAsScored

(* Of plans with the fitness of their genes, sorting makes plans with the  *)
(* fitness of their genes.                                                 *)
LEMMA SortedPlans ==
  ASSUME NEW s \in [1..PopulationSize -> Scored], NEW t \in Orders(s)
  PROVE  /\ t \in [1..PopulationSize -> Scored]
         /\ \A i \in DOMAIN t : \E j \in DOMAIN s : t[i] = s[j]
         /\ t[1] \in Scored /\ 1 \in DOMAIN t
         /\ FitnessesIn(t) \subseteq Fitness
<1>1. DOMAIN s = 1..PopulationSize
  OBVIOUS
<1>2. PICK p \in [DOMAIN s -> DOMAIN s] :
        /\ \A i, j \in DOMAIN s : p[i] = p[j] => i = j
        /\ t = [i \in DOMAIN s |-> s[p[i]]]
  BY DEF Orders
<1>3. t \in [1..PopulationSize -> Scored]
      /\ \A i \in DOMAIN t : \E j \in DOMAIN s : t[i] = s[j]
  BY <1>1, <1>2
<1>4. 1 \in DOMAIN t /\ t[1] \in Scored
  BY <1>3
<1>5. FitnessesIn(t) \subseteq Fitness
  BY <1>3 DEF FitnessesIn, Scored
<1> QED BY <1>3, <1>4, <1>5, Zenon

(* The first plans have the fitness of the genes they were given.          *)
LEMMA PopulateStep == ASSUME SearchInv, Populate PROVE SearchInv'
<1> DEFINE start == [i \in 1..PopulationSize |->
                       [ref |-> i, fitness |-> FitnessOf(heap'[i])]]
<1>1. /\ pc = "populate" /\ pc' = "head" /\ gen' = 1
      /\ heap' \in [1..PopulationSize -> Genes]
      /\ UNCHANGED <<stationOf, sound, expired, newPop, stagnation, commands, announced>>
  BY DEF Populate
<1>2. PICK s \in Orders(start) : scored' = s /\ best' = s[1] /\ seen' = FitnessesIn(s)
  BY DEF Populate
<1>3. stationOf \in Layouts /\ stagnation = 0 /\ newPop = <<>>
  BY <1>1 DEF SearchInv, CleanEnds, EliteFirst, Searching
<1>4. ASSUME NEW i \in 1..PopulationSize
      PROVE  /\ heap'[i] \in Genes /\ start[i].ref = i /\ start[i] \in Scored
             /\ start[i].fitness = FitnessOf(heap'[i])
  <2>1. heap'[i] \in Genes /\ i \in Addresses
    BY <1>1 DEF Addresses
  <2>2. FitnessOf(heap'[i]) \in Fitness
    BY <1>3, <2>1, FitnessTypes
  <2> QED BY <2>1, <2>2 DEF Scored
<1>5. start \in [1..PopulationSize -> Scored]
  BY <1>4
<1> HIDE DEF start
<1>6. /\ scored' \in [1..PopulationSize -> Scored] /\ best' \in Scored /\ seen' \subseteq Fitness
      /\ \A i \in DOMAIN scored' : \E j \in 1..PopulationSize : scored'[i] = start[j]
      /\ \E j \in 1..PopulationSize : best' = start[j]
  <2>1. /\ s \in [1..PopulationSize -> Scored] /\ s[1] \in Scored /\ 1 \in DOMAIN s
        /\ \A i \in DOMAIN s : \E j \in DOMAIN start : s[i] = start[j]
        /\ FitnessesIn(s) \subseteq Fitness
    BY <1>5, SortedPlans, Zenon
  <2>2. DOMAIN start = 1..PopulationSize
    BY <1>5
  <2> QED BY <1>2, <2>1, <2>2
<1>7. DOMAIN heap' = 1..PopulationSize /\ DOMAIN heap' \subseteq Addresses
  BY <1>1 DEF Addresses
<1>8. TypeOK'
  <2>1. \A i \in DOMAIN scored' : scored'[i].ref \in DOMAIN heap'
    BY <1>4, <1>6, <1>7
  <2>2. newPop' = <<>> /\ newPop' \in Seq(DOMAIN heap') /\ Len(newPop') <= PopulationSize
    BY <1>1, <1>3
  <2> QED BY <1>1, <1>6, <1>7, <2>1, <2>2 DEF SearchInv, TypeOK, Addresses
<1>9. CleanEnds' /\ LoopHasItsLimits' /\ EliteFirst'
  BY <1>1, <1>3 DEF CleanEnds, LoopHasItsLimits, EliteFirst, Searching
<1>10. Genes' = Genes /\ \A g : FitnessOf(g)' = FitnessOf(g)
  BY <1>1, FitnessStays
<1>11. PlansAreWhole'
  <2>1. \A a \in DOMAIN heap' : heap'[a] \in Genes'
    BY <1>1, <1>7, <1>10
  <2>2. best'.ref \in DOMAIN heap'
    BY <1>4, <1>6, <1>7
  <2>3. IsFiniteSet(DOMAIN heap') /\ Cardinality(DOMAIN heap') = PopulationSize
    BY <1>7, FS_Interval
  <2> QED BY <1>1, <2>1, <2>2, <2>3 DEF PlansAreWhole
<1>12. ScoreIsCurrent'
  <2>1. ASSUME NEW i \in 1..PopulationSize
        PROVE  start[i].fitness = IF sound' THEN Score(Effective(stationOf', heap'[start[i].ref]))
                                  ELSE NaN
    BY <1>1, <1>4 DEF FitnessOf
  <2> QED BY <1>6, <2>1 DEF ScoreIsCurrent, FitnessOf
<1>13. CommandedAsScored'
  BY <1>1 DEF CommandedAsScored
<1> QED BY <1>8, <1>9, <1>11, <1>12, <1>13 DEF SearchInv

(* With a plan of the search in hand, what the other proofs need of it.    *)
LEMMA SearchState ==
  ASSUME SearchInv, Searching
  PROVE  /\ stationOf \in Layouts /\ scored \in [1..PopulationSize -> Scored]
         /\ DOMAIN scored = 1..PopulationSize
         /\ \A i \in 1..PopulationSize :
              /\ scored[i] \in Scored /\ scored[i].ref \in DOMAIN heap
              /\ scored[i].fitness = FitnessOf(heap[scored[i].ref])
         /\ best \in Scored /\ best.ref \in DOMAIN heap
         /\ best.fitness = FitnessOf(heap[best.ref])
         /\ DOMAIN heap \subseteq Addresses
         /\ \A a \in DOMAIN heap : heap[a] \in Genes
<1>1. pc \in {"head", "breed", "over"} /\ pc # "fetch"
  BY DEF Searching
<1>2. stationOf \in Layouts
  BY <1>1 DEF SearchInv, CleanEnds
<1>3. scored \in [1..PopulationSize -> Scored] /\ DOMAIN heap \subseteq Addresses /\ best \in Scored
  BY <1>1 DEF SearchInv, TypeOK
<1>4. \A i \in 1..PopulationSize : scored[i] \in Scored /\ scored[i].ref \in DOMAIN heap
  BY <1>3 DEF SearchInv, TypeOK
<1>5. /\ \A i \in 1..PopulationSize : scored[i].fitness = FitnessOf(heap[scored[i].ref])
      /\ best.fitness = FitnessOf(heap[best.ref])
  BY <1>1, <1>3 DEF SearchInv, ScoreIsCurrent
<1>6. best.ref \in DOMAIN heap /\ \A a \in DOMAIN heap : heap[a] \in Genes
  BY DEF SearchInv, PlansAreWhole
<1> QED BY <1>2, <1>3, <1>4, <1>5, <1>6

(* A step that touches neither plans nor boreholes leaves every fitness    *)
(* what it is.                                                             *)
LEMMA SameScores ==
  ASSUME SearchInv, Searching,
         UNCHANGED <<stationOf, sound, heap, scored, best>>
  PROVE  ScoreIsCurrent'
<1>1. \A g : FitnessOf(g)' = FitnessOf(g)
  BY FitnessStays
<1>2. /\ DOMAIN scored = 1..PopulationSize
      /\ \A i \in 1..PopulationSize : scored[i].fitness = FitnessOf(heap[scored[i].ref])
      /\ best.fitness = FitnessOf(heap[best.ref])
  BY SearchState
<1> QED BY <1>2 DEF ScoreIsCurrent, FitnessOf

(* The elite is copied by reference and its genes are left alone.          *)
LEMMA StartGenerationStep == ASSUME SearchInv, StartGeneration PROVE SearchInv'
<1>1. /\ pc = "head" /\ pc' = "breed" /\ gen < MaxGenerations
      /\ newPop' = [i \in 1..EliteCount |-> scored[i].ref]
      /\ UNCHANGED <<stationOf, sound, expired, heap, scored, best, gen,
                     stagnation, seen, commands, announced>>
  BY DEF StartGeneration
<1>2. Searching /\ Searching'
  BY <1>1 DEF Searching
<1>3. /\ newPop' \in Seq(DOMAIN heap') /\ Len(newPop') = EliteCount
      /\ \A i \in 1..EliteCount : newPop'[i] = scored[i].ref
  <2>1. EliteCount \in Nat /\ EliteCount <= PopulationSize
    OBVIOUS
  <2>2. \A i \in 1..EliteCount : scored[i].ref \in DOMAIN heap
    BY <1>2, <2>1, SearchState
  <2> QED BY <1>1, <2>1, <2>2
<1>4. TypeOK'
  BY <1>1, <1>3 DEF SearchInv, TypeOK
<1>5. CleanEnds' /\ LoopHasItsLimits'
  BY <1>1, <1>2, SearchState DEF SearchInv, CleanEnds, LoopHasItsLimits
<1>6. PlansAreWhole'
  <2>1. Genes' = Genes
    BY <1>1, FitnessStays
  <2> QED BY <1>1, <1>2, <1>3, <2>1 DEF SearchInv, PlansAreWhole
<1>7. EliteFirst'
  BY <1>1, <1>3 DEF EliteFirst
<1>8. ScoreIsCurrent' /\ CommandedAsScored'
  BY <1>1, <1>2, SameScores DEF CommandedAsScored
<1> QED BY <1>4, <1>5, <1>6, <1>7, <1>8 DEF SearchInv

(* A child gets slices that nobody refers to, so no score is touched.      *)
LEMMA BreedStep == ASSUME SearchInv, Breed PROVE SearchInv'
<1>1. /\ pc = "breed" /\ Len(newPop) < PopulationSize
      /\ UNCHANGED <<pc, stationOf, sound, expired, scored, best, gen,
                     stagnation, seen, commands, announced>>
  BY DEF Breed
<1>2. Searching /\ Searching'
  BY <1>1 DEF Searching
<1>3. PICK i \in DOMAIN scored, j \in DOMAIN scored :
        \E genes \in Offspring(heap[scored[i].ref], heap[scored[j].ref]) :
          /\ newPop' = Append(newPop, Child(scored[i].ref, scored[j].ref, genes).ref)
          /\ heap' = Child(scored[i].ref, scored[j].ref, genes).heap
  BY DEF Breed
<1>4. PICK genes \in Offspring(heap[scored[i].ref], heap[scored[j].ref]) :
        /\ newPop' = Append(newPop, Fresh)
        /\ heap' = [a \in DOMAIN heap \cup {Fresh} |-> IF a = Fresh THEN genes ELSE heap[a]]
  BY <1>3 DEF Child
<1>5. genes \in Genes
  <2>1. heap[scored[i].ref] \in Genes /\ heap[scored[j].ref] \in Genes
    BY <1>2, SearchState
  <2> QED BY <2>1, OffspringAreGenes DEF Genes
<1>6. /\ newPop \in Seq(DOMAIN heap) /\ Len(newPop) \in Nat /\ EliteCount <= Len(newPop)
      /\ \A k \in 1..EliteCount : newPop[k] = scored[k].ref
      /\ gen < MaxGenerations
  BY <1>1 DEF SearchInv, TypeOK, EliteFirst
<1>7. /\ IsFiniteSet(DOMAIN heap) /\ DOMAIN heap \subseteq Addresses
      /\ Cardinality(DOMAIN heap) \in Nat
      /\ Cardinality(DOMAIN heap) <= PopulationSize + 1 + (Len(newPop) - EliteCount)
  BY <1>1, <1>2, FS_CardinalityType DEF SearchInv, PlansAreWhole, TypeOK
<1>8. Fresh \in Addresses \ DOMAIN heap
  <2>1. Cardinality(DOMAIN heap) <= 2 * PopulationSize
    BY <1>1, <1>6, <1>7
  <2> QED BY <1>7, <2>1, FreshIsFree
<1> HIDE DEF Fresh
<1>9. /\ DOMAIN heap' = DOMAIN heap \cup {Fresh} /\ DOMAIN heap' \subseteq Addresses
      /\ heap'[Fresh] = genes /\ \A a \in DOMAIN heap : heap'[a] = heap[a]
  BY <1>4, <1>7, <1>8
<1>10. /\ newPop' \in Seq(DOMAIN heap') /\ Len(newPop') = Len(newPop) + 1
       /\ \A k \in 1..Len(newPop) : newPop'[k] = newPop[k]
  <2>1. newPop \in Seq(DOMAIN heap') /\ Fresh \in DOMAIN heap'
    BY <1>6, <1>9, SeqGrows
  <2> QED BY <1>4, <2>1
<1>11. TypeOK'
  <2>1. \A k \in DOMAIN scored' : scored'[k].ref \in DOMAIN heap'
    BY <1>1, <1>2, <1>9, SearchState
  <2> QED BY <1>1, <1>6, <1>9, <1>10, <2>1 DEF SearchInv, TypeOK
<1>12. CleanEnds' /\ LoopHasItsLimits'
  BY <1>1, <1>2, SearchState DEF SearchInv, CleanEnds, LoopHasItsLimits
<1>13. PlansAreWhole'
  <2>1. Genes' = Genes
    BY <1>1, FitnessStays
  <2>2. \A a \in DOMAIN heap' : heap'[a] \in Genes'
    BY <1>2, <1>5, <1>9, <2>1, SearchState
  <2>3. best'.ref \in DOMAIN heap'
    BY <1>1, <1>2, <1>9, SearchState
  <2>4. IsFiniteSet(DOMAIN heap') /\ Cardinality(DOMAIN heap') = Cardinality(DOMAIN heap) + 1
    BY <1>7, <1>8, <1>9, FS_AddElement
  <2>5. Cardinality(DOMAIN heap') <= PopulationSize + 1 + (Len(newPop') - EliteCount)
    BY <1>6, <1>7, <1>10, <2>4
  <2> QED BY <1>1, <2>2, <2>3, <2>4, <2>5 DEF PlansAreWhole
<1>14. EliteFirst'
  BY <1>1, <1>6, <1>10 DEF EliteFirst
<1>15. ScoreIsCurrent'
  <2>1. /\ DOMAIN scored = 1..PopulationSize
        /\ \A k \in 1..PopulationSize :
             /\ scored[k].fitness = FitnessOf(heap[scored[k].ref])
             /\ heap'[scored[k].ref] = heap[scored[k].ref]
        /\ best.fitness = FitnessOf(heap[best.ref]) /\ heap'[best.ref] = heap[best.ref]
    BY <1>2, <1>9, SearchState
  <2> QED BY <1>1, <2>1 DEF ScoreIsCurrent, FitnessOf
<1>16. CommandedAsScored'
  BY <1>1 DEF CommandedAsScored
<1> QED BY <1>11, <1>12, <1>13, <1>14, <1>15, <1>16 DEF SearchInv

(* What becomes of the next population: the elite as it is, and children   *)
(* with the fitness of their genes.                                        *)
LEMMA EvaluatedPlans ==
  ASSUME SearchInv, pc = "breed", Len(newPop) = PopulationSize
  PROVE  /\ Evaluated(newPop) \in [1..PopulationSize -> Scored]
         /\ \A i \in 1..PopulationSize :
              /\ Evaluated(newPop)[i].ref \in DOMAIN heap
              /\ Evaluated(newPop)[i].fitness = FitnessOf(heap[Evaluated(newPop)[i].ref])
         /\ \A i \in 1..EliteCount : Evaluated(newPop)[i] = scored[i]
<1>1. Searching
  BY DEF Searching
<1>2. newPop \in Seq(DOMAIN heap) /\ DOMAIN newPop = 1..PopulationSize
  BY DEF SearchInv, TypeOK
<1> DEFINE e == Evaluated(newPop)
<1>3. e = [i \in 1..PopulationSize |->
             IF i <= EliteCount THEN scored[i]
             ELSE [ref |-> newPop[i], fitness |-> FitnessOf(heap[newPop[i]])]]
  BY <1>2 DEF Evaluated
<1> HIDE DEF e
<1>4. ASSUME NEW i \in 1..PopulationSize
      PROVE  /\ e[i] \in Scored /\ e[i].ref \in DOMAIN heap
             /\ e[i].fitness = FitnessOf(heap[e[i].ref])
             /\ i <= EliteCount => e[i] = scored[i]
  <2>1. CASE i <= EliteCount
    <3>1. e[i] = scored[i]
      BY <1>3, <2>1
    <3> QED BY <1>1, <3>1, SearchState
  <2>2. CASE ~(i <= EliteCount)
    <3>1. e[i] = [ref |-> newPop[i], fitness |-> FitnessOf(heap[newPop[i]])]
      BY <1>3, <2>2
    <3>2. newPop[i] \in DOMAIN heap
      BY <1>2
    <3>3. newPop[i] \in Addresses /\ heap[newPop[i]] \in Genes /\ stationOf \in Layouts
      BY <1>1, <3>2, SearchState
    <3>4. FitnessOf(heap[newPop[i]]) \in Fitness
      BY <3>3, FitnessTypes
    <3> QED BY <2>2, <3>1, <3>2, <3>3, <3>4 DEF Scored
  <2> QED BY <2>1, <2>2
<1>5. e \in [1..PopulationSize -> Scored]
  BY <1>3, <1>4
<1>6. \A i \in 1..EliteCount : i \in 1..PopulationSize /\ i <= EliteCount
  OBVIOUS
<1>7. \A i \in 1..EliteCount : e[i] = scored[i]
  BY <1>4, <1>6
<1> QED BY <1>4, <1>5, <1>7 DEF e

(* The plans in use after a generation are those of it and the best.       *)
LEMMA InUseFits ==
  ASSUME NEW s \in [1..PopulationSize -> Scored], NEW b \in Scored
  PROVE  /\ IsFiniteSet(InUse(s, b)) /\ Cardinality(InUse(s, b)) <= PopulationSize + 1
         /\ b.ref \in InUse(s, b) /\ \A i \in DOMAIN s : s[i].ref \in InUse(s, b)
<1> DEFINE R == {s[i].ref : i \in DOMAIN s}
           f == [i \in 1..PopulationSize |-> s[i].ref]
<1>1. f \in Surjection(1..PopulationSize, R)
  BY DEF Surjection
<1>2. IsFiniteSet(1..PopulationSize) /\ Cardinality(1..PopulationSize) = PopulationSize
  BY FS_Interval
<1> HIDE DEF f, R
<1>3. IsFiniteSet(R) /\ Cardinality(R) <= PopulationSize
  BY <1>1, <1>2, FS_Surjection
<1>4. Cardinality(R) \in Nat
  BY <1>3, FS_CardinalityType
<1>5. IsFiniteSet(R \cup {b.ref}) /\ Cardinality(R \cup {b.ref}) <= PopulationSize + 1
  <2>1. /\ IsFiniteSet(R \cup {b.ref})
        /\ Cardinality(R \cup {b.ref}) = IF b.ref \in R THEN Cardinality(R) ELSE Cardinality(R) + 1
    BY <1>3, FS_AddElement, Zenon
  <2> QED BY <1>3, <1>4, <2>1
<1>6. InUse(s, b) = R \cup {b.ref}
  BY DEF InUse, R
<1> QED BY <1>5, <1>6 DEF R

(* The plans that are kept keep their genes.                               *)
LEMMA EndGenerationStep == ASSUME SearchInv, EndGeneration PROVE SearchInv'
<1> DEFINE e == Evaluated(newPop)
<1>1. /\ pc = "breed" /\ Len(newPop) = PopulationSize /\ newPop' = <<>>
      /\ heap' = [a \in InUse(scored', best') |-> heap[a]]
      /\ UNCHANGED <<stationOf, sound, expired, commands, announced>>
      /\ IF stagnation' >= StagnationLimit
         THEN pc' = "over" /\ UNCHANGED gen
         ELSE pc' = "head" /\ gen' = gen + 1
  BY DEF EndGeneration
<1>2. PICK s \in Orders(e) :
        /\ scored' = s /\ seen' = seen \cup FitnessesIn(s)
        /\ best' = IF Greater(s[1].fitness, best.fitness) THEN s[1] ELSE best
        /\ stagnation' = StagnationAfter(s)
  BY DEF EndGeneration
<1>3. Searching /\ Searching' /\ pc' \in {"head", "over"}
  BY <1>1 DEF Searching
<1>4. /\ e \in [1..PopulationSize -> Scored]
      /\ \A i \in 1..PopulationSize :
           e[i].ref \in DOMAIN heap /\ e[i].fitness = FitnessOf(heap[e[i].ref])
  BY <1>1, EvaluatedPlans
<1> HIDE DEF e
<1>5. /\ s \in [1..PopulationSize -> Scored] /\ s[1] \in Scored /\ 1 \in DOMAIN s
      /\ \A i \in DOMAIN s : \E j \in DOMAIN e : s[i] = e[j]
      /\ FitnessesIn(s) \subseteq Fitness
  BY <1>4, SortedPlans, Zenon
<1>6. \A i \in 1..PopulationSize :
        s[i].ref \in DOMAIN heap /\ s[i].fitness = FitnessOf(heap[s[i].ref])
  BY <1>4, <1>5
<1>7. /\ best' \in Scored /\ best'.ref \in DOMAIN heap
      /\ best'.fitness = FitnessOf(heap[best'.ref])
  <2>1. best' = s[1] \/ best' = best
    BY <1>2
  <2>2. 1 \in 1..PopulationSize
    OBVIOUS
  <2> QED BY <1>3, <1>5, <1>6, <2>1, <2>2, SearchState
<1>8. /\ scored' \in [1..PopulationSize -> Scored] /\ DOMAIN scored' = 1..PopulationSize
      /\ \A i \in 1..PopulationSize :
           scored'[i].ref \in DOMAIN heap /\ scored'[i].fitness = FitnessOf(heap[scored'[i].ref])
  BY <1>2, <1>5, <1>6
<1>9. /\ DOMAIN heap' = InUse(scored', best')
      /\ \A a \in InUse(scored', best') : heap'[a] = heap[a]
      /\ InUse(scored', best') \subseteq DOMAIN heap
      /\ best'.ref \in DOMAIN heap'
      /\ \A i \in 1..PopulationSize : scored'[i].ref \in DOMAIN heap'
      /\ IsFiniteSet(DOMAIN heap') /\ Cardinality(DOMAIN heap') <= PopulationSize + 1
  <2>1. InUse(scored', best') \subseteq DOMAIN heap
    BY <1>7, <1>8 DEF InUse
  <2>2. DOMAIN heap' = InUse(scored', best') /\ \A a \in InUse(scored', best') : heap'[a] = heap[a]
    BY <1>1
  <2>3. /\ IsFiniteSet(InUse(scored', best'))
        /\ Cardinality(InUse(scored', best')) <= PopulationSize + 1
        /\ best'.ref \in InUse(scored', best')
        /\ \A i \in DOMAIN scored' : scored'[i].ref \in InUse(scored', best')
    BY <1>7, <1>8, InUseFits
  <2> QED BY <1>8, <2>1, <2>2, <2>3
<1>10. /\ gen < MaxGenerations /\ gen \in Nat /\ stagnation < StagnationLimit /\ stagnation \in Nat
  BY <1>1 DEF SearchInv, EliteFirst, LoopHasItsLimits, TypeOK
<1>11. stagnation' \in 0..StagnationLimit
  <2>1. stagnation' = 0 \/ stagnation' = stagnation + 1
    BY <1>2 DEF StagnationAfter
  <2> QED BY <1>10, <2>1
<1>12. gen' \in 0..MaxGenerations
  BY <1>1, <1>10
<1>13. TypeOK'
  <2>1. newPop' \in Seq(DOMAIN heap') /\ Len(newPop') <= PopulationSize
    BY <1>1
  <2>2. DOMAIN heap' \subseteq Addresses
    BY <1>3, <1>9, SearchState
  <2>3. \A i \in DOMAIN scored' : scored'[i].ref \in DOMAIN heap'
    BY <1>8, <1>9
  <2>4. seen' \subseteq Fitness
    BY <1>2, <1>5 DEF SearchInv, TypeOK
  <2>5. stationOf' \in Layouts \cup {<<>>} /\ sound' \in BOOLEAN /\ expired' \in BOOLEAN
        /\ announced' \in BOOLEAN
    BY <1>1 DEF SearchInv, TypeOK
  <2> QED BY <1>3, <1>7, <1>8, <1>11, <1>12, <2>1, <2>2, <2>3, <2>4, <2>5 DEF TypeOK
<1>14. CleanEnds' /\ EliteFirst'
  BY <1>1, <1>3, SearchState DEF CleanEnds, EliteFirst
<1>15. LoopHasItsLimits'
  BY <1>1, <1>11 DEF LoopHasItsLimits
<1>16. Genes' = Genes
  BY <1>1, FitnessStays
<1>17. PlansAreWhole'
  <2>1. \A a \in DOMAIN heap' : heap'[a] \in Genes'
    BY <1>3, <1>9, <1>16, SearchState
  <2>2. pc' # "breed"
    BY <1>3
  <2> QED BY <1>9, <2>1, <2>2 DEF PlansAreWhole
<1>18. ScoreIsCurrent'
  <2>1. heap'[best'.ref] = heap[best'.ref]
        /\ \A i \in 1..PopulationSize : heap'[scored'[i].ref] = heap[scored'[i].ref]
    BY <1>9
  <2> QED BY <1>1, <1>7, <1>8, <2>1 DEF ScoreIsCurrent, FitnessOf
<1>19. CommandedAsScored'
  BY <1>1, <1>3 DEF CommandedAsScored
<1> QED BY <1>13, <1>14, <1>15, <1>17, <1>18, <1>19 DEF SearchInv

(* A search that ends, or whose deadline passes, keeps its plans.          *)
LEMMA LoopEndsStep == ASSUME SearchInv, LoopEnds \/ DeadlinePasses PROVE SearchInv'
<1>1. /\ Searching /\ Searching' /\ (pc = "breed" <=> pc' = "breed")
      /\ UNCHANGED <<stationOf, sound, heap, scored, newPop, best, gen,
                     stagnation, seen, commands, announced>>
      /\ expired' \in BOOLEAN
  BY DEF LoopEnds, DeadlinePasses, Searching, SearchInv, TypeOK
<1>2. TypeOK'
  BY <1>1 DEF SearchInv, TypeOK, Searching
<1>3. CleanEnds' /\ EliteFirst'
  <2>1. CleanEnds'
    BY <1>1, SearchState DEF CleanEnds, Searching
  <2>2. EliteFirst'
    BY <1>1 DEF SearchInv, EliteFirst
  <2> QED BY <2>1, <2>2
<1>4. LoopHasItsLimits'
  BY DEF SearchInv, LoopHasItsLimits, LoopEnds, DeadlinePasses
<1>5. PlansAreWhole'
  <2>1. Genes' = Genes
    BY <1>1, FitnessStays
  <2> QED BY <1>1, <2>1 DEF SearchInv, PlansAreWhole
<1>6. ScoreIsCurrent' /\ CommandedAsScored'
  BY <1>1, SameScores DEF CommandedAsScored, Searching
<1> QED BY <1>2, <1>3, <1>4, <1>5, <1>6 DEF SearchInv

(* The boreholes are fetched before there is any plan.                     *)
LEMMA FetchStep == ASSUME SearchInv, FetchBoreholeData PROVE SearchInv'
<1>1. /\ pc = "fetch" /\ pc' = "populate" /\ stationOf' \in Layouts /\ sound' \in BOOLEAN
      /\ UNCHANGED <<expired, heap, scored, newPop, best, gen, stagnation, seen,
                     commands, announced>>
  BY DEF FetchBoreholeData
<1>2. TypeOK'
  BY <1>1 DEF SearchInv, TypeOK
<1>3. CleanEnds' /\ EliteFirst' /\ LoopHasItsLimits' /\ PlansAreWhole'
  BY <1>1 DEF SearchInv, CleanEnds, EliteFirst, LoopHasItsLimits, PlansAreWhole, Searching
<1> QED BY <1>1, <1>2, <1>3 DEF SearchInv, ScoreIsCurrent, CommandedAsScored

(* Each device gets a command, and together they are the plan that was     *)
(* scored.                                                                 *)
LEMMA CommandsAreThePlan ==
  ASSUME NEW l \in Layouts, NEW g \in GenesFor(l)
  PROVE  \E pressure \in [StationsIn(l) -> PumpMin..PumpMax] :
           /\ {<<StationAt(l, i), g.pumps[i]>> : i \in DOMAIN g.pumps}
                = {<<s, pressure[s]>> : s \in StationsIn(l)}
           /\ Score(Effective(l, g))
                = Score([b \in DOMAIN l |-> <<pressure[l[b]], g.valves[b]>>])
<1> DEFINE N == Cardinality(StationsIn(l))
           of(s) == CHOOSE b \in DOMAIN l : l[b] = s
           idx(s) == PumpStationIdx(l, of(s))
           pressure == [s \in StationsIn(l) |-> g.pumps[idx(s)]]
<1>1. g.pumps \in [1..N -> PumpMin..PumpMax] /\ DOMAIN g.pumps = 1..N
  BY DEF GenesFor
<1>2. ASSUME NEW s \in StationsIn(l)
      PROVE  of(s) \in DOMAIN l /\ l[of(s)] = s
  BY DEF StationsIn
<1> HIDE DEF of
<1>3. ASSUME NEW s \in StationsIn(l)
      PROVE  idx(s) \in 1..N /\ StationAt(l, idx(s)) = s
  BY <1>2, BeforeFinite, StationAtIndex
<1>4. ASSUME NEW b \in DOMAIN l
      PROVE  l[b] \in StationsIn(l) /\ idx(l[b]) = PumpStationIdx(l, b)
  <2>1. l[b] \in StationsIn(l)
    BY DEF StationsIn
  <2> QED BY <1>2, <2>1, OneIndexPerStation
<1>5. ASSUME NEW i \in 1..N
      PROVE  StationAt(l, i) \in StationsIn(l) /\ idx(StationAt(l, i)) = i
  <2>1. PICK b \in DOMAIN l : PumpStationIdx(l, b) = i
    BY EveryIndexIsUsed
  <2>2. StationAt(l, i) = l[b]
    BY <2>1, StationAtIndex
  <2> QED BY <1>4, <2>1, <2>2
<1> HIDE DEF idx
<1>6. pressure \in [StationsIn(l) -> PumpMin..PumpMax]
  BY <1>1, <1>3
<1>7. {<<StationAt(l, i), g.pumps[i]>> : i \in 1..N} = {<<s, pressure[s]>> : s \in StationsIn(l)}
  <2>1. ASSUME NEW i \in 1..N
        PROVE  <<StationAt(l, i), g.pumps[i]>> \in {<<s, pressure[s]>> : s \in StationsIn(l)}
    BY <1>5
  <2>2. ASSUME NEW s \in StationsIn(l)
        PROVE  <<s, pressure[s]>> \in {<<StationAt(l, i), g.pumps[i]>> : i \in 1..N}
    BY <1>3
  <2> QED BY <2>1, <2>2
<1>8. Effective(l, g) = [b \in DOMAIN l |-> <<pressure[l[b]], g.valves[b]>>]
  <2>1. \A b \in DOMAIN l : pressure[l[b]] = g.pumps[PumpStationIdx(l, b)]
    BY <1>4
  <2> HIDE DEF pressure
  <2> QED BY <2>1, EffectiveIsPlan
<1> HIDE DEF pressure, N
<1> QED BY <1>1, <1>6, <1>7, <1>8

(* The best plan is commanded as it was scored.                            *)
LEMMA PublishStep == ASSUME SearchInv, Publish PROVE SearchInv'
<1> DEFINE g == heap[best.ref]
<1>1. /\ pc = "over" /\ pc' = "published" /\ heap' = <<>> /\ scored' = <<>>
      /\ commands' = [pump |-> {<<StationAt(stationOf, i), g.pumps[i]>> : i \in DOMAIN g.pumps},
                      valve |-> g.valves]
      /\ announced' = (best.fitness # NaN)
      /\ UNCHANGED <<stationOf, sound, expired, newPop, best, gen, stagnation, seen>>
  BY DEF Publish
<1>2. Searching
  BY <1>1 DEF Searching
<1>3. newPop = <<>>
  BY <1>1 DEF SearchInv, EliteFirst
<1>4. TypeOK'
  <2>1. /\ DOMAIN heap' = {} /\ DOMAIN scored' = {} /\ newPop' \in Seq(DOMAIN heap')
        /\ Len(newPop') <= PopulationSize
    BY <1>1, <1>3
  <2>2. announced' \in BOOLEAN
    BY <1>1
  <2> QED BY <1>1, <2>1, <2>2 DEF SearchInv, TypeOK
<1>5. CleanEnds' /\ LoopHasItsLimits' /\ EliteFirst' /\ PlansAreWhole' /\ ScoreIsCurrent'
  BY <1>1, <1>2, <1>3, SearchState
     DEF CleanEnds, LoopHasItsLimits, EliteFirst, PlansAreWhole, ScoreIsCurrent, Searching
<1>6. CommandedAsScored'
  <2>1. stationOf \in Layouts /\ g \in GenesFor(stationOf) /\ best.fitness = FitnessOf(g)
    BY <1>2, SearchState DEF Genes
  <2> HIDE DEF g
  <2>2. PICK pressure \in [StationsIn(stationOf) -> PumpMin..PumpMax] :
           /\ {<<StationAt(stationOf, i), g.pumps[i]>> : i \in DOMAIN g.pumps}
                = {<<s, pressure[s]>> : s \in StationsIn(stationOf)}
           /\ Score(Effective(stationOf, g))
                = Score([b \in DOMAIN stationOf |-> <<pressure[stationOf[b]], g.valves[b]>>])
    BY <2>1, CommandsAreThePlan
  <2>3. commands'.pump = {<<s, pressure[s]>> : s \in StationsIn(stationOf)}
        /\ commands'.valve = g.valves
    BY <1>1, <2>2
  <2>4. sound => best.fitness =
          Score([b \in DOMAIN stationOf |-> <<pressure[stationOf[b]], commands'.valve[b]>>])
    BY <2>1, <2>2, <2>3 DEF FitnessOf
  <2> QED BY <1>1, <2>2, <2>3, <2>4 DEF CommandedAsScored, StationsUsed, Boreholes
<1> QED BY <1>4, <1>5, <1>6 DEF SearchInv

(* A step of others leaves the search alone.                               *)
LEMMA StutterStep == ASSUME SearchInv, UNCHANGED vars PROVE SearchInv'
<1>1. UNCHANGED <<pc, stationOf, sound, expired, heap, scored, newPop, best, gen,
                  stagnation, seen, commands, announced>>
  BY DEF vars
<1>2. Genes' = Genes /\ StationsUsed' = StationsUsed /\ Boreholes' = Boreholes
  BY <1>1 DEF Genes, StationsUsed, Boreholes
<1>3. TypeOK' /\ CleanEnds' /\ LoopHasItsLimits' /\ EliteFirst'
  BY <1>1 DEF SearchInv, TypeOK, CleanEnds, LoopHasItsLimits, EliteFirst, Searching
<1>4. PlansAreWhole' /\ ScoreIsCurrent'
  BY <1>1, <1>2 DEF SearchInv, PlansAreWhole, ScoreIsCurrent, Searching, FitnessOf
<1>5. CommandedAsScored'
  BY <1>1, <1>2 DEF SearchInv, CommandedAsScored
<1> QED BY <1>3, <1>4, <1>5 DEF SearchInv

-----------------------------------------------------------------------------
(* The invariant and what follows from it.                                 *)

(* The inductive invariant holds: references lead to whole genes, scores   *)
(* are those of the genes, and the loop keeps its limits.                  *)
THEOREM Invariance == Spec => []SearchInv
<1>1. Init => SearchInv
  BY InitHolds
<1>2. SearchInv /\ [Next]_vars => SearchInv'
  BY FetchStep, PopulateStep, LoopEndsStep, StartGenerationStep, BreedStep,
     EndGenerationStep, PublishStep, StutterStep DEF Next
<1> QED BY <1>1, <1>2, PTL DEF Spec

(* Run and its helpers keep the types of their state: no reference of the  *)
(* populations is ever dangling.                                           *)
THEOREM TypeCorrect == Spec => []TypeOK
BY Invariance, PTL DEF SearchInv

(* evaluateIncremental carries the fitness of the elite along, and it is   *)
(* that of the genes for as long as the plan is kept.                      *)
THEOREM ScoresAreCurrent == Spec => []ScoreIsCurrent
BY Invariance, PTL DEF SearchInv

(* publishAndStore sends every device one command, and what the boreholes  *)
(* get by them has the reported fitness, whichever stations they share.    *)
THEOREM CommandsAreAsScored == Spec => []CommandedAsScored
BY Invariance, PTL DEF SearchInv

-----------------------------------------------------------------------------
(* The search implements the loop of Optimizer.                            *)

(* The plans of a population have a number for a fitness, or none has.     *)
LEMMA AllOrNoneNaN ==
  ASSUME SearchInv, Searching
  PROVE  /\ best.fitness \in Fitness /\ (best.fitness = NaN <=> ~sound)
         /\ \A a \in DOMAIN heap :
              FitnessOf(heap[a]) \in Fitness /\ (FitnessOf(heap[a]) = NaN <=> ~sound)
BY SearchState, FitnessTypes

(* A plan without a fitness counts as one that extracts nothing.           *)
LEMMA ValueTypes ==
  ASSUME NEW f \in Fitness
  PROVE  Value(f) \in Scores /\ Value(f) \in Nat /\ (f # NaN => Value(f) = f)
BY DEF Value, Fitness

(* Sorted plans are an evaluated population of Optimizer.                  *)
LEMMA SortedIsEvaluated ==
  ASSUME NEW s \in [1..PopulationSize -> Scored], NEW t \in Orders(s),
         \A i \in 1..PopulationSize : s[i].fitness = NaN <=> ~sound
  PROVE  /\ Opt!Evaluated(Values(t)) /\ Values(t) \in Opt!Population
         /\ DOMAIN Values(t) = 1..PopulationSize
         /\ \A i \in 1..PopulationSize : Values(t)[i] = Value(t[i].fitness)
<1>1. /\ t \in [1..PopulationSize -> Scored]
      /\ \A i \in DOMAIN t : \E j \in DOMAIN s : t[i] = s[j]
  BY SortedPlans, Zenon
<1>2. \A i \in 1..PopulationSize :
        t[i].fitness \in Fitness /\ (t[i].fitness = NaN <=> ~sound)
  BY <1>1 DEF Scored
<1>3. /\ DOMAIN Values(t) = 1..PopulationSize
      /\ \A i \in 1..PopulationSize :
           Values(t)[i] = Value(t[i].fitness) /\ Values(t)[i] \in Scores
  BY <1>1, <1>2, ValueTypes DEF Values
<1>4. Values(t) \in Opt!Population
  BY <1>1, <1>3 DEF Values, Opt!Population
<1>5. \A i, j \in 1..PopulationSize : i < j => ~Greater(t[j].fitness, t[i].fitness)
  BY DEF Orders
<1>6. ASSUME NEW i \in 1..PopulationSize, NEW j \in 1..PopulationSize, i <= j
      PROVE  Values(t)[i] >= Values(t)[j]
  <2>1. Values(t)[i] \in Nat /\ Values(t)[j] \in Nat
    BY <1>3
  <2>2. CASE i = j
    BY <2>1, <2>2
  <2>3. CASE i < j /\ sound
    <3>1. /\ t[i].fitness # NaN /\ t[j].fitness # NaN
          /\ Values(t)[i] = t[i].fitness /\ Values(t)[j] = t[j].fitness
      BY <1>2, <1>3, <2>3, ValueTypes
    <3>2. ~(t[j].fitness > t[i].fitness)
      BY <1>5, <2>3, <3>1 DEF Greater
    <3> QED BY <2>1, <3>1, <3>2
  <2>4. CASE i < j /\ ~sound
    BY <1>2, <1>3, <2>4 DEF Value
  <2> QED BY <1>6, <2>2, <2>3, <2>4
<1>7. Opt!Sorted(Values(t))
  BY <1>3, <1>6 DEF Opt!Sorted
<1> QED BY <1>3, <1>4, <1>7 DEF Opt!Evaluated

(* Optimizer counts the plans of a fitness as this module does.            *)
LEMMA CopiesAreCounted ==
  ASSUME NEW p, NEW f
  PROVE  Opt!Copies(p, f) = Cardinality({i \in DOMAIN p : p[i] = f})
BY Zenon DEF Opt!Copies, Opt!Cardinality, Cardinality

(* Sorting an evaluated population keeps each value of the elite as many   *)
(* times as it was there.                                                  *)
LEMMA EliteIsKept ==
  ASSUME SearchInv, pc = "breed", Len(newPop) = PopulationSize,
         NEW t \in Orders(Evaluated(newPop))
  PROVE  Opt!KeepsElite(Values(t))
<1> DEFINE P == 1..PopulationSize
           E == 1..EliteCount
           e == Evaluated(newPop)
<1>1. e \in [P -> Scored] /\ \A i \in E : e[i] = scored[i]
  BY EvaluatedPlans
<1>2. Searching
  BY DEF Searching
<1>3. DOMAIN e = P
  BY <1>1
<1>4. PICK p \in [DOMAIN e -> DOMAIN e] :
        /\ \A i, j \in DOMAIN e : p[i] = p[j] => i = j
        /\ t = [i \in DOMAIN e |-> e[p[i]]]
  BY DEF Orders
<1> HIDE DEF e
<1>5. IsFiniteSet(P)
  BY FS_Interval
<1>6. p \in Surjection(P, P)
  <2>1. p \in Injection(P, P)
    BY <1>3, <1>4 DEF Injection, IsInjective
  <2> HIDE DEF P
  <2> QED BY <1>5, <2>1, FS_Injection
<1> DEFINE r(i) == CHOOSE j \in P : p[j] = i
<1>7. ASSUME NEW i \in P PROVE r(i) \in P /\ p[r(i)] = i
  BY <1>6 DEF Surjection
<1> HIDE DEF r
<1>8. /\ DOMAIN Values(t) = P /\ \A i \in P : Values(t)[i] = Value(e[p[i]].fitness)
  BY <1>3, <1>4 DEF Values
<1>9. /\ Values(scored) \in Seq(Scores) /\ Len(Values(scored)) = PopulationSize
      /\ \A i \in P : Values(scored)[i] = Value(scored[i].fitness)
  <2>1. DOMAIN scored = P /\ \A i \in P : scored[i].fitness \in Fitness
    BY <1>2, SearchState DEF Scored
  <2>2. Values(scored) = [i \in P |-> Value(scored[i].fitness)]
    BY <2>1 DEF Values
  <2>3. \A i \in P : Value(scored[i].fitness) \in Scores
    BY <2>1, ValueTypes
  <2> QED BY <2>2, <2>3
<1> DEFINE q == SubSeq(Values(scored), 1, EliteCount)
<1>10. DOMAIN q = E /\ \A i \in E : q[i] = Value(e[i].fitness)
  <2>1. EliteCount \in Nat /\ EliteCount <= PopulationSize /\ \A i \in E : i \in P
    OBVIOUS
  <2>2. DOMAIN q = E /\ \A i \in E : q[i] = Values(scored)[i]
    BY <1>9, <2>1
  <2> QED BY <1>1, <1>9, <2>1, <2>2
<1> HIDE DEF q
<1>11. ASSUME NEW f \in Scores
       PROVE  Opt!Copies(Values(t), f) >= Opt!Copies(q, f)
  <2> DEFINE A == {i \in E : q[i] = f}
             B == {i \in P : Values(t)[i] = f}
             h == [i \in A |-> r(i)]
  <2>1. ASSUME NEW i \in A PROVE i \in P /\ r(i) \in B /\ p[r(i)] = i
    <3>1. i \in P /\ q[i] = f /\ i \in E
      OBVIOUS
    <3>2. r(i) \in P /\ p[r(i)] = i
      BY <1>7, <3>1
    <3>3. Values(t)[r(i)] = Value(e[i].fitness)
      BY <1>8, <3>2
    <3> QED BY <1>10, <3>1, <3>2, <3>3
  <2>2. IsFiniteSet(B)
    BY <1>5, FS_Subset
  <2> HIDE DEF A, B
  <2>3. h \in Injection(A, B)
    BY <2>1 DEF Injection, IsInjective
  <2> HIDE DEF h
  <2>4. IsFiniteSet(A) /\ Cardinality(A) <= Cardinality(B)
    BY <2>2, <2>3, FS_Injection
  <2>5. Cardinality(A) \in Nat /\ Cardinality(B) \in Nat
    BY <2>2, <2>4, FS_CardinalityType
  <2>6. Cardinality(B) >= Cardinality(A)
    BY <2>4, <2>5
  <2>7. Opt!Copies(Values(t), f) = Cardinality(B)
    <3>1. Opt!Copies(Values(t), f) = Cardinality({i \in DOMAIN Values(t) : Values(t)[i] = f})
      BY CopiesAreCounted, Zenon
    <3> QED BY <1>8, <3>1 DEF B
  <2>8. Opt!Copies(q, f) = Cardinality(A)
    <3>1. Opt!Copies(q, f) = Cardinality({i \in DOMAIN q : q[i] = f})
      BY CopiesAreCounted, Zenon
    <3> QED BY <1>10, <3>1 DEF A
  <2> QED BY <2>6, <2>7, <2>8
<1> QED BY <1>11 DEF Opt!KeepsElite, q

(* What Optimizer does not see of a step: its other variables.             *)
LEMMA OptStays ==
  ASSUME RunPhase' = RunPhase, DeadlineSeen' = DeadlineSeen,
         UNCHANGED <<scored, best, gen, stagnation, seen>>
  PROVE  UNCHANGED Opt!vars
<1>1. Values(scored)' = Values(scored) /\ Value(best.fitness)' = Value(best.fitness)
  BY DEF Values, Value
<1>2. {Value(f) : f \in seen}' = {Value(f) : f \in seen}
  OBVIOUS
<1> QED BY <1>1, <1>2 DEF Opt!vars, Opt!gaVars, Opt!outVars

(* The first population is one of Optimizer.                               *)
LEMMA PopulateSimulates == ASSUME SearchInv, Populate PROVE Opt!Populate
<1> DEFINE start == [i \in 1..PopulationSize |->
                       [ref |-> i, fitness |-> FitnessOf(heap'[i])]]
<1>1. /\ pc = "populate" /\ pc' = "head" /\ gen' = 1
      /\ heap' \in [1..PopulationSize -> Genes]
      /\ UNCHANGED <<stationOf, sound, expired, newPop, stagnation, commands, announced>>
  BY DEF Populate
<1>2. PICK s \in Orders(start) : scored' = s /\ best' = s[1] /\ seen' = FitnessesIn(s)
  BY DEF Populate
<1>3. stationOf \in Layouts /\ stagnation = 0
  BY <1>1 DEF SearchInv, CleanEnds
<1>4. ASSUME NEW i \in 1..PopulationSize
      PROVE  start[i] \in Scored /\ (start[i].fitness = NaN <=> ~sound)
  <2>1. heap'[i] \in Genes /\ i \in Addresses
    BY <1>1 DEF Addresses
  <2>2. FitnessOf(heap'[i]) \in Fitness /\ (FitnessOf(heap'[i]) = NaN <=> ~sound)
    BY <1>3, <2>1, FitnessTypes
  <2> QED BY <2>1, <2>2 DEF Scored
<1>5. start \in [1..PopulationSize -> Scored]
  BY <1>4
<1> HIDE DEF start
<1>6. /\ Opt!Evaluated(Values(s)) /\ Values(s) \in Opt!Population
      /\ DOMAIN Values(s) = 1..PopulationSize
      /\ \A i \in 1..PopulationSize : Values(s)[i] = Value(s[i].fitness)
  BY <1>4, <1>5, SortedIsEvaluated
<1>7. DOMAIN s = 1..PopulationSize
  BY <1>5, SortedPlans
<1>8. Value(best'.fitness) = Values(s)[1]
  BY <1>2, <1>6
<1>9. {Value(f) : f \in seen'} = {Values(s)[i] : i \in DOMAIN Values(s)}
  BY <1>2, <1>6, <1>7 DEF FitnessesIn
<1>10. RunPhase = "fetch" /\ RunPhase' = "evolve" /\ DeadlineSeen' = FALSE
  BY <1>1 DEF RunPhase, DeadlineSeen
<1> QED BY <1>1, <1>2, <1>3, <1>6, <1>8, <1>9, <1>10 DEF Opt!Populate, Opt!outVars

(* A generation is a generation of Optimizer.                              *)
LEMMA EndGenerationSimulates == ASSUME SearchInv, EndGeneration PROVE Opt!Evolve
<1> DEFINE e == Evaluated(newPop)
<1>1. /\ pc = "breed" /\ Len(newPop) = PopulationSize
      /\ IF stagnation' >= StagnationLimit
         THEN pc' = "over" /\ UNCHANGED gen
         ELSE pc' = "head" /\ gen' = gen + 1
  BY DEF EndGeneration
<1>2. PICK s \in Orders(e) :
        /\ scored' = s /\ seen' = seen \cup FitnessesIn(s)
        /\ best' = IF Greater(s[1].fitness, best.fitness) THEN s[1] ELSE best
        /\ stagnation' = StagnationAfter(s)
  BY DEF EndGeneration
<1>3. Searching
  BY <1>1 DEF Searching
<1>4. /\ e \in [1..PopulationSize -> Scored]
      /\ \A i \in 1..PopulationSize : e[i].fitness = NaN <=> ~sound
  BY <1>1, <1>3, EvaluatedPlans, AllOrNoneNaN
<1>5. Opt!KeepsElite(Values(s))
  BY <1>1, EliteIsKept
<1> HIDE DEF e
<1>6. /\ Opt!Evaluated(Values(s)) /\ Values(s) \in Opt!Population
      /\ DOMAIN Values(s) = 1..PopulationSize
      /\ \A i \in 1..PopulationSize : Values(s)[i] = Value(s[i].fitness)
  BY <1>4, SortedIsEvaluated
<1>7. /\ DOMAIN s = 1..PopulationSize
      /\ s[1].fitness \in Fitness /\ (s[1].fitness = NaN <=> ~sound)
  <2>1. /\ s \in [1..PopulationSize -> Scored] /\ s[1] \in Scored /\ 1 \in DOMAIN s
        /\ \A i \in DOMAIN s : \E j \in DOMAIN e : s[i] = e[j]
    BY <1>4, SortedPlans, Zenon
  <2> QED BY <1>4, <2>1 DEF Scored
<1>8. best.fitness \in Fitness /\ (best.fitness = NaN <=> ~sound)
  BY <1>3, AllOrNoneNaN
<1>9. Greater(s[1].fitness, best.fitness) <=> Values(s)[1] > Value(best.fitness)
  <2>1. Values(s)[1] = Value(s[1].fitness)
    BY <1>6
  <2>2. CASE sound
    BY <1>7, <1>8, <2>1, <2>2, ValueTypes DEF Greater
  <2>3. CASE ~sound
    BY <1>7, <1>8, <2>1, <2>3 DEF Greater, Value
  <2> QED BY <2>2, <2>3
<1>10. IF Values(s)[1] > Value(best.fitness)
       THEN Value(best'.fitness) = Values(s)[1] /\ stagnation' = 0
       ELSE Value(best'.fitness) = Value(best.fitness) /\ stagnation' = stagnation + 1
  BY <1>2, <1>6, <1>9 DEF StagnationAfter
<1>11. {Value(f) : f \in seen'}
         = {Value(f) : f \in seen} \cup {Values(s)[i] : i \in DOMAIN Values(s)}
  BY <1>2, <1>6, <1>7 DEF FitnessesIn
<1>12. /\ gen < MaxGenerations /\ stagnation < StagnationLimit /\ stagnation \in Nat
  BY <1>1 DEF SearchInv, EliteFirst, LoopHasItsLimits, TypeOK
<1>13. gen' = IF stagnation' = StagnationLimit THEN gen ELSE gen + 1
  <2>1. stagnation' \in Nat /\ stagnation' <= StagnationLimit
    BY <1>2, <1>12 DEF StagnationAfter
  <2> QED BY <1>1, <2>1
<1>14. /\ RunPhase = "evolve" /\ RunPhase' = "evolve"
       /\ DeadlineSeen = FALSE /\ DeadlineSeen' = FALSE
  <2>1. pc' = "over" => ~(stagnation' < StagnationLimit)
    <3>1. stagnation' \in Nat
      BY <1>2, <1>12 DEF StagnationAfter
    <3> QED BY <1>1, <3>1
  <2> QED BY <1>1, <2>1 DEF RunPhase, DeadlineSeen
<1>15. Opt!GoesOn
  BY <1>12, <1>14 DEF Opt!GoesOn
<1>16. Values(scored)' = Values(s)
  BY <1>2 DEF Values
<1> QED BY <1>5, <1>6, <1>10, <1>11, <1>13, <1>14, <1>15, <1>16
        DEF Opt!Evolve, Opt!outVars

(* The best plan is dispatched when one of the limits is reached.          *)
LEMMA PublishSimulates == ASSUME SearchInv, Publish PROVE Opt!EvolveEnds
<1>1. /\ pc = "over" /\ pc' = "published" /\ scored' = <<>>
      /\ UNCHANGED <<expired, best, gen, stagnation, seen>>
  BY DEF Publish
<1>2. RunPhase = "evolve" /\ RunPhase' = "dispatch" /\ DeadlineSeen' = DeadlineSeen
  BY <1>1 DEF RunPhase, DeadlineSeen
<1>3. ~Opt!GoesOn
  <2>1. expired \/ gen >= MaxGenerations \/ stagnation = StagnationLimit
    BY <1>1 DEF SearchInv, LoopHasItsLimits
  <2>2. gen \in Nat /\ stagnation \in Nat /\ stagnation <= StagnationLimit
    BY DEF SearchInv, TypeOK
  <2>3. expired /\ stagnation < StagnationLimit => DeadlineSeen
    BY <1>1 DEF DeadlineSeen
  <2> QED BY <2>1, <2>2, <2>3 DEF Opt!GoesOn
<1>4. Values(scored)' = <<>>
  BY <1>1 DEF Values
<1>5. Value(best.fitness)' = Value(best.fitness) /\ {Value(f) : f \in seen}' = {Value(f) : f \in seen}
  BY <1>1 DEF Value
<1> QED BY <1>1, <1>2, <1>3, <1>4, <1>5 DEF Opt!EvolveEnds, Opt!outVars

(* The end of the loop, or the deadline after it, is the deadline of       *)
(* Optimizer when nothing else has ended the loop.                         *)
LEMMA DeadlineSimulates ==
  ASSUME SearchInv, LoopEnds \/ DeadlinePasses
  PROVE  Opt!DeadlinePasses \/ UNCHANGED Opt!vars
<1>1. /\ Searching /\ Searching'
      /\ UNCHANGED <<scored, best, gen, stagnation, seen>>
  BY DEF LoopEnds, DeadlinePasses, Searching
<1>2. RunPhase = "evolve" /\ RunPhase' = "evolve"
  BY <1>1 DEF RunPhase, Searching
<1>3. DeadlineSeen \in BOOLEAN /\ DeadlineSeen' \in BOOLEAN
  BY DEF DeadlineSeen
<1>4. DeadlineSeen => DeadlineSeen'
  BY DEF DeadlineSeen, LoopEnds, DeadlinePasses
<1>5. CASE DeadlineSeen' = DeadlineSeen
  BY <1>1, <1>2, <1>5, OptStays
<1>6. CASE DeadlineSeen' # DeadlineSeen
  <2>1. ~DeadlineSeen /\ DeadlineSeen' = TRUE
    BY <1>3, <1>4, <1>6
  <2>2. Values(scored)' = Values(scored) /\ Value(best.fitness)' = Value(best.fitness)
        /\ {Value(f) : f \in seen}' = {Value(f) : f \in seen}
    BY <1>1 DEF Values, Value
  <2> QED BY <1>1, <1>2, <2>1, <2>2 DEF Opt!DeadlinePasses, Opt!gaVars, Opt!outVars
<1> QED BY <1>5, <1>6

(* Fetching boreholes, copying the elite and breeding are steps that       *)
(* Optimizer does not see.                                                 *)
LEMMA OthersSimulate ==
  ASSUME SearchInv, FetchBoreholeData \/ StartGeneration \/ Breed \/ UNCHANGED vars
  PROVE  UNCHANGED Opt!vars
<1>1. UNCHANGED <<scored, best, gen, stagnation, seen>>
  BY DEF FetchBoreholeData, StartGeneration, Breed, vars
<1>2. RunPhase' = RunPhase /\ DeadlineSeen' = DeadlineSeen
  BY DEF FetchBoreholeData, StartGeneration, Breed, vars, RunPhase, DeadlineSeen
<1> QED BY <1>1, <1>2, OptStays

(* What every step of the search is for Optimizer.                         *)
LEMMA StepSimulates ==
  ASSUME SearchInv, [Next]_vars
  PROVE  \/ Opt!Populate \/ Opt!Evolve \/ Opt!EvolveEnds \/ Opt!DeadlinePasses
         \/ UNCHANGED Opt!vars
<1>1. CASE Populate
  BY <1>1, PopulateSimulates
<1>2. CASE EndGeneration
  BY <1>2, EndGenerationSimulates
<1>3. CASE Publish
  BY <1>3, PublishSimulates
<1>4. CASE LoopEnds \/ DeadlinePasses
  BY <1>4, DeadlineSimulates
<1>5. CASE FetchBoreholeData \/ StartGeneration \/ Breed \/ UNCHANGED vars
  BY <1>5, OthersSimulate
<1> QED BY <1>1, <1>2, <1>3, <1>4, <1>5 DEF Next

(* Every step of the search, with its heap of genes that plans share, is a *)
(* step of Optimizer's Run, where a plan is its fitness, or the passing of *)
(* its deadline, or none at all.                                           *)
THEOREM SearchImplementsOptimizer == Spec => ImplementsOptimizer
<1>1. SearchInv /\ [Next]_vars => [Opt!Run \/ Opt!DeadlinePasses]_(Opt!vars)
  BY StepSimulates DEF Opt!Run
<1> QED BY <1>1, Invariance, PTL DEF Spec, ImplementsOptimizer

(* The best of an evaluated population is its first.                       *)
LEMMA FirstIsBest ==
  ASSUME NEW p, Opt!Evaluated(p)
  PROVE  /\ p[1] \in {p[i] : i \in DOMAIN p} /\ p[1] \in Nat
         /\ \A f \in {p[i] : i \in DOMAIN p} : f \in Nat /\ f <= p[1]
<1>1. /\ DOMAIN p = 1..PopulationSize /\ 1 \in DOMAIN p
      /\ \A i \in DOMAIN p : p[i] \in Nat /\ 1 <= i
  <2>1. p \in [1..PopulationSize -> Scores]
    BY DEF Opt!Evaluated, Opt!Population
  <2>2. DOMAIN p = 1..PopulationSize /\ 1 \in 1..PopulationSize
    BY <2>1
  <2>3. \A i \in DOMAIN p : p[i] \in Scores
    BY <2>1
  <2>4. \A i \in DOMAIN p : p[i] \in Nat
    BY <2>3
  <2>5. \A i \in DOMAIN p : 1 <= i
    BY <2>2
  <2> QED BY <2>2, <2>4, <2>5, Zenon
<1>2. \A i \in DOMAIN p : p[i] <= p[1]
  BY <1>1 DEF Opt!Evaluated, Opt!Sorted
<1> QED BY <1>1, <1>2

(* Run returns the best of all the plans it has evaluated, however it ends *)
(* and whatever becomes of their genes: the result that Optimizer promises *)
(* is that of the search.                                                  *)
THEOREM SearchFindsTheBest == Spec => []Opt!BestIsBest
<1> DEFINE Best == Value(best.fitness)
           Seen == {Value(f) : f \in seen}
<1>1. ASSUME SearchInv, Opt!BestIsBest, [Next]_vars PROVE Opt!BestIsBest'
  <2>1. CASE Opt!Populate
    <3>1. PICK p : Opt!Evaluated(p) /\ Best' = p[1] /\ Seen' = {p[i] : i \in DOMAIN p}
      BY <2>1 DEF Opt!Populate
    <3> HIDE DEF Best, Seen
    <3>2. Best' \in Seen' /\ \A f \in Seen' : f <= Best'
      BY <3>1, FirstIsBest
    <3> QED BY <3>2 DEF Opt!BestIsBest, Best, Seen
  <2>2. CASE Opt!Evolve
    <3>1. PICK p : /\ Opt!Evaluated(p) /\ Seen' = Seen \cup {p[i] : i \in DOMAIN p}
                   /\ IF p[1] > Best THEN Best' = p[1] ELSE Best' = Best
      BY <2>2 DEF Opt!Evolve
    <3>2. Best \in Seen /\ \A f \in Seen : f <= Best
      BY <1>1, <2>2 DEF Opt!BestIsBest, Opt!Evolve
    <3>3. Seen \subseteq Nat
      BY <1>1, ValueTypes DEF SearchInv, TypeOK
    <3> SUFFICES Best' \in Seen' /\ \A f \in Seen' : f <= Best'
      BY DEF Opt!BestIsBest
    <3> HIDE DEF Best, Seen
    <3> DEFINE New == {p[i] : i \in DOMAIN p}
    <3>4. /\ p[1] \in New /\ p[1] \in Nat
          /\ \A f \in New : f \in Nat /\ f <= p[1]
          /\ Seen' = Seen \cup New
      BY <3>1, FirstIsBest
    <3> HIDE DEF New
    <3>5. CASE p[1] > Best
      BY <3>1, <3>2, <3>3, <3>4, <3>5
    <3>6. CASE ~(p[1] > Best)
      BY <3>1, <3>2, <3>3, <3>4, <3>6
    <3> QED BY <3>5, <3>6
  <2>3. CASE Opt!EvolveEnds
    BY <1>1, <2>3 DEF Opt!BestIsBest, Opt!EvolveEnds
  <2>4. CASE Opt!DeadlinePasses \/ UNCHANGED Opt!vars
    BY <1>1, <2>4 DEF Opt!BestIsBest, Opt!DeadlinePasses, Opt!vars, Opt!gaVars
  <2> QED BY <1>1, <2>1, <2>2, <2>3, <2>4, StepSimulates
<1>2. Init => Opt!BestIsBest
  BY DEF Init, Opt!BestIsBest, RunPhase
<1> QED BY <1>1, <1>2, Invariance, PTL DEF Spec
=============================================================================
