--------------------------- MODULE GeneticSearch ---------------------------
(***************************************************************************)
(* The search of network_optimizer.Run, from the boreholes it fetches to   *)
(* the settings it commands.  A chromosome is a pair of slices, so that    *)
(* scored plans, the next population and the best plan hold references to  *)
(* genes on a heap, and the fitness that is carried along for the elite    *)
(* could part from the genes it was computed for.                          *)
(*                                                                         *)
(* Genes are small integers.  The fitness formula is the parameter Score,  *)
(* a function of the pressure and the opening each borehole gets.  Slices  *)
(* are indexed from 1.                                                     *)
(***************************************************************************)
EXTENDS Integers, Sequences, FiniteSets

CONSTANTS
  Layouts,          (* the stations of the boreholes, in the order of ids   *)
  Score(_),
  Scores,           (* what Score returns                                   *)
  NaN,
  PumpMin, PumpMax, ValveMin, ValveMax,
  Steps,            (* what mutation adds to a gene                         *)
  PopulationSize, EliteCount, MaxGenerations, StagnationLimit

ASSUME SearchAssumption ==
  /\ \A l \in Layouts : l \in Seq(Nat) /\ l # <<>>
  /\ \A l \in Layouts :
       \A got \in [DOMAIN l -> (PumpMin..PumpMax) \X (ValveMin..ValveMax)] :
         Score(got) \in Scores
  /\ 0 \in Scores /\ Scores \subseteq Nat /\ NaN \notin Scores
  /\ PumpMin \in Int /\ PumpMax \in Int /\ PumpMin <= PumpMax
  /\ ValveMin \in Int /\ ValveMax \in Int /\ ValveMin <= ValveMax
  /\ Steps \subseteq Int /\ 0 \in Steps
  /\ PopulationSize \in Nat \ {0} /\ EliteCount \in 0..PopulationSize
  /\ MaxGenerations \in Nat \ {0} /\ StagnationLimit \in Nat \ {0}

VARIABLES
  pc,
  stationOf,   (* the station of each borehole fetched                      *)
  sound,       (* no station has a base pressure of zero                    *)
  expired,     (* the deadline is over                                      *)
  heap,        (* the genes of the chromosomes in use                       *)
  scored,      (* references with their fitness                             *)
  newPop,      (* references of the next population                         *)
  best,        (* bestEver                                                  *)
  gen,
  stagnation,
  seen,        (* the fitness of every plan evaluated                       *)
  commands,    (* the settings dispatched                                   *)
  announced    (* the clients have got the result                           *)

vars == <<pc, stationOf, sound, expired, heap, scored, newPop, best, gen,
          stagnation, seen, commands, announced>>

StationsIn(l) == {l[b] : b \in DOMAIN l}

Boreholes == DOMAIN stationOf
StationsUsed == StationsIn(stationOf)
Addresses == 1..(2 * PopulationSize + 1)
Fitness == Scores \cup {NaN}
Scored == [ref : Addresses, fitness : Fitness]
Nothing == [pump |-> {}, valve |-> <<>>]

TypeOK ==
  /\ pc \in {"fetch", "populate", "head", "breed", "over", "published"}
  /\ stationOf \in Layouts \cup {<<>>}
  /\ sound \in BOOLEAN /\ expired \in BOOLEAN /\ announced \in BOOLEAN
  /\ DOMAIN heap \subseteq Addresses
  /\ pc \in {"head", "breed", "over"} =>
       scored \in [1..PopulationSize -> Scored]
  /\ \A i \in DOMAIN scored : scored[i].ref \in DOMAIN heap
  /\ newPop \in Seq(DOMAIN heap) /\ Len(newPop) <= PopulationSize
  /\ best \in Scored
  /\ gen \in 0..MaxGenerations /\ stagnation \in 0..StagnationLimit
  /\ seen \subseteq Fitness

Init ==
  /\ pc = "fetch" /\ stationOf = <<>> /\ sound = TRUE /\ expired = FALSE
  /\ heap = <<>> /\ scored = <<>> /\ newPop = <<>>
  /\ best = [ref |-> 1, fitness |-> 0]
  /\ gen = 0 /\ stagnation = 0 /\ seen = {}
  /\ commands = Nothing /\ announced = FALSE

-----------------------------------------------------------------------------
(* The boreholes and their stations.                                       *)

First(l, b) ==
  CHOOSE a \in 1..b : /\ l[a] = l[b]
                      /\ \A c \in 1..(a - 1) : l[c] # l[a]

(* pumpIndexMap: stations are numbered as their first boreholes come.      *)
PumpStationIdx(l, b) == Cardinality({l[a] : a \in 1..First(l, b)})

(* Variant of StationAt: the index is taken for the id.                    *)
StationAtById(l, i) == i

(* pumpStationIDs: the way back from the index.                            *)
StationAt(l, i) == l[CHOOSE b \in DOMAIN l : PumpStationIdx(l, b) = i]

FetchBoreholeData ==
  /\ pc = "fetch"
  /\ stationOf' \in Layouts /\ sound' \in BOOLEAN
  /\ pc' = "populate"
  /\ UNCHANGED <<expired, heap, scored, newPop, best, gen, stagnation, seen,
                 commands, announced>>

-----------------------------------------------------------------------------
(* Evaluation.                                                             *)

Clamp(v, lo, hi) == IF v < lo THEN lo ELSE IF v > hi THEN hi ELSE v

(* What the boreholes get from a plan.                                     *)
Effective(l, genes) ==
  [b \in DOMAIN l |-> <<genes.pumps[PumpStationIdx(l, b)],
                        Clamp(genes.valves[b], ValveMin, ValveMax)>>]

(* computeFitness: the pressures are divided by the base pressures.  With  *)
(* one that is zero, the result is infinity by infinity.                   *)
FitnessOf(genes) == IF sound THEN Score(Effective(stationOf, genes)) ELSE NaN

(* Comparisons with NaN are false.                                         *)
Greater(x, y) == x # NaN /\ y # NaN /\ x > y

(* sort.Slice: plans of equal fitness may come in any order.               *)
Orders(s) ==
  {t \in {[i \in DOMAIN s |-> s[p[i]]] :
            p \in {q \in [DOMAIN s -> DOMAIN s] :
                     \A i, j \in DOMAIN s : q[i] = q[j] => i = j}} :
     \A i, j \in DOMAIN s : i < j => ~Greater(t[j].fitness, t[i].fitness)}

FitnessesIn(s) == {s[i].fitness : i \in DOMAIN s}

GenesFor(l) == [pumps : [1..Cardinality(StationsIn(l)) -> PumpMin..PumpMax],
                valves : [DOMAIN l -> ValveMin..ValveMax]]

Genes == GenesFor(stationOf)

(* initPopulation, evaluate and the first sort.  The deadline starts here. *)
Populate ==
  /\ pc = "populate"
  /\ heap' \in [1..PopulationSize -> Genes]
  /\ \E s \in Orders([i \in 1..PopulationSize |->
                        [ref |-> i, fitness |-> FitnessOf(heap'[i])]]) :
       scored' = s /\ best' = s[1] /\ seen' = FitnessesIn(s)
  /\ gen' = 1 /\ pc' = "head"
  /\ UNCHANGED <<stationOf, sound, expired, newPop, stagnation, commands,
                 announced>>

DeadlinePasses ==
  /\ pc \in {"head", "breed", "over"} /\ ~expired
  /\ expired' = TRUE
  /\ UNCHANGED <<pc, stationOf, sound, heap, scored, newPop, best, gen,
                 stagnation, seen, commands, announced>>

-----------------------------------------------------------------------------
(* One generation.                                                         *)

StartGeneration ==
  /\ pc = "head" /\ gen < MaxGenerations /\ ~expired
  /\ newPop' = [i \in 1..EliteCount |-> scored[i].ref]
  /\ pc' = "breed"
  /\ UNCHANGED <<stationOf, sound, expired, heap, scored, best, gen,
                 stagnation, seen, commands, announced>>

Fresh == CHOOSE a \in Addresses \ DOMAIN heap :
           \A c \in Addresses \ DOMAIN heap : a <= c

(* Variant of Child: the genes are written into the first parent's slices. *)
ChildInPlace(p1, p2, genes) ==
  [ref |-> p1, heap |-> [heap EXCEPT ![p1] = genes]]

(* crossover gives the child slices of its own.                            *)
Child(p1, p2, genes) ==
  [ref |-> Fresh,
   heap |-> [a \in DOMAIN heap \cup {Fresh} |->
               IF a = Fresh THEN genes ELSE heap[a]]]

Mutated(v, lo, hi) == {Clamp(v + d, lo, hi) : d \in Steps}

(* Each gene comes from either parent and may then mutate.                 *)
Mixed(s, t, lo, hi) ==
  LET From(k) == UNION {Mutated(v, lo, hi) : v \in {s[k], t[k]}}
  IN {m \in [DOMAIN s -> UNION {From(k) : k \in DOMAIN s}] :
        \A k \in DOMAIN s : m[k] \in From(k)}

Offspring(g1, g2) ==
  [pumps : Mixed(g1.pumps, g2.pumps, PumpMin, PumpMax),
   valves : Mixed(g1.valves, g2.valves, ValveMin, ValveMax)]

(* tournamentSelect may return any plan: all its draws may be the same.    *)
Breed ==
  /\ pc = "breed" /\ Len(newPop) < PopulationSize
  /\ \E i, j \in DOMAIN scored :
     \E genes \in Offspring(heap[scored[i].ref], heap[scored[j].ref]) :
       LET child == Child(scored[i].ref, scored[j].ref, genes)
       IN newPop' = Append(newPop, child.ref) /\ heap' = child.heap
  /\ UNCHANGED <<pc, stationOf, sound, expired, scored, best, gen, stagnation,
                 seen, commands, announced>>

(* Variant of Evaluated: the children alone.                               *)
EvaluatedChildren(p) ==
  [i \in 1..(Len(p) - EliteCount) |->
     LET a == p[EliteCount + i]
     IN [ref |-> a, fitness |-> FitnessOf(heap[a])]]

(* evaluateIncremental: the elite keeps the fitness it has.                *)
Evaluated(p) ==
  [i \in DOMAIN p |-> IF i <= EliteCount THEN scored[i]
                      ELSE [ref |-> p[i], fitness |-> FitnessOf(heap[p[i]])]]

(* Genes that nothing refers to any more are given back.                   *)
InUse(s, b) == {b.ref} \cup {s[i].ref : i \in DOMAIN s}

(* Variant of StagnationAfter: never back to zero.                         *)
StagnationAfterAny(s) == stagnation + 1

StagnationAfter(s) ==
  IF Greater(s[1].fitness, best.fitness) THEN 0 ELSE stagnation + 1

EndGeneration ==
  /\ pc = "breed" /\ Len(newPop) = PopulationSize
  /\ \E s \in Orders(Evaluated(newPop)) :
       /\ scored' = s /\ seen' = seen \cup FitnessesIn(s)
       /\ best' = IF Greater(s[1].fitness, best.fitness) THEN s[1] ELSE best
       /\ stagnation' = StagnationAfter(s)
  /\ heap' = [a \in InUse(scored', best') |-> heap[a]]
  /\ newPop' = <<>>
  /\ IF stagnation' >= StagnationLimit
     THEN pc' = "over" /\ UNCHANGED gen
     ELSE pc' = "head" /\ gen' = gen + 1
  /\ UNCHANGED <<stationOf, sound, expired, commands, announced>>

LoopEnds ==
  /\ pc = "head" /\ (gen >= MaxGenerations \/ expired)
  /\ pc' = "over"
  /\ UNCHANGED <<stationOf, sound, expired, heap, scored, newPop, best, gen,
                 stagnation, seen, commands, announced>>

-----------------------------------------------------------------------------
(* buildRecommendations, publishAndStore: a command per device, and the    *)
(* result to the clients, unless it holds a NaN, which JSON has not.       *)
Publish ==
  /\ pc = "over"
  /\ LET genes == heap[best.ref]
     IN commands' =
          [pump |-> {<<StationAt(stationOf, i), genes.pumps[i]>> : i \in DOMAIN genes.pumps},
           valve |-> genes.valves]
  /\ announced' = (best.fitness # NaN)
  /\ pc' = "published"
  /\ heap' = <<>> /\ scored' = <<>>
  /\ UNCHANGED <<stationOf, sound, expired, newPop, best, gen, stagnation,
                 seen>>

Next ==
  \/ FetchBoreholeData \/ Populate \/ DeadlinePasses
  \/ StartGeneration \/ Breed \/ EndGeneration \/ LoopEnds \/ Publish

Spec == Init /\ [][Next]_vars

-----------------------------------------------------------------------------
(* Properties.                                                             *)

(* The fitness a plan is sorted by, selected by and kept as the best for   *)
(* is that of the genes it has now: nobody has written to slices that      *)
(* several plans share.                                                    *)
ScoreIsCurrent ==
  pc \in {"head", "breed", "over"} =>
    /\ \A i \in DOMAIN scored :
         scored[i].fitness = FitnessOf(heap[scored[i].ref])
    /\ best.fitness = FitnessOf(heap[best.ref])

(* Each device is sent one command, and what the boreholes get when all    *)
(* are carried out has the fitness that is reported: the way from stations *)
(* to indices and back loses nothing, and no setting is clamped for the    *)
(* score alone.                                                            *)
CommandedAsScored ==
  (pc = "published" /\ sound) =>
    \E pressure \in [StationsUsed -> PumpMin..PumpMax] :
      /\ commands.pump = {<<s, pressure[s]>> : s \in StationsUsed}
      /\ best.fitness =
           Score([b \in Boreholes |->
                    <<pressure[stationOf[b]], commands.valve[b]>>])

(* The search is one that Optimizer allows: a plan is its fitness there,   *)
(* a generation one step, and the deadline passes when the loop sees it.   *)
Value(f) == IF f = NaN THEN 0 ELSE f

Values(s) == [i \in DOMAIN s |-> Value(s[i].fitness)]

RunPhase == CASE pc \in {"fetch", "populate"} -> "fetch"
              [] pc = "published" -> "dispatch"
              [] OTHER -> "evolve"

DeadlineSeen == /\ expired /\ stagnation < StagnationLimit
                /\ pc \in {"over", "published"}

Opt == INSTANCE Optimizer WITH
  MaxRequests <- 1, OptimizeCap <- 1, CommandCap <- 1, NumCommands <- 1,
  Fitnesses <- Scores, DbFails <- FALSE,
  accepted <- 1, waiting <- 0, phase <- RunPhase, expired <- DeadlineSeen,
  pop <- Values(scored), best <- Value(best.fitness),
  seen <- {Value(f) : f \in seen},
  next <- 1, commandCh <- <<>>, dispatched <- {}, result <- FALSE, rows <- {},
  announced <- 0

ImplementsOptimizer == [][Opt!Run \/ Opt!DeadlinePasses]_(Opt!vars)

-----------------------------------------------------------------------------
(* The inductive invariant behind them.                                    *)

Searching == pc \in {"head", "breed", "over"}

(* Before the first plans there is nothing to sort, and after the last     *)
(* none is kept.                                                           *)
CleanEnds ==
  /\ pc # "fetch" => stationOf \in Layouts
  /\ ~Searching => heap = <<>> /\ scored = <<>>
  /\ pc \in {"fetch", "populate"} => stagnation = 0

(* The loop goes on until one of its three limits is reached.              *)
LoopHasItsLimits ==
  /\ pc \in {"head", "breed"} => stagnation < StagnationLimit
  /\ pc = "over" =>
       expired \/ gen >= MaxGenerations \/ stagnation = StagnationLimit

(* Every reference leads to genes within their limits, and there is always *)
(* room for one child more.                                                *)
PlansAreWhole ==
  Searching =>
    /\ \A a \in DOMAIN heap : heap[a] \in Genes
    /\ best.ref \in DOMAIN heap
    /\ IsFiniteSet(DOMAIN heap)
    /\ Cardinality(DOMAIN heap)
         <= PopulationSize + 1 + (IF pc = "breed" THEN Len(newPop) - EliteCount
                                                  ELSE 0)

(* The next population begins with the elite, in the order of this one.    *)
EliteFirst ==
  IF pc = "breed"
  THEN /\ gen < MaxGenerations /\ EliteCount <= Len(newPop)
       /\ \A i \in 1..EliteCount : newPop[i] = scored[i].ref
  ELSE newPop = <<>>

SearchInv ==
  /\ TypeOK /\ CleanEnds /\ LoopHasItsLimits /\ PlansAreWhole /\ EliteFirst
  /\ ScoreIsCurrent /\ CommandedAsScored
=============================================================================
