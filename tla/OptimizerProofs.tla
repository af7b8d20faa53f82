-------------------------- MODULE OptimizerProofs --------------------------
(***************************************************************************)
(* Proofs about Optimizer, for every number of devices, capacity of the    *)
(* channels, size of the population and limit of the search.               *)
(***************************************************************************)
EXTENDS Optimizer, TLAPS

USE OptimizerAssumption DEF Commands

-----------------------------------------------------------------------------
(* The genetic algorithm.                                                  *)

(* The first plan of an evaluated population is the best of it.            *)
LEMMA FirstIsBest ==
  ASSUME NEW p, Evaluated(p)
  PROVE  /\ p \in Seq(Fitnesses)
         /\ p[1] \in Nat /\ p[1] \in {p[i] : i \in DOMAIN p}
         /\ {p[i] : i \in DOMAIN p} \subseteq Fitnesses
         /\ \A f \in {p[i] : i \in DOMAIN p} : f <= p[1]
<1>1. /\ p \in [1..PopulationSize -> Fitnesses]
      /\ DOMAIN p = 1..PopulationSize
      /\ 1 \in DOMAIN p /\ \A i \in DOMAIN p : p[i] \in Fitnesses /\ 1 <= i
  BY DEF Evaluated, Population
<1>2. p \in Seq(Fitnesses)
  BY <1>1
<1>3. \A i \in DOMAIN p : p[i] <= p[1]
  BY <1>1 DEF Evaluated, Sorted
<1> QED BY <1>1, <1>2, <1>3

(* A new population keeps the types, and the best is the best of all plans *)
(* seen before and of those in it.                                         *)
LEMMA PopulateStep == ASSUME OptimizerInv, Populate PROVE OptimizerInv'
<1>1. PICK p : /\ Evaluated(p) /\ pop' = p /\ best' = p[1]
               /\ seen' = {p[i] : i \in DOMAIN p}
  BY DEF Populate
<1>2. TypeOK'
  <2>1. pop' \in Seq(Fitnesses) /\ best' \in Nat /\ seen' \subseteq Fitnesses
    BY <1>1, FirstIsBest
  <2>2. gen' \in 0..MaxGenerations /\ stagnation' \in 0..StagnationLimit
    BY DEF Populate
  <2>3. expired' = FALSE /\ phase' = "evolve" /\ UNCHANGED <<accepted, waiting, outVars>>
    BY DEF Populate
  <2> QED BY <2>1, <2>2, <2>3 DEF OptimizerInv, TypeOK, outVars
<1>3. BestIsBest'
  BY <1>1, FirstIsBest DEF BestIsBest
<1>4. /\ next' <= NumCommands /\ AnnouncedSoFar' /\ CleanStart' /\ NoneLeftOut'
      /\ RecordedIsDispatched'
  BY DEF OptimizerInv, AnnouncedSoFar, CleanStart, NoneLeftOut,
         RecordedIsDispatched, Populate, outVars
<1> QED BY <1>2, <1>3, <1>4 DEF OptimizerInv

(* A generation keeps the elite, and the best of all plans with it.        *)
LEMMA EvolveStep == ASSUME OptimizerInv, Evolve PROVE OptimizerInv'
<1>1. PICK p : /\ Evaluated(p) /\ pop' = p
               /\ seen' = seen \cup {p[i] : i \in DOMAIN p}
               /\ IF p[1] > best
                  THEN best' = p[1] /\ stagnation' = 0
                  ELSE best' = best /\ stagnation' = stagnation + 1
               /\ gen' = IF stagnation' = StagnationLimit THEN gen ELSE gen + 1
  BY DEF Evolve
<1>2. TypeOK'
  <2>1. best' \in Nat /\ stagnation' \in 0..StagnationLimit
    BY <1>1, FirstIsBest DEF OptimizerInv, TypeOK, Evolve, GoesOn
  <2>2. gen' \in 0..MaxGenerations
    BY <1>1 DEF OptimizerInv, TypeOK, Evolve, GoesOn
  <2>3. pop' \in Seq(Fitnesses) /\ seen' \subseteq Fitnesses
    BY <1>1, FirstIsBest DEF OptimizerInv, TypeOK
  <2> QED BY <2>1, <2>2, <2>3 DEF OptimizerInv, TypeOK, Evolve, outVars
<1>3. BestIsBest'
  <2>1. best \in seen /\ \A f \in seen : f <= best /\ f \in Nat
    BY DEF OptimizerInv, TypeOK, BestIsBest, Evolve
  <2>2. best' \in seen'
    BY <1>1, <2>1, FirstIsBest
  <2>3. ASSUME NEW f \in seen' PROVE f <= best'
    <3>1. CASE f \in seen
      BY <1>1, <2>1, <3>1, FirstIsBest
    <3>2. CASE f \in {p[i] : i \in DOMAIN p}
      <4>1. f <= p[1] /\ f \in Nat /\ p[1] \in Nat /\ best \in Nat
        BY <1>1, <2>1, <3>2, FirstIsBest
      <4> QED BY <1>1, <4>1
    <3> QED BY <1>1, <2>3, <3>1, <3>2
  <2> QED BY <2>2, <2>3 DEF BestIsBest
<1>4. /\ next' <= NumCommands /\ AnnouncedSoFar' /\ CleanStart' /\ NoneLeftOut'
      /\ RecordedIsDispatched'
  BY DEF OptimizerInv, AnnouncedSoFar, CleanStart, NoneLeftOut,
         RecordedIsDispatched, Evolve, outVars
<1> QED BY <1>2, <1>3, <1>4 DEF OptimizerInv

-----------------------------------------------------------------------------
(* The loops of publishAndStore.                                           *)

(* A step of a loop over the devices moves to the next one, or is the last.*)
LEMMA StepOfLoop ==
  ASSUME NEW p, next \in 1..NumCommands, Step(p)
  PROVE  /\ next' \in 1..NumCommands
         /\ \/ next < NumCommands /\ next' = next + 1 /\ phase' = phase
            \/ next = NumCommands /\ next' = 1 /\ phase' = p
BY DEF Step

(* A dispatch leaves no device out.                                        *)
LEMMA DispatchStep == ASSUME OptimizerInv, Dispatch PROVE OptimizerInv'
<1>1. /\ next' \in 1..NumCommands
      /\ \/ next < NumCommands /\ next' = next + 1 /\ phase' = phase
         \/ next = NumCommands /\ next' = 1 /\ phase' = "store"
  BY StepOfLoop DEF OptimizerInv, TypeOK, Dispatch
<1>2. commandCh' \in Seq(Commands) /\ Len(commandCh') <= CommandCap
  BY DEF OptimizerInv, TypeOK, Dispatch
<1>3. TypeOK' /\ next' <= NumCommands
  BY <1>1, <1>2 DEF OptimizerInv, TypeOK, Dispatch, gaVars
<1>4. NoneLeftOut'
  <2>1. ~expired => dispatched' = 1..next
    BY DEF OptimizerInv, TypeOK, NoneLeftOut, Dispatch
  <2> QED BY <1>1, <2>1 DEF OptimizerInv, TypeOK, NoneLeftOut, Dispatch
<1>5. AnnouncedSoFar' /\ CleanStart' /\ BestIsBest' /\ RecordedIsDispatched'
  BY <1>1 DEF OptimizerInv, AnnouncedSoFar, CleanStart, BestIsBest,
              RecordedIsDispatched, Dispatch, gaVars
<1> QED BY <1>3, <1>4, <1>5 DEF OptimizerInv

(* A dispatch that fails can only be one after the deadline.               *)
LEMMA DispatchFailsStep == ASSUME OptimizerInv, DispatchFails PROVE OptimizerInv'
<1>1. /\ next' \in 1..NumCommands
      /\ \/ next < NumCommands /\ next' = next + 1 /\ phase' = phase
         \/ next = NumCommands /\ next' = 1 /\ phase' = "store"
  BY StepOfLoop DEF OptimizerInv, TypeOK, DispatchFails
<1>2. TypeOK' /\ next' <= NumCommands
  BY <1>1 DEF OptimizerInv, TypeOK, DispatchFails, gaVars
<1>3. /\ AnnouncedSoFar' /\ CleanStart' /\ NoneLeftOut'
      /\ BestIsBest' /\ RecordedIsDispatched'
  BY <1>1 DEF OptimizerInv, AnnouncedSoFar, CleanStart, NoneLeftOut, BestIsBest,
              RecordedIsDispatched, DispatchFails, gaVars
<1> QED BY <1>2, <1>3 DEF OptimizerInv

(* The result is stored before the deadline or not at all.                 *)
LEMMA StoreResultStep == ASSUME OptimizerInv, StoreResult PROVE OptimizerInv'
<1>1. result' \in BOOLEAN /\ (result' => ~expired)
  BY DEF StoreResult, Writes
<1>2. TypeOK'
  BY <1>1 DEF OptimizerInv, TypeOK, StoreResult, gaVars
<1>3. RecordedIsDispatched'
  BY <1>1 DEF OptimizerInv, NoneLeftOut, RecordedIsDispatched, StoreResult
<1>4. /\ next' <= NumCommands /\ AnnouncedSoFar' /\ CleanStart' /\ NoneLeftOut'
      /\ BestIsBest'
  BY DEF OptimizerInv, AnnouncedSoFar, CleanStart, NoneLeftOut, BestIsBest,
         StoreResult, gaVars
<1> QED BY <1>2, <1>3, <1>4 DEF OptimizerInv

(* So is the row of a command.                                             *)
LEMMA StoreRowStep == ASSUME OptimizerInv, StoreRow PROVE OptimizerInv'
<1>1. /\ next' \in 1..NumCommands
      /\ \/ next < NumCommands /\ next' = next + 1 /\ phase' = phase
         \/ next = NumCommands /\ next' = 1 /\ phase' = "announce"
  BY StepOfLoop DEF OptimizerInv, TypeOK, StoreRow
<1>2. rows' = rows \/ (~expired /\ rows' = rows \cup {next})
  BY DEF StoreRow, Writes
<1>3. TypeOK' /\ next' <= NumCommands
  BY <1>1, <1>2 DEF OptimizerInv, TypeOK, StoreRow, gaVars
<1>4. RecordedIsDispatched'
  BY <1>2 DEF OptimizerInv, NoneLeftOut, RecordedIsDispatched, StoreRow
<1>5. AnnouncedSoFar' /\ CleanStart' /\ NoneLeftOut' /\ BestIsBest'
  BY <1>1 DEF OptimizerInv, AnnouncedSoFar, CleanStart, NoneLeftOut, BestIsBest,
              StoreRow, gaVars
<1> QED BY <1>3, <1>4, <1>5 DEF OptimizerInv

(* Broadcasts change nothing but where the run is.                         *)
LEMMA AnnounceStep == ASSUME OptimizerInv, Announce PROVE OptimizerInv'
<1>1. TypeOK'
  BY DEF OptimizerInv, TypeOK, AnnouncedSoFar, Announce, gaVars
<1> QED BY <1>1 DEF OptimizerInv, AnnouncedSoFar, CleanStart, NoneLeftOut,
                    BestIsBest, RecordedIsDispatched, Announce, gaVars

-----------------------------------------------------------------------------
(* The beginning and the end of a run, and what goes on beside it.         *)

LEMMA StartRunStep == ASSUME OptimizerInv, StartRun PROVE OptimizerInv'
<1>1. TypeOK'
  <2>1. /\ waiting' \in 0..OptimizeCap /\ next' \in 1..(NumCommands + 1)
        /\ phase' = "fetch" /\ announced' \in 0..2
    BY DEF OptimizerInv, TypeOK, StartRun
  <2>2. dispatched' \subseteq Commands /\ rows' \subseteq Commands /\ result' \in BOOLEAN
    BY DEF StartRun
  <2>3. UNCHANGED <<accepted, expired, pop, best, gen, stagnation, seen, commandCh>>
    BY DEF StartRun, gaVars
  <2> QED BY <2>1, <2>2, <2>3 DEF OptimizerInv, TypeOK
<1> QED BY <1>1 DEF OptimizerInv, AnnouncedSoFar, CleanStart, NoneLeftOut,
                    BestIsBest, RecordedIsDispatched, StartRun, gaVars

(* A run without boreholes leaves the tables clean.                        *)
LEMMA FetchFailsStep == ASSUME OptimizerInv, FetchFails PROVE OptimizerInv'
BY DEF OptimizerInv, TypeOK, AnnouncedSoFar, CleanStart, NoneLeftOut, BestIsBest,
       RecordedIsDispatched, FetchFails, gaVars, outVars

(* The best plan outlives its population.                                  *)
LEMMA EvolveEndsStep == ASSUME OptimizerInv, EvolveEnds PROVE OptimizerInv'
<1>1. TypeOK'
  BY DEF OptimizerInv, TypeOK, EvolveEnds, outVars
<1>2. NoneLeftOut'
  BY DEF OptimizerInv, CleanStart, NoneLeftOut, EvolveEnds, outVars
<1> QED BY <1>1, <1>2 DEF OptimizerInv, AnnouncedSoFar, CleanStart,
                    BestIsBest, RecordedIsDispatched, EvolveEnds, outVars

(* What was promised until the deadline is not needed after it.            *)
LEMMA DeadlineStep == ASSUME OptimizerInv, DeadlinePasses PROVE OptimizerInv'
BY DEF OptimizerInv, TypeOK, AnnouncedSoFar, CleanStart, NoneLeftOut, BestIsBest,
       RecordedIsDispatched, DeadlinePasses, gaVars, outVars

(* A request waits in OptimizeCh and touches no run.                       *)
LEMMA RequestStep == ASSUME OptimizerInv, Request PROVE OptimizerInv'
BY DEF OptimizerInv, TypeOK, AnnouncedSoFar, CleanStart, NoneLeftOut, BestIsBest,
       RecordedIsDispatched, Request, gaVars, outVars

(* The dispatcher takes commands and touches no run.                       *)
LEMMA TakeStep == ASSUME OptimizerInv, DispatcherTakes PROVE OptimizerInv'
<1>1. commandCh' \in Seq(Commands) /\ Len(commandCh') <= CommandCap
  BY DEF OptimizerInv, TypeOK, DispatcherTakes
<1>2. TypeOK'
  BY <1>1 DEF OptimizerInv, TypeOK, DispatcherTakes, gaVars
<1> QED BY <1>2 DEF OptimizerInv, AnnouncedSoFar, CleanStart, NoneLeftOut,
                    BestIsBest, RecordedIsDispatched, DispatcherTakes, gaVars

-----------------------------------------------------------------------------
(* The theorems.                                                           *)

(* OptimizerInv is an inductive invariant of the optimizer.                *)
THEOREM Invariant == Spec => []OptimizerInv
<1>1. ASSUME Init PROVE OptimizerInv
  <2>1. <<>> \in Seq(Fitnesses) /\ <<>> \in Seq(Commands) /\ Len(<<>>) <= CommandCap
    OBVIOUS
  <2>2. /\ accepted \in 0..MaxRequests /\ waiting \in 0..OptimizeCap
        /\ gen \in 0..MaxGenerations /\ stagnation \in 0..StagnationLimit
        /\ next \in 1..(NumCommands + 1) /\ announced \in 0..2 /\ best \in Nat
    BY <1>1 DEF Init
  <2>3. TypeOK
    BY <1>1, <2>1, <2>2 DEF Init, TypeOK
  <2> QED BY <1>1, <2>3 DEF Init, OptimizerInv, AnnouncedSoFar, CleanStart,
                            NoneLeftOut, BestIsBest, RecordedIsDispatched
<1>2. OptimizerInv /\ [Next]_vars => OptimizerInv'
  <2> SUFFICES ASSUME OptimizerInv, [Next]_vars PROVE OptimizerInv'
    OBVIOUS
  <2>1. CASE Request \/ DispatcherTakes \/ DeadlinePasses
    BY <2>1, RequestStep, TakeStep, DeadlineStep
  <2>2. CASE Run
    BY <2>2, StartRunStep, FetchFailsStep, PopulateStep, EvolveStep,
       EvolveEndsStep, DispatchStep, DispatchFailsStep, StoreResultStep,
       StoreRowStep, AnnounceStep DEF Run
  <2>3. CASE UNCHANGED vars
    BY <2>3 DEF OptimizerInv, TypeOK, AnnouncedSoFar, CleanStart, NoneLeftOut,
                BestIsBest, RecordedIsDispatched, vars, gaVars, outVars
  <2> QED BY <2>1, <2>2, <2>3 DEF Next, Rest
<1> QED BY <1>1, <1>2, PTL DEF Spec

(* The counters of the search and the channels stay within their limits.   *)
THEOREM TypeCorrect == Spec => []TypeOK
<1>1. OptimizerInv => TypeOK
  BY DEF OptimizerInv
<1> QED BY <1>1, Invariant, PTL

(* The result of a run is the best plan evaluated in it, in whichever      *)
(* generation, and whatever ended the loop.                                *)
THEOREM BestIsKept == Spec => []BestIsBest
<1>1. OptimizerInv => BestIsBest
  BY DEF OptimizerInv
<1> QED BY <1>1, Invariant, PTL

(* A result or a command in the tables means that every command of the run *)
(* has been dispatched, although the deadline may pass at any moment.      *)
THEOREM RecordsAreTrue == Spec => []RecordedIsDispatched
<1>1. OptimizerInv => RecordedIsDispatched
  BY DEF OptimizerInv
<1> QED BY <1>1, Invariant, PTL
=============================================================================
