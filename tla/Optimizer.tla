----------------------------- MODULE Optimizer -----------------------------
(***************************************************************************)
(* network_optimizer.NetworkOptimizer: requests wait in OptimizeCh, one    *)
(* goroutine runs them one after the other.  A run fetches the boreholes,  *)
(* evolves a population of plans until the generations, the patience or    *)
(* the time is used up, dispatches one command per device, and stores and  *)
(* broadcasts the result, all of it under the one deadline of the run.     *)
(*                                                                         *)
(* What selection, crossover and mutation make of a population is left     *)
(* open: any plan may come of it.  A plan is known by its fitness.         *)
(***************************************************************************)
EXTENDS Naturals, Sequences, FiniteSets

CONSTANTS
  MaxRequests,     (* requests that are accepted (bounds the model)         *)
  OptimizeCap,     (* capacity of OptimizeCh                                *)
  CommandCap,      (* capacity of the dispatcher's CommandCh                *)
  NumCommands,     (* devices: pump stations and boreholes                  *)
  Fitnesses,       (* the values the fitness of a plan takes                *)
  PopulationSize,
  EliteCount,
  MaxGenerations,
  StagnationLimit,
  DbFails          (* BOOLEAN: may a statement fail before the deadline?    *)

ASSUME OptimizerAssumption ==
  /\ MaxRequests \in Nat /\ OptimizeCap \in Nat \ {0}
  /\ CommandCap \in Nat \ {0} /\ NumCommands \in Nat \ {0}
  /\ Fitnesses \subseteq Nat /\ Fitnesses # {}
  /\ PopulationSize \in Nat \ {0}
  /\ EliteCount \in 0..PopulationSize
  /\ MaxGenerations \in Nat \ {0} /\ StagnationLimit \in Nat \ {0}
  /\ DbFails \in BOOLEAN

Commands == 1..NumCommands

VARIABLES
  accepted,   (* requests answered with 200 so far                          *)
  waiting,    (* requests in OptimizeCh                                     *)
  phase,      (* where Run is                                               *)
  expired,    (* the deadline of the run is over                            *)
  pop,        (* the scored plans, best first once they are sorted          *)
  best,       (* bestEver                                                   *)
  gen,        (* the generation                                             *)
  stagnation, (* stagnationCount                                            *)
  seen,       (* the fitness of every plan evaluated in the run             *)
  next,       (* the command, or the row, that comes next                   *)
  commandCh,  (* commands the dispatcher has yet to take                    *)
  dispatched, (* commands of this run that got into CommandCh               *)
  result,     (* the row of the run in optimization_results is written      *)
  rows,       (* rows this run has written to plc_commands                  *)
  announced   (* broadcasts of the result of this run                       *)

gaVars == <<pop, best, gen, stagnation, seen>>
outVars == <<next, commandCh, dispatched, result, rows, announced>>
vars == <<accepted, waiting, phase, expired, gaVars, outVars>>

TypeOK ==
  /\ accepted \in 0..MaxRequests
  /\ waiting \in 0..OptimizeCap
  /\ phase \in {"idle", "fetch", "evolve", "dispatch", "store", "rows",
                "announce", "repeat"}
  /\ expired \in BOOLEAN
  /\ pop \in Seq(Fitnesses)
  /\ best \in Nat
  /\ gen \in 0..MaxGenerations
  /\ stagnation \in 0..StagnationLimit
  /\ seen \subseteq Fitnesses
  /\ next \in 1..(NumCommands + 1)
  /\ commandCh \in Seq(Commands) /\ Len(commandCh) <= CommandCap
  /\ dispatched \subseteq Commands
  /\ result \in BOOLEAN
  /\ rows \subseteq Commands
  /\ announced \in 0..2

Init ==
  /\ accepted = 0 /\ waiting = 0
  /\ phase = "idle" /\ expired = FALSE
  /\ pop = <<>> /\ best = 0 /\ gen = 0 /\ stagnation = 0 /\ seen = {}
  /\ next = 1 /\ commandCh = <<>> /\ dispatched = {}
  /\ result = FALSE /\ rows = {} /\ announced = 0

-----------------------------------------------------------------------------

(* POST /api/optimization/run; with a full queue the answer is 503.        *)
Request ==
  /\ accepted < MaxRequests
  /\ waiting < OptimizeCap
  /\ accepted' = accepted + 1
  /\ waiting' = waiting + 1
  /\ UNCHANGED <<phase, expired, gaVars, outVars>>

(* The dispatcher, if it is connected, takes a command.                    *)
DispatcherTakes ==
  /\ commandCh # <<>>
  /\ commandCh' = Tail(commandCh)
  /\ UNCHANGED <<accepted, waiting, phase, expired, gaVars>>
  /\ UNCHANGED <<next, dispatched, result, rows, announced>>

(* The deadline of the run, counted from the end of the fetch.             *)
DeadlinePasses ==
  /\ phase \notin {"idle", "fetch"}
  /\ ~expired
  /\ expired' = TRUE
  /\ UNCHANGED <<accepted, waiting, phase, gaVars, outVars>>

StartRun ==
  /\ phase = "idle" /\ waiting > 0
  /\ waiting' = waiting - 1
  /\ phase' = "fetch"
  /\ next' = 1 /\ dispatched' = {}
  /\ result' = FALSE /\ rows' = {} /\ announced' = 0
  /\ UNCHANGED <<accepted, expired, gaVars, commandCh>>

(* No boreholes, or no database: the error is logged and nothing more.     *)
FetchFails ==
  /\ phase = "fetch" /\ DbFails
  /\ phase' = "idle"
  /\ UNCHANGED <<accepted, waiting, expired, gaVars, outVars>>

-----------------------------------------------------------------------------
(* The genetic algorithm.                                                  *)

Population == [1..PopulationSize -> Fitnesses]

Sorted(p) == \A i, j \in DOMAIN p : i <= j => p[i] >= p[j]

Copies(p, f) == Cardinality({i \in DOMAIN p : p[i] = f})

(* The next generation holds the first EliteCount plans of this one.       *)
KeepsElite(p) ==
  \A f \in Fitnesses : Copies(p, f) >= Copies(SubSeq(pop, 1, EliteCount), f)

(* Variant of Evaluated: the plans are not sorted.                         *)
EvaluatedUnsorted(p) == p \in Population

(* A population as evaluate and the sort leave it.                         *)
Evaluated(p) == p \in Population /\ Sorted(p)

Populate ==
  /\ phase = "fetch"
  /\ \E p \in Population :
       /\ pop' = p
       /\ Evaluated(p)
       /\ best' = p[1]
       /\ seen' = {p[i] : i \in DOMAIN p}
  /\ gen' = 1 /\ stagnation' = 0
  /\ expired' = FALSE
  /\ phase' = "evolve"
  /\ UNCHANGED <<accepted, waiting, outVars>>

GoesOn == ~expired /\ gen < MaxGenerations /\ stagnation < StagnationLimit

Evolve ==
  /\ phase = "evolve" /\ GoesOn
  /\ \E p \in Population :
       /\ pop' = p
       /\ Evaluated(p) /\ KeepsElite(p)
       /\ seen' = seen \cup {p[i] : i \in DOMAIN p}
       /\ IF p[1] > best
          THEN best' = p[1] /\ stagnation' = 0
          ELSE best' = best /\ stagnation' = stagnation + 1
       /\ gen' = IF stagnation' = StagnationLimit THEN gen ELSE gen + 1
  /\ UNCHANGED <<accepted, waiting, phase, expired, outVars>>

(* The best plan so far is the result, whatever ended the loop.            *)
EvolveEnds ==
  /\ phase = "evolve"
  /\ ~GoesOn
  /\ phase' = "dispatch"
  /\ pop' = <<>>
  /\ UNCHANGED <<accepted, waiting, expired, best, gen, stagnation, seen, outVars>>

-----------------------------------------------------------------------------
(* publishAndStore: a loop over the devices that dispatches, a row for the *)
(* result, a loop that writes a row per command, then the broadcasts.      *)

Step(phaseAfter) ==
  IF next < NumCommands
  THEN next' = next + 1 /\ UNCHANGED phase
  ELSE next' = 1 /\ phase' = phaseAfter

Dispatch ==
  /\ phase = "dispatch"
  /\ Len(commandCh) < CommandCap
  /\ commandCh' = Append(commandCh, next)
  /\ dispatched' = dispatched \cup {next}
  /\ Step("store")
  /\ UNCHANGED <<accepted, waiting, expired, gaVars, result, rows, announced>>

(* Variant of DispatchFails: the context is looked at before the send      *)
(* only, which then blocks.                                                *)
DispatchBlocks ==
  /\ phase = "dispatch" /\ expired
  /\ Len(commandCh) < CommandCap
  /\ Step("store")
  /\ UNCHANGED <<accepted, waiting, expired, gaVars>>
  /\ UNCHANGED <<commandCh, dispatched, result, rows, announced>>

(* The deadline is over: the select may take this branch even when there   *)
(* is room in the channel.  The error is logged and the loop goes on.      *)
DispatchFails ==
  /\ phase = "dispatch" /\ expired
  /\ Step("store")
  /\ UNCHANGED <<accepted, waiting, expired, gaVars>>
  /\ UNCHANGED <<commandCh, dispatched, result, rows, announced>>

(* Variant of Writes: the rows are written whatever the deadline.          *)
WritesAlways(done) == done \/ DbFails

(* A statement of the run succeeds only before its deadline.               *)
Writes(done) == IF done THEN ~expired ELSE expired \/ DbFails

StoreResult ==
  /\ phase = "store"
  /\ \E done \in BOOLEAN : Writes(done) /\ result' = done
  /\ phase' = "rows"
  /\ UNCHANGED <<accepted, waiting, expired, gaVars>>
  /\ UNCHANGED <<next, commandCh, dispatched, rows, announced>>

StoreRow ==
  /\ phase = "rows"
  /\ \E done \in BOOLEAN :
       Writes(done) /\ rows' = IF done THEN rows \cup {next} ELSE rows
  /\ Step("announce")
  /\ UNCHANGED <<accepted, waiting, expired, gaVars>>
  /\ UNCHANGED <<commandCh, dispatched, result, announced>>

(* Run broadcasts the result, and Start broadcasts it again.               *)
Announce ==
  /\ phase \in {"announce", "repeat"}
  /\ announced' = announced + 1
  /\ phase' = IF phase = "announce" THEN "repeat" ELSE "idle"
  /\ UNCHANGED <<accepted, waiting, expired, gaVars>>
  /\ UNCHANGED <<next, commandCh, dispatched, result, rows>>

-----------------------------------------------------------------------------

Rest ==
  /\ phase = "idle" /\ waiting = 0
  /\ UNCHANGED vars

Run ==
  \/ StartRun \/ FetchFails \/ Populate \/ Evolve \/ EvolveEnds
  \/ Dispatch \/ DispatchFails \/ StoreResult \/ StoreRow \/ Announce

Next == Request \/ DispatcherTakes \/ DeadlinePasses \/ Run \/ Rest

Spec == Init /\ [][Next]_vars

(* The goroutine runs and the clock does too.  The dispatcher need not     *)
(* take a single command: when the broker cannot be reached at the start   *)
(* of the server, nothing ever does.                                       *)
Fairness == WF_vars(Run) /\ WF_vars(DeadlinePasses)

FairSpec == Spec /\ Fairness

-----------------------------------------------------------------------------
(* Properties.                                                             *)

(* The result of a run is the best of all the plans it has evaluated, in   *)
(* whichever generation, and however early the loop ended.                 *)
BestIsBest ==
  phase \notin {"idle", "fetch"} =>
    best \in seen /\ \A f \in seen : f <= best

(* What the tables say of a run is true: a stored result, and a command    *)
(* recorded as sent, mean that the whole plan has been dispatched.         *)
RecordedIsDispatched == result \/ rows # {} => dispatched = Commands

(* A run comes to an end even when nothing takes the commands and there    *)
(* are more of them than CommandCh holds.                                  *)
RunEnds == (phase # "idle") ~> (phase = "idle")

-----------------------------------------------------------------------------
(* The inductive invariant behind the first two.                           *)

(* Nothing has been dispatched or recorded before the loop over devices.   *)
CleanStart ==
  /\ phase \in {"fetch", "evolve"} => next = 1 /\ dispatched = {}
  /\ phase \in {"fetch", "evolve", "dispatch"} => ~result /\ rows = {}

(* Until the deadline, the loop has left no device out.                    *)
NoneLeftOut ==
  ~expired =>
    /\ phase = "dispatch" => dispatched = 1..(next - 1)
    /\ phase \in {"store", "rows"} => dispatched = Commands

AnnouncedSoFar ==
  /\ phase \notin {"idle", "repeat"} => announced = 0
  /\ phase = "repeat" => announced = 1

OptimizerInv ==
  /\ TypeOK /\ next <= NumCommands
  /\ AnnouncedSoFar /\ CleanStart /\ NoneLeftOut
  /\ BestIsBest /\ RecordedIsDispatched
=============================================================================
