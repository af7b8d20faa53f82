# A verification project for the gas drainage control system

The repository is the backend of a mine gas drainage system: a Go server that
stores the readings of some 600 boreholes and their pump stations, raises
alerts, computes better settings with a genetic algorithm, sends them over
MQTT to the PLCs and pushes everything that happens to browsers over
WebSocket; two Python simulators stand for the field. This directory holds TLA+
models of its parts, configurations that check them with TLC and
proofs checked by TLAPS. `PROJECT.json` lists components, runs, mutants,
findings, hazards and theorems, and maps each definition to its lines.

## 1. Inventory

| component | state it keeps | operations | interacts with |
|---|---|---|---|
| command dispatcher (`command_dispatcher/dispatcher.go`) | `CommandCh` (512), the `pending` map, one command in hand | `Start`, `dispatchWithAck`, the feedback callback, `cleanupPending`, `Dispatch` | optimizer (calls `Dispatch`), MQTT, `plc_commands`, hub |
| PLC simulator (`plc_simulator.py`) | `current_state` per device | `_on_message`: apply, wait, report | broker, with a session that is kept |
| WebSocket hub (`handler/hub.go`) | `clients`, `broadcast` (256), one `send` channel (256) per client | `Run`, `Broadcast`, `ServeWs`, `writePump`, `readPump` | everybody broadcasts; browsers read |
| data collector (`data_collector/collector.go`, POST handlers) | `DataCh` (256), one `Response` channel per event | decode, enqueue, store, broadcast, respond | HTTP clients, PostgreSQL, hub |
| DTU simulator (`dtu_simulator.py`) | the chunk being sent | `run`, `send_batch_api`, `send_individual` | the POST handlers |
| alarm monitor (`alarm_monitor/monitor.go`) | `TriggerCh` (1), the rows of a query | ticker, `CheckLowEfficiency`, `CheckPressureAnomaly` | PostgreSQL, hub |
| network optimizer (`network_optimizer/optimizer.go`) | `OptimizeCh` (8), population, best plan, deadline | `Start`, `Run`, `publishAndStore` | dispatcher, PostgreSQL, hub |
| read queries and GET handlers (`db.go`, `handler.go`) | none; they read what the others store | latest readings, trend, stations, indicators, alerts, commands, pipelines | PostgreSQL, browsers |
| `main` (`cmd/main.go`) | the HTTP server, the pool, one cancelled context | start, wait for a signal, `Shutdown`, pause, close the pool | everybody |
| web page (`frontend/static/js`) | alerts, panel, sidebar, the WebSocket | load, `onmessage`, reconnection, selection of a borehole | GET handlers, hub |
| configuration (`config.go`) | none after the start | `LoadConfig` | optimizer |

What makes each of them hard, and right:

* **Dispatcher.** Feedback arrives at any time: early, late, twice, after a
  reconnection, or not at all. It carries a device, not a command. The callback
  reads the pending entry and uses it after the lock is released. Correct means:
  an acknowledgement stands for an execution, retries are used up but not
  exceeded, an acknowledgement is final, commands stay in order, the command
  that waits can be found, the queue moves on.
* **Hub.** A client can be evicted, unregister, fail and close in any order; two
  places close the same channel. Correct means: no panic, no gap in a stream, no
  client that blocks the others, no goroutine that stays.
* **Collector.** Two timers in the handler race the collector goroutine; a write
  may be committed although its reply is lost; the server may die. Correct means
  that the HTTP status tells the truth about the tables.
* **DTU simulator.** It repeats in single readings what it takes for a failed
  batch. Correct means: every chunk is sent, and no needless duplicates.
* **Alarm monitor.** Exists query and INSERT are separate statements, nothing in
  the table forbids a second alert, a pass can be cut short. Correct means:
  alerts neither repeated, nor unfounded, nor missed.
* **Optimizer.** One deadline covers search, dispatch and statements; there can
  be more commands than the channel holds. Correct means: the run ends, its
  result is the best plan seen, and the tables claim no more than was dispatched.
  Within the search, plans share slices of genes and carry a fitness along.
  Correct means: a fitness is that of the genes it stands beside, the devices
  are commanded what was scored.
* **Readings and GET handlers.** Handlers run several statements without a
  transaction while rows come in, late and in batches. Correct means: the parts of
  an answer agree, an answer never goes back in time, and shows what is stored.
* **`main`.** Only the HTTP server and the dispatcher are told of the end.
  Correct means: the server ends, and a request it had received is answered.

## 2. Modules

| module | models | checked through |
|---|---|---|
| `PlcLink` | paho client, broker queues, PLC simulator | `CommandDispatcher` |
| `CommandDispatcher` (EXTENDS `PlcLink`) | `dispatcher.go` | `MCDispatcher*` |
| `CommandLedger` | abstract: what the broadcasts promise to whoever watches them | refinement in `CommandDispatcher` |
| `CommandDispatcherProofs` | theorems about the dispatcher | tlapm |
| `Hub` | `hub.go` | `MCHub` |
| `HubProofs` | theorems about the hub | tlapm |
| `Collector` | POST handlers, `collector.go`, the store functions of `db.go` | `MCCollector` |
| `DtuSimulator` (EXTENDS `Collector`) | `dtu_simulator.py` in front of the collector | `MCDtu` |
| `CollectorProofs` | theorems about the collector, alone and behind the simulator | tlapm |
| `AlarmMonitor` | `monitor.go` and the tables it reads and writes | `MCAlarm` |
| `AlarmProofs` | theorems about the monitor | tlapm |
| `Optimizer` | `optimizer.go`, `handleRunOptimization`, `Dispatch` as seen by its caller | `MCOptimizer` |
| `OptimizerProofs` | theorems about the optimizer | tlapm |
| `GeneticSearch` (INSTANCE `Optimizer`) | the genetic algorithm over slices: fetch, populate, select, cross, mutate, evaluate, command | `MCSearch` |
| `SearchProofs` | theorems about the genetic search and its refinement of `Optimizer` | tlapm |
| `Readings` | `GetBoreholesWithLatestData`, `GetBoreholeTrend`, `GetPumpStations` and their handlers, the store functions as seen by readers | `MCReadings` |
| `ReadingsProofs` | theorems about the readings | tlapm |
| `Lifecycle` | `main.go`, with the timers of the POST handlers, the collector and the pool | `MCLifecycle` |
| `LifecycleProofs` | theorems about the shutdown | tlapm |

### Dispatcher and link

A command is its number in the order of `CommandCh`, so the channel is the
interval `deq+1..enq`. `pc` names where the dispatcher goroutine is:

| location | code | leaves by |
|---|---|---|
| `idle` | select at line 135 | `TakeCommand` (takes, registers the entry), `StopLoop` |
| `insert` | INSERT, 183 | `InsertRow` |
| `publish` | `publishCommand`, 200 | `Publish`, `PublishFails`, `PubackLost` |
| `await` | select, 212 | `ReceiveAck`, `ReceiveNack`, `AckTimesOut`, `WaitCancelled` |
| `delay` | select, 193 | `RetryDelayOver`, `WaitCancelled` |
| `giveup`, `finish` | 241, deferred delete 177 | `GiveUp`, `Finish` |

The callback has three steps, kept in `handler`: `OnFeedback` reads the entry
under the lock (101-103), `SendAck` sends to its channel after the lock is
released (105-110), and `ShowFeedback` broadcasts `plc_feedback` for the device
(112-126), whether or not anything waited for the feedback. `reports` is what
that broadcast last said of each device, `status` what `plc_command_status`
last said of each command. They may contradict one another: see section 5.
`UpdatedRow` is what the two UPDATE statements do to the table: nothing, because
PostgreSQL rejects an UPDATE with ORDER BY and LIMIT.
Time is discrete and advances (`Tick`) only while the dispatcher is blocked:
on a timer, on a statement, on a publication. `age` counts from `PublishAt`
(168), before the INSERT; `latency` is the part of it spent in the INSERT and in
publications. `resent` holds the commands paho has sent again. Both are histories
that properties read and no action does, but for the bound on `latency`.
The code outside `src/` is
modelled from how it is configured: paho reconnects by itself, starts a clean
session, resends what is in its store; the broker keeps commands for the PLC's
session, and drops feedback nobody subscribes to.

`CommandLedger` knows how many commands have been begun, what a PLC has reported
as executed, and the last broadcast of either kind. Only the status of the
command begun last changes, "sent" to "acked" or "timeout" and back to "sent" on
a retry, never away from "acked"; "acked" is shown of a command, or reported of a
device, only if some command for the device was executed.

### Hub

Messages are numbered in the order of the broadcast channel. One iteration of
`Run` over its clients takes several steps (`TakeMessage`, then `FanOut` or
`Evict` per client in any order), during which `Register` and `Unregister` wait.
`panicked` is set by a second close and by a send after a close, as Go would
panic. `written` is a history of what went to the connection.

### Collector and DTU simulator

A request is named by a constant that says its kind, the validity of its body
and its rows. The timers of a handler may run down at any moment of its waits;
a statement may fail, or be committed while its reply is lost (`Commit` with
`NotStored`). `Crash` is the end of the process, also that of a shutdown.
`DtuSimulator` adds the script: its requests are `<<round, chunk, reading>>`,
and reading 0 is the batch. That there are no others (`OnlyClient`) is part of
its initial state, so that what is proved of the collector for any requests
can be used behind the simulator.

### Alarm monitor

Time is counted in ticker intervals; the windows are two and three intervals
instead of 30 and 60. A reading has the time it was recorded, the time it was stored
and a value. `Query` evaluates the SELECT when it runs; `Visit`, `Store` and
`Announce` are the exists query, the INSERT and the broadcast for one source, in
any order of the sources. `MustFind` and `MayFind` differ where `DISTINCT ON`
may pick any of several latest readings. A crash, a failed statement and an
expired 30 seconds are bounded by `MaxTroubles`.

### Optimizer

A plan is its fitness. `Evolve` takes any sorted population that keeps the
elite, whatever selection, crossover and mutation make of the rest. Dispatching
and storing go device by device; after `DeadlinePasses`, a dispatch may or may
not take the `ctx.Done` branch and a statement always fails.

### Genetic search

A chromosome is a reference to genes on `heap`, as a Go slice is; `scored`,
`newPop` and `best` hold references, of which several may be the same. `Breed` is
one turn of the inner loop (two tournaments, crossover, mutation),
`EndGeneration` evaluation, sort, best-so-far and stagnation. Random choices are
choices, so `tournamentSelect` may return any plan. Genes are small integers;
`Score` is a parameter, in the configurations the weighted mean of
`computeFitness` with `x^0.3` replaced by `x`. With a base pressure of zero
(`sound` is false) the fitness is `NaN`, which is greater than nothing and nothing
is greater than it, so the sort may return any order.
`ImplementsOptimizer` maps a plan to its fitness (`Values`), the locations to the
phases of a run (`RunPhase`) and the deadline to `DeadlineSeen`, and says that each
step is a step of `Optimizer`'s run, the passing of its deadline, or none. It is
about steps: the search begins where `Optimizer` has taken a request.

### Readings

A row is its place in the order of insertion, with the time it was recorded;
rows of an open transaction are the last ones, after `committed`. A statement
sees `Visible`. The trend and the list of stations take one step per
statement, the others one step. Since handlers share nothing but the tables, a
behaviour follows one endpoint. `ZeroTime` stands for the year 1, which a
reading without `recorded_at` gets.

### Lifecycle

Time is in seconds and does not pass while a timer is due; the limits are the
literals of the code. A handler reads its body for as long as the client takes,
then has three or five seconds to get into `DataCh` and five or ten to wait for the
answer. `background` stands for the goroutines that use the pool and are never
told to stop; once the pool is closing nobody gets a connection. `inTime` is a
history of the requests whose body had been read when the signal came.

## 3. Runs

Every run uses small constants that are chosen so that queues fill, retries run
out and a second actor comes in. Bounds on counters are guards, and named in the
modules: `NetCap` and `FbCap` for the broker's queues, `MaxLatency` for the ticks
one command may spend on statements and publications, `MaxTroubles` for losses
and deaths together, and so on.

| run | instance | what it shows |
|---|---|---|
| `dispatcher` | 2 commands to one device, 1 retry, a broker that holds 2 commands and 1 feedback, one connection loss or death of the PLC, one tick in all for the INSERT and publications of a command | an acknowledgement comes from the device and is final, retry budget, how long the waiting command is tracked, order at the device, ledger refinement |
| `dispatcher_live` | 2 commands to 2 devices, 1 retry, 1 connection loss, fairness | an acknowledgement means execution, every command is done with |
| `hub` | 2 clients, 3 broadcasts of which the second cannot be marshalled, buffers of one, fairness | no panic, no gap, clean-up, progress |
| `collector` | a batch of 2, a pump reading, a wrong payload, a body that is not JSON; `DataCh` of one; one crash, fairness | status codes tell the truth, every event is processed |
| `dtu` | two rounds of one batch with one reading, `DataCh` of one, one crash | duplicates only when the outcome was unknown |
| `alarm` | a borehole and a station with the same id, 3 readings, 3 intervals, one trouble, fairness | alerts apart, founded, announced only if stored, not missed |
| `optimizer` | 2 requests, 3 commands for a channel of 2, 3 plans, 4 generations, fairness | runs end, best result, tables true |
| `search` | 2 boreholes of 1 or 2 stations, 2 plans with 1 elite, 3 generations, a fitness that is a number or not | fitness and genes belong together, devices are commanded what was scored, refinement of `Optimizer` |
| `readings` | 2 boreholes, 2 stations, 2 readings after the seed, 3 points in time, readings one hour late or without a time, a trend of one hour | answers of several statements agree, no way back, batches as a whole |
| `lifecycle` | a single reading, a batch, `DataCh` of one, the code's limits in seconds, fairness | who is answered before the end, and that there is an end |
| `late_ack` | 2 commands to one device, no connection loss | violation, section 5 |
| `early_alarm` | the instance of `alarm`, nothing fails | violation, section 5 |

Why the bounds are enough: two commands are the smallest number that can
confuse one feedback with another, and the state between two commands is only
`pending`, `ackChan` and the messages under way; one retry gives a first, a
middle (delay) and a last attempt. One connection loss is enough for paho to
send a command again after a newer one, one slow tick for the cleanup to reach
the entry of a command at its last attempt. For the hub one slow and one fast client
suffice since clients share nothing but `Run`; a buffer of one reaches full,
empty and closed-with-content. In `dtu` the readings of a batch are sent alone
one after the other and do not touch each other, so one reading with its batch
covers the race; two rounds, for the restart. For the alarm three intervals cover
a low window and its expiry. In `search` two plans suffice for one to be elite,
best and parent at once, so that its slices are shared; three generations for
stagnation, the end of the loop and the deadline to compete.
The second layout numbers the stations in another order than their ids,
which is what confuses an index with an id. In `readings` one row
can come in between any two statements and another before or after; a batch of
two is the smallest that can be seen in part. In `lifecycle` requests interact
only through `DataCh` and the collector, which one other request can occupy.
All theorems of section 4 hold without bounds.

Fairness: goroutines keep running (weak fairness of each step that only the
goroutine itself disables), timers fire, statements and publications end by
their context or keep-alive. Strong fairness is used in two places: for the
cases of the hub's select, which Go picks at random among the ready ones, and
for the PLC, which can be kept from its step while the broker's queue is full.
In `lifecycle` time passes and every statement ends, which for the query of
`fetchBoreholeData` (`optimizer.go:139`), the only one with neither a deadline
nor a context that is cancelled, is an assumption about the
database. Nothing obliges a browser to connect, a request to come, a fault to happen, or,
in the optimizer, the dispatcher to take a command: without a broker at the
start nobody does.

All type invariants are theorems (section 4). Those of `AlarmMonitor`,
`GeneticSearch`, `Readings` and `Lifecycle` are checked by the runs as well; those of
the other modules are not repeated there.

Each property of a passing run has a mutant, a variant of one definition with
the bug a change of the code could introduce; the run then reports that property.

## 4. Proofs

Each safety invariant and each action property that a run checks is also a theorem,
for every value of the constants that satisfies the named assumptions of the
module: `LinkAssumption`, `DispatcherAssumption`, `HubAssumption`,
`CollectorAssumption`, `DtuAssumption`, `MonitorAssumption`,
`OptimizerAssumption`, `SearchAssumption`, `ReadingsAssumption`,
`LifecycleAssumption`. They say that capacities, windows and limits are numbers and
not zero where Go would block or panic, and that names of different kinds
differ. One theorem, `AckExact`, needs more, and says so. TLC has checked each inductive
invariant on the instance of the run before it was proved. All follow one form:
the initial states satisfy the invariant, each action preserves it, it implies the
property.

### Dispatcher (`CommandDispatcherProofs`)

* `TypeCorrect`: the type invariant is inductive by itself. It carries
  the capacity of `CommandCh`.
* `PendingCurrent`: with `TypeOK`, inductive: the entry in the map is always that
  of the command in hand, because the deferred delete comes before the next take.
* `AckSound`: `AckFromTarget` is not inductive: it needs to know what feedback is
  under way. `AckInv` adds `InFlight` (messages are about commands already taken,
  and a success on its way has been reported), `InHand` (the entry the callback
  holds is of the feedback's device and no earlier command) and `InChannel` (an
  acknowledgement in the channel is backed by a success).
* `AckExact`: from `AckSound`, when no two commands share a device.
* `BudgetKept` and `AckFinal` rest on `LoopInv`: the number of
  publications follows the loop counter at each location, nothing has
  happened to commands that wait, and the loop is left by an acknowledgement,
  the shutdown, or after all attempts.
* `LedgerImplemented`: each step is one of `CommandLedger`'s or changes nothing it
  reads. What is shown of the command in hand is settled by `LoopInv` ("sent"
  while an acknowledgement is awaited, never "acked" before); that an
  acknowledgement and a report of success have an execution behind them is
  `InChannel` and `InHand` of `AckInv`, and that the PLC executes only what has been
  begun is `InFlight`.
* `AwaitIsTracked`: `Aged` bounds the age of a command at each location by the turns of
  the loop so far, the time at the location, and `latency`; `Registered` says that
  the entry is there until the age is over the threshold. `TurnsFit` adds the
  turns so far and the turns left up to the threshold, so what `latency` may be is
  what is left (`Slack`): at the last attempt, with the timer about to run down,
  nothing.
* `DevicesInOrder`: `QueueInOrder` says that a command in the broker's queue which paho
  has not sent again is behind all that were dispatched before it, and that no
  device is ahead of it. A publication is of the command in hand, the newest.

### Hub (`HubProofs`)

* `TypeCorrect`, `HubNeverPanics`: `Listed` says that the channel of a listed
  client is open and that a client that is not registered is on no list.
* `StreamsHaveNoGaps`, `CutOffGotAPrefix`: `NoGaps` is about listed clients only, and
  says nothing once `Run` has gone on. `HubInv` adds that a client joins between two
  broadcasts and that `Run` takes the next one only when it has visited all with
  the one before (`RunInOrder`), that nothing reaches a client before it is
  registered (`NothingEarly`), and that what was written, is in hand and in the
  channel is without a gap for clients on no list too (`StreamsGapFree`): the only
  message lost is that of a write pump that ends, which writes nothing after it.
  The lemmas about `GapFree` say when one may append to, take from and cut a stream.

### Collector and DTU simulator (`CollectorProofs`)

* `BatchAtomic`: inductive by itself, since rows of different
  requests differ (`RowsApart`) and only a commit touches the table.
* `AcceptedStays`, `RefusedStaysOut`: from `CollectorInv`. It says that a request
  outside the channel has had no effect (`Fresh`), that an event is in one
  place only (`Once`), that no final answer is given while it is on its way
  (`OnTheWay`; a 504 may be), and that what the collector is about to respond
  is true of the table and the broadcasts (`Truthful`).
* `DuplicatesAreNeeded`: a reading is stored twice only by its batch and alone.
  `DtuInv` says that requests are sent in the order of the script (`InOrder`),
  and single readings only after their batch has failed (`BatchFirst`). What remains
  is that a failure of the batch that was a refusal has left nothing in the table,
  which is `RefusedLeavesNoTrace` of the collector. The proof uses that a step of
  the simulator with its collector preserves `CollectorInv` (`InvStep`).

### Alarm monitor (`AlarmProofs`)

* `AlertsStayApart`: no statement forbids a second alert, so it rests on `Vetted`: while
  an alert is in hand, the window before its time holds none like it. This stays
  true since there is one in hand at a time (`OneInHand`), what another pass left
  is not from the future (`NothingAhead`), and a crash empties the hand.
* `AnnouncedAreStored`: the other half of `Vetted`, that what is to be broadcast is in
  the table.
* `AlertsAreFounded`: `Caused`, that whatever the query returned had given cause
  (`Founded`) when it was asked. Readings stored since do not change that,
  although they may change what the query would return now.

### Optimizer and genetic search (`OptimizerProofs`, `SearchProofs`)

* `OptimizerInv` is inductive. `BestIsKept` needs of a population
  only that its first plan is its best (`FirstIsBest`). `RecordsAreTrue` needs to know
  how far the loop over the devices has come: until the deadline no device was
  left out (`NoneLeftOut`), and once it is over, no statement succeeds any more; a
  run starts with clean tables (`CleanStart`). `TypeCorrect` carries the limits of the
  counters of the search.

* `ScoresAreCurrent`: a step that writes to genes writes to a slice nobody refers to.
  `SearchInv` says that each reference leads to whole genes within their limits
  and that fewer slices are in use than there are addresses (`PlansAreWhole`), so that
  a fresh one exists by counting, and that it is nobody's. The fitness of the others
  stays true because their genes stay the same. `Score` is any function.
* `CommandsAreAsScored`: `PumpStationIdx` numbers the stations of a layout in the order of
  their first boreholes. The lemmas show this to be a bijection between
  the stations and `1..` their number, injective since an initial part of the boreholes
  with one station more has one element more, and onto by
  `FS_Injection` and cardinality. So the way back from an index (`StationAt`) finds
  the station, and no device is addressed twice.
* `SearchImplementsOptimizer`: each step is simulated. The hard one is
  `EndGeneration`: `Optimizer` asks that the next population holds each fitness of the
  elite as often as the elite did, while the search carries references over and then
  evaluates and sorts. `EliteFirst` says that the new population begins with the
  elite's references, whose genes and fitness have not changed; the sort is
  a permutation, so that the places of the elite are mapped into the new population
  one to one (`EliteIsKept`).
* `SearchFindsTheBest`: the refinement carries `BestIsBest` over. NaN maps to
  0: either all plans of a search have it or none (`AllOrNoneNaN`).

### Readings (`ReadingsProofs`)

* `CurveReachesHeading`, `StationsShowTheirOwn`: what the second statement sees
  includes what the first saw, and the reading in the heading is one of the
  borehole (`HeadingIsOwn`). The lemmas are about `Latest` of a committed part
  of the rows: it exists, is of its source, and is not earlier when there are more.
* `BatchesAreWhole`, `NeverGoesBackwards`: a page is that of some earlier moment
  (`PageIsSnapshot`), and such moments lie between batches, not within one
  (`CommitPoint`, `RowsInOrder`).

### Shutdown (`LifecycleProofs`)

* `OnlyLateAreCut`: `NothingOverdue`, that time stands still while a timer is due, and
  `AgesWithMain`, that a handler that still runs has been waiting for as long as main
  has been ending, but for what it needed to get into `DataCh`.
* `SinglesAreAnswered` follows: the limits of a single reading, three and five
  seconds, are shorter together than the twelve of `Shutdown` and the pause. For a
  batch, with five and ten, they are not, which is why `CutOnlyLate` is as weak as it is.

### Only model-checked

Liveness under fairness: `EveryCommandFinishes`, `ClientsCleanedUp`, `EvictedIsCutOff`,
`EveryBroadcastTaken`, `EveryEventProcessed`, `CauseIsAlerted`, `RunEnds`, `Exits`.
The prover has no rules for `ENABLED`, on which fairness rests. The violations in
`late_ack` and `early_alarm` are TLC's.

## 5. Disagreements found

Three are shown by counterexamples of TLC:

* `late_ack`: feedback names the device only. The late answer to a command whose
  retries have run out acknowledges the next command to that device, against the
  repository's `README.md:25`, which promises that acknowledgements are tracked.
* `early_alarm`: the alert says that the concentration has been below 10% for more
  than 30 minutes (`monitor.go:99`), but the query asks only that no reading of the
  last 30 minutes reaches 10% (`monitor.go:66-70`). One fresh low reading is enough.
  `AlertIsFounded` states what an alert is worth, `AlertMeansLasting` what it says.
* The cleanup of what its log calls a stale pending command (`dispatcher.go:285`) can
  remove the entry of the command that is being waited for: `PublishAt` (168) is taken
  before the INSERT (185), the INSERT and each `token.Wait` (260) take time, and
  the threshold (283) allows only for the timers. The acknowledgement is then lost and
  the command shown as timed out, again against `README.md:25`. With
  `INVARIANT AwaitAlwaysTracked` added to `MCDispatcher.cfg` TLC finds it in 14 steps.
  `AwaitTracked`, which is checked and proved, says when it cannot happen.

What `PROJECT.json` lists as findings are the two that have a run of their own.
Others follow from single lines, which the models translate as they are, so that
the properties hold in spite of them:

* `dispatcher.go:112-126`: `plc_feedback` and `plc_command_status` may contradict each
  other. A second feedback can report a device as "failed" after its command was
  shown as "acked", and "acked" after its command timed out. `AckIsFinal` is about the
  latter broadcast only, and `CommandLedger` says what is true of both.
* `dispatcher.go:56`: after a lost connection paho publishes what is in its store
  again, so that a device may end with an older command. `SettingInOrder` excepts
  exactly these (`resent`) and restarts.

* `dispatcher.go:221`, `241`: PostgreSQL has no UPDATE with ORDER BY and LIMIT. The
  error is discarded, and rows of `plc_commands` stay `sent` (`UpdatedRow`).
* `dispatcher.go:52-59`, `77`: clean session, one subscription, no handler on
  reconnection. After the first connection loss the broker drops all feedback
  (`BrokerDropsFeedback`), against `README.md:233`.
* `dtu_simulator.py:71`: the answer to an accepted batch is a list, which has no
  `get`. The process dies, is restarted (`docker-compose.yml:89`) and starts over
  with the first 100 boreholes (`BatchAccepted`, `Restart`).
* `db.go:65`: a reading without `recorded_at`, as the simulator's batches have, is
  stored with Go's zero time, not with the default of `init.sql:40`; no window
  contains it (`RecordedAt`).
* `optimizer.go:299`: a station whose pressure is 0, the default of `init.sql:7`,
  makes every fitness NaN. Some plan is dispatched, and its result can be neither
  stored nor broadcast, since JSON has no NaN (`FitnessOf`, `Publish`).
* `optimizer.go:109`: a run that cannot fetch the boreholes is only logged, although
  `handler.go:208` promises that its result will be pushed (`FetchFails`).

Seen while reading and not modelled: `main.go:109` uses a result of
`dispatcher.Start`, which has none, so that the server does not compile as it
is; `handler.go:233` scans the NULL in `result` into a string, so that the list of
commands fails as soon as there is one; each command of an optimization is
inserted twice (`optimizer.go:434`, `dispatcher.go:183`); the page reads `msg.data`
(`app.js:134`) where the hub sends `payload` (`hub.go:27`).

## 6. Not modelled

* The page (`frontend/`). It draws what it is sent; for the server it is a WebSocket
  client, which `Hub` has.
* Single SELECTs that show one state of the tables: indicators, unresolved alerts,
  commands, pipelines, the latest result. There is nothing for them to disagree with.
* The configuration loader: its values are constants, and it checks nothing.
* The functions of `db.go` that nothing calls.
* The numerical values of fitness and pressures, CORS, pprof, static files, message
  contents beyond what a property tells apart.

## 7. Plan

Done: the inventory, the components that keep a state, their runs, and the proofs of
their safety. Left, in this order:

1. `Optimizer` and `CommandDispatcher` composed through `CommandCh` instead of
   an abstract taker, with both rows of a command, and what `RecordsAreTrue` and
   `AckSound` say together: what a stored result promises of the devices.
2. That the simulator's collector is the collector: `DtuSpec` restricted to the
   collector's variables implies `Collector`'s `Spec` (each step does, by `InvStep`'s
   case distinction, but it is not stated as a refinement).
3. Shorter proofs: the lemmas about `GapFree` of the hub and about `Latest` of the
   readings are stated for one use each.
