# TLA+ models of the AILEE finance runtime

This directory holds TLA+ modules that model parts of the AILEE finance
runtime, TLC configurations that check small instances of them, and proofs that
TLAPS checks for every value of the constants. The program under `src/` is the
reference: each definition that models code is tied to its lines by the map in
`PROJECT.json`.

Run from this directory:

    tlc -workers 2 -config MCAlpacaSubmit.cfg MCAlpacaSubmit
    tlapm AlpacaSafetyProofs.tla

## 1. The system and its components

The runtime takes signals of trading models, turns them into one decision, and
optionally sends an order to a broker. Two implementations stand side by side:
C++ (`aille.hpp`, `extensions/`, `ailee_plugins/`) and Python
(`core/finance_kernel/`). Calls are synchronous; threads come from the servers,
from hosts that share an engine, and from processes that share files.

    market data ─► volume advisory ─► volume daemon ─► AlpacaExecution ─► broker
         │                                 │                │
         ▼                                 │                └► intent journal (file)
    charts, advisories                (plugin registry)
         ▼
    models ─► AILLEEngine ◄─ unified runtime (layer 19) ◄─ wave stream, clock adapter
                 │  │
                 │  └► routing, governance, constraints, override, lock (layers 9-14)
                 │
                 ├─► AuditLogger ─► audit journal (file) ─► CSV
                 ├─► ExportPlane ─► health stream
                 └─► REST server, WebSocket server, FS gateway, dashboard

    Python:  wave stream ─► unified runtime    (one kernel session)
             advisory ─► volume execution ─► audit log (file)

### Components that are modelled

| component | state | operations | what is hard | correct when |
|---|---|---|---|---|
| **Intent journal** `intent_journal.hpp` | append-only file of H/P/A lines, each with the hash of the one before; table of entries | open and replay, `reserve`, `acknowledge`, `hasPending` | crash between write and fsync, torn line, two processes, file limits | replay accepts exactly what a writer may leave, the table is the file |
| **Alpaca provider** `AlpacaExecution.cpp` | `journal_`, `locked_out_`, the order in progress | constructor, `submitOrder`, (cancel, flatten, equity) | the answer of the broker is lost or late; retry of a reference; death at any point | an order is sent once, never beside a conflicting one, never while an outcome is unknown |
| **Volume daemon** `volume_auto_trader.cpp` | lockout, `broker_pending_`, position side, count of bars, peak equity | start, `processTick` | early returns between the checks, restart with an order in flight, lost answers, an account that moves | one order for a symbol, none in doubt, none after an alarm |
| **Unified runtime** `aille_unified_runtime.cpp` | cycle sequence, time, status, mode, readiness, counters | one evaluation per decision, explicit reset | evidence from layers that move on their own; replayed ticks; counters at their end; milder evidence after a fault | a fault denies until reset and a tick authorizes once, where no meta-governance state interferes |
| **Clock adapter** `aille_sync_adapter.cpp` | last tick, failure, jitter | ingest a protocol clock, advance, reset | refused, repeated, drifting, missing ticks | index and time only grow |
| **Wave stream** `aille_wnfs.cpp` | last sequence, gap count, clones, sticky status | evaluate a frame, poll | a poll on a copy hides the last real frame | a damaged stream stays damaged |
| **Audit logger** `aille_audit.cpp` | chain of records in a file, CSV, trail in memory | open and replay, `logDecision`, close | partial writes, CSV failing after the record is durable, two loggers, size limit | a confirmed record stays; the journal can be opened again |
| **Decision engine** `aille.hpp` | ring of accepted samples, configuration | `makeDecision`, `setConfig`, `reset` | the window changes while the ring is in use; ties; limits on rejection paths | the ring is the newest accepted samples; positions stay in the envelope |
| **Advisories** `aille_{btc,...,stabilizer}.cpp`, `aille_volume_advisory.hpp` | one advisory per asset, volume, anomaly, macro, stabilizer | one evaluator each, in the order of a cycle | layers that scale weights in place, on the threads of all callers | each weight is scaled once per layer; a stop leaves zero |
| **Chart intelligence** `aille_chart_intelligence.cpp` | registry of indicators, regimes of the cycle before | register, activate, observe | hysteresis in hand-written branches; payloads in any order | regimes follow their thresholds; payloads and hints agree |
| **Routing and constraints** `aille_routing.cpp`, `aille_portfolio_constraints.cpp` | none between calls | one call, in stages | stages that undo each other, flows that share an asset | every limit holds at the end of the last stage |
| **Governance frame** `aille_governor_reconciliation.cpp` and layers 12-14 | two frames of history, lock | one frame after the other | precedence, drift and stress together | a frame that is ready obeys governors, lock and crisis |
| **Plugin registry** `PluginRegistry.hpp` | four maps of factories | register, create, look up | threads, a factory that runs under the mutex | the first registration stays |
| **Export plane** `aille_observability.hpp` | shards under sequence locks, export thread, ring | record, aggregate, start, stop | torn reads | every snapshot adds up |
| **Rings** `aille_observability.hpp`, `aille_wnfs.hpp` | slots and two indices | push, pop | full, empty, wrapping indices | a bounded queue |
| **REST server** `aille_rest_api.cpp` | listener thread and three flags | start, startAsync, stop, destroy | operations of several threads while the listener starts, fails or throws | stop ends; the server object is never freed in use |
| **Streaming servers** `aille_websocket.cpp`, `fs_gateway.cpp`, `LiveAdvisoryObserver.cpp` | event loop, broadcaster, connections | start, stop, join, handlers | handlers and stop that want one mutex; greetings sent without it | stop ends; greetings and broadcasts each in order |
| **Python volume execution** `volume_execution.py` | position, hysteresis, lockout, audit log | `process_tick` | the audit line fails in the middle | the book is what the log says |
| **Python kernel, stream, runtime** `finance_kernel.py`, `wnfs.py`, `unified_runtime.py` | operator instances, channel, replay cursors | operator, pipeline | pipelines that interleave, retries, callers' claims | a frame is acted on once |

### Components that are not modelled

| component | why |
|---|---|
| Spire, membrane and v7 pipelines | functions of floating-point inputs; the latest membrane result is a last-writer-wins display value |
| Python governance layers | the algorithms of the C++ layers once more, without state |
| Finance trust domain (`ailee_finance`) | thresholds and formulas without state |
| Enclave, hardware abstraction, ingest | header-only sketches that nothing in the runtime calls |
| Arbitration of weights, sell governor, Python ledger and configuration, most plugins | numeric, in memory, or one request or rendered page at a time |
| HDL safety gate | three small Verilog sketches |
| Simulations, scripts, benchmarks, tests, vendored HTTP library | outside the system |

How they interact. The engine calls the unified runtime synchronously before it
takes its own mutex, after the advisories; the runtime reads a tick that the
clock adapter wrote and polls a copy of the stream's channel. The daemon calls
the provider, and the provider is never called concurrently (`IExecutionProvider.hpp`). Instances of
the provider and of the audit logger in different processes only meet in a file
and its `flock`. The servers run handlers on their own threads against shared
engines. The layers 9 to 14 are called by the host, one after the other, with
what the layer before returned. `PROJECT.json` lists the hazards line by line.

## 2. Modules

| module | models | uses |
|---|---|---|
| `IntentJournal` | lines of the journal, what they record, which journals can be replayed | - |
| `IntentReplay` | the constructor's reading loop, line by line | `IntentJournal` |
| `AlpacaSubmit` | provider instances, file, broker, crashes | `IntentJournal` |
| `OrderContract` | the promise to callers and broker: send once, one at a time | - |
| `VolumeTrader` | daemon sessions, the provider as far as one symbol goes, broker, account | - |
| `SyncAdapter`, `WaveStream` | clock adapter and stream | - |
| `UnifiedRuntime` | the cycle, composed with clock and stream | both |
| `AuditJournal` | audit loggers, journal, CSV, crashes | - |
| `BoundedHistory` | the promise of the ring: the newest accepted samples | - |
| `DecisionEngine` | decisions, the ring, configuration changes | `BoundedHistory` |
| `RingQueue` | the promise of a ring: a bounded queue | - |
| `SpscRing` | both rings, their atomics one at a time | `RingQueue` |
| `ExportPlane` | shards, sequence locks, export thread, owner | - |
| `PluginRegistry` | threads that register, look up and create | - |
| `LiquidityRouting`, `PortfolioConstraints` | layers 9 and 11, stage by stage | - |
| `GovernanceFrame` | layers 10, 12, 13 and 14 over several frames | - |
| `ChartIntelligence` | registry, regimes, payloads, hints | - |
| `VolumeAdvisory` | volume and Fibonacci rules | - |
| `AdvisoryCycle` | advisories of a cycle by several callers | `VolumeAdvisory` |
| `RestServer`, `StreamServers` | threads of the servers | - |
| `VolumeOperator` | Python executor and its audit log | - |
| `KernelSession` | Python stream and runtime in one session | - |
| `MC*` | instances for TLC | |
| `*Proofs` | theorems | |

Modules that share no state are checked in one run as *worlds*: `world` is
chosen in the initial state, and a behaviour takes the steps of its own world
only, so a run is a set of separate instances and not a product.
`MCDecisionEngine` has twelve (engine, ring, export, registry, routing,
constraints, frames, charts, advisories, journal, tick, session),
`MCHostThreads` two (rest, stream), `MCAlpacaSubmit` two (submit, read).

### AlpacaSubmit, IntentJournal, IntentReplay

*Correspondence.* `log` is the file as a reader of the running system sees it,
`synced` how much of it is on stable storage, `dirSynced` its directory entry,
`lock` the flock. Per instance, `reserved` and `acked` are the table of
entries, `tail` is the number of lines the instance accounts for (in the code
`previous` and `bytes_written`), `locked` is `locked_out_`. A step is what lies
between two places where a crash or another process can intervene: each write,
each fsync, each message. `SubmitReserve` is everything `submitOrder` does up
to the write of its P line, including validation of the position limit, lookup
of the reference, `containsSymbol` and the capacity checks.

*Abstractions.* The SHA chain is the number of the line before (`prev`): a line
is where it was written or it is not. An order is its reference, symbol and
dollars, and stands for its fingerprint. The reading loop is one step in
`AlpacaSubmit` (`OpenExisting`, `OpenRejected`), because `IntentReplay` shows
that the loop accepts exactly the replayable journals and rebuilds their table.
After a power failure the file holds its synced lines and possibly more of
them, the last possibly torn. Mock mode returns before the journal; it, `cancelOrder`,
`flattenPosition` and `getAccountEquity`, which keep no state, are in
`VolumeTrader`. `reservedNotional` never decides anything once
`containsSymbol` has passed, so the check is on the order's own dollars.

*Runs.* `alpaca_submit` has two instances and five orders, chosen so that two
share a symbol, two a reference, three fit together and fill the table of two
entries, and one exceeds the limit; the file holds five lines, one less than
everything that can be written, so that the byte limit is hit as well. All six
kinds of fault are on. `MaxPosts` = 2 only keeps a broken variant finite: the
checked model never sends an order twice. The world `read` is `IntentReplay` on
every journal of up to three records after the header, whole or with one line
torn, overwritten or moved.

*Properties.* `AtMostOncePost`, `WrittenAhead`, `NoAmbiguityWhileOpen`,
`AcknowledgedWasAccepted`, `ExposureWithinLimit`, `JournalReplayable`,
`PostOnlyWhenResolved`, and `ImplementsContract`: to callers and broker the
provider is `OrderContract`, where there are no processes and no crashes.
`SubmissionSettles` is the liveness: a submission that has begun ends in an
acknowledgement, a lockout or the death of the instance.

*Fairness.* `Submitting` is weakly fair because `submitOrder` is sequential code
whose only wait has a transport timeout (which is `Unconfirmed`);
`BrokerReceives` is weakly fair in the sense that what was sent arrives or is
lost. Nothing forces a constructor to run or a caller to call.

*Violations.* `alpaca_direntry`: the constructor syncs the directory only if it
finds the file empty; a process that dies between header and directory sync
leaves a journal that everybody accepts and whose directory entry nobody ever
makes durable. A power loss then erases it and the order is sent again. The
theorems therefore assume `DirEntrySafe`: either fsync of a new file persists
its entry or the machine never loses power. Not stated as a property: replay
reads the page cache, so that after a failed sync an id may be returned that a
power failure takes back; and `acknowledgedId` accepts the id `-`, which the
reader refuses in an A line (the model's ids are ones the reader accepts).

### VolumeTrader

*Correspondence.* One daemon trades one symbol; `Start` is construction and the
checks of `main`, `Exit` its death at any point. The actions `Tick...` are the
returns of `processTick` in their order: unsound evidence, pending outcome,
unreadable equity, invalid advisory, and then an evaluated bar that waits,
holds, flattens or buys. `locked`, `brokerPending`, `orderKnown`, `side`,
`pendingSide`, `bars` and `peak` are `locked_out_`, `broker_pending_`,
`pending_order_id_`, `current_position_side_`, `pending_side_`,
`consecutive_bars_` and `peak_equity_`. A bar that buys at the broker ends with
the durable reservation; `Post` and the three outcomes of `submitOrder` follow,
with the broker, the market or death in between. `window`, `best`, `atBar` and
`alarmed` are history and influence nothing.

*Abstractions.* The provider is what the journal says of the symbol: nothing, a
reservation, an acknowledgement, or a torn line, which disables the next
provider. `AlpacaSubmit` is where this is shown in detail. A client reference is
a time stamp in nanoseconds and never repeats, so the lookup by reference finds
nothing. The advisory is any combination of its flags except growth under
elevated risk, which it excludes; the size of an order is whether it comes to
one share; within the limit it always is. A session may be of any mode, and
sessions of different modes may follow one another.

*Bounds.* An account of 94, 97 or 100 dollars under a limit of five percent: one
step down is no breach, two are, so the peak matters. A hysteresis of three
bars leaves room for a signal that changes half way. `MaxSent` = 2 keeps a
broken variant finite; the checked model never sends a second order.

*Properties.* `AtMostOneOrder` over all sessions; `UnknownOutcomeStops`;
`OrdersJustified`: an order is begun only after a full window of bars that
asked to buy, in a session that has seen no fault, no unusable evidence and no
drawdown from the highest equity it read; `LockoutFlattens`: a simulated
position is gone once a full window of bars was evaluated after an alarm.
There is no liveness: `main` processes five bars and ends, and a host owes the
daemon no bars.

*Violation.* `volume_breach`: at the broker an acknowledged order stays pending
for the rest of the session, and such bars return before the account is read.
A filled position is carried through the drawdown limit without the lockout and
flattening that README.md promises.

### UnifiedRuntime, SyncAdapter, WaveStream

*Correspondence.* `setup` is what the host attached to the engine: metrics,
meta-governance, stress state, clock, stream and two configuration flags. It is
chosen once. `sequence`, `time`, `status`, `mode`, `ready`, `escalated`,
`total` are fields of state and metrics; `permitted` and `frozen` are the
advisory's. `FailClosed` is the cycle that finds a kill switch, a replay or
invalid evidence, `Weigh` any other cycle. Between two cycles clock and stream
take any steps of theirs. `latched`, `spent` and `broken` are history for the
properties and influence nothing.

*Abstractions.* Confidence, risk and factors are left out; of the execution
scale only whether it is above zero (`muted`) is kept, which is what
authorizes. `"invalid"` is any evidence that is not a number in its bounds. The
evidence is chosen anew in every cycle, because the layers that make it are
functions of inputs the runtime does not control. Cycles are one at a time: the
engine calls the runtime outside its mutex, so a host that shares an engine
between threads is outside this model (a hazard). A host that attaches no
metrics gets a fresh cycle counter of zero in every cycle, which switches the
replay guard off; the properties about ticks are stated for hosts with metrics.

*Bounds.* `MaxIndex` = 3 plays the largest `uint64` for the cycle counter and
tick index, and `MaxSigned` = 3 the largest signed value: every counter meets its end after a
few steps. Protocol confidences 10000, 7000 and 4500 lie above, between and
below the code's thresholds; two gaps are as good as any number, as the code
only asks for more than zero.

*Properties.* `LockLatches` (a fault denies until the explicit reset as long
as no meta-governance state is attached), `CursorAdvances`, `NoTickSpentTwice`,
`StreamFaultFreezes`. `unified_latch` violates `FaultsLatch`, which is what the
release notes and a test comment say of every runtime: with a meta-governance
state, milder evidence overwrites the lock and takes readiness from that state.
`NoTickSpentTwice` excludes what follows from that: an engine that has latched
beside a meta-governance state can authorize a tick again, since a replayed tick
moves the cursor back before it is judged (`aille_unified_runtime.cpp:65`) and
milder evidence then lifts the lock (`:114`, `:178`). Without the exclusion TLC
finds exactly this. Until a fault latches, and always where no such state is
attached, no tick authorizes twice between two resets of the engine.

### AuditJournal

*Correspondence.* A record is the chain of the decisions it covers, so its
length is the decision id and its prefix is the previous hash. `file` and
`disk` are the journal as read and as durable, `entry` its directory entry.
`Look`, `OpenFile`, `Lock...`, `Write/SyncHeader`, `SyncDir`, `OpenCsv` are the
system calls of `open` in their order, including that `fstat` comes before
`flock`; `LogWrite`, `LogSync`, `Export` are those of `logDecision`.
`journalled` is history: the records of which a caller was told that they are
in the journal.

*Deployments.* The world `journal` of `decision_engine` covers four deployments: one logger with
every fault; two loggers with I/O errors and power failures; one logger with a
file system whose fsync leaves the directory entry alone; two loggers in front
of a CSV from before journals existed. They are separate because the code does
not survive their product: that is what `audit_race` shows. There the second
logger took the size of an empty file before it waited for the lock, the CSV of
the first one failed, and the second begins the journal again over a record
that is durable and confirmed. A third combination, a death between creation
and directory fsync with a file system that does not persist entries, loses
the journal like the intent journal's in `alpaca_direntry`; no deployment has it.

*Properties.* `JournalledKept`, and `JournalWhole`: the journal can be replayed
up to an item that is torn at its end; the trail of an open logger is what the
journal holds; the rows of the CSV are durable records in the order of their
ids, and a CSV from before the journal is never extended.

*Bounds.* Limit 12, header 1, record 4 and margin 2 stand for 64 MiB, 19, 256
and 32 bytes: two records fit, and the formula of `logDecision` and the limit
of `open` disagree by an off-by-one exactly as they would at full size. Two
decisions are enough for chains that differ. A successful fsync makes the whole
file durable. The CSV keeps whole lines of a prefix.

### DecisionEngine, BoundedHistory

*Correspondence.* `values`, `confidences`, `head`, `count` are the ring;
`UpdateRing` is `updateFallbackBuffer`, `Repack` the copying in `setConfig`,
`FallbackValue` is `getFallbackValue`, `Consensus` is `checkConsensusFast` with
`Median` the element `nth_element` leaves in the middle. The configuration is
a record, initially of any kind (the constructor does not validate) and later
only one that `validateConfig` approves. A shut gate (kill switch, hardware
fault, unified runtime) is an outcome that may always occur.

*Abstractions.* 1.0 is `Unit` = 10, confidences and percentages are integers,
means are rounded down. Signals are -1, 0 or 1, whose hundredfold saturates
`tanh`. The faults of a signal (not a number, range, age, future) are one flag.
`engine_mtx_` makes each call a step; the gates are read before the mutex is
taken, so a decision may be valid although a gate was shut while it waited.

*Bounds.* The buffer has three slots, windows are 1, 2, 3, 5 (clamped to the
buffer) and an invalid 0; every pair of successive windows occurs, with every
position of the head. Up to four models are passed, of which a configuration
admits three: both parities, a tie, a duplicate, a fault and confidences in the
grace range occur.

*Properties.* `ImplementsHistory`: the ring implements `BoundedHistory`.
`FallbackReadsHistory`: the first `count` slots, over which the fallback sums
whatever the head is, are just the retained samples. `EnvelopeHolds`: every
returned position is within the limit in force, fallbacks included.
`MajorityDecides`: a decision follows the majority of the admitted models, and
under a threshold above one half never follows half of them.

### AdvisoryCycle, VolumeAdvisory

*Correspondence.* `CycleOrder` is the order of `evaluate_unified_advisories`:
nine assets, volume, anomaly, macro, stabilizer. `at` is how far each caller's
cycle is; one step is one evaluator. `advisories` holds the weights that macro
and stabilizer scale in place; `killed` is `SafetyState`. `seen` is history.
`VolumeAdvisory` is `evaluate_volume_state` and `compute_fib_advisory` as
operators.

*Abstractions.* Weights are ten-thousandths and other fractions hundredths, all
rounded down; the constants are the code's. The impulse integral of the
micro-ticks and the covariance behind the macro dampening are inputs. Six
commodities share one body as they do in the code. An evaluator is atomic; the
assignments inside it are not told apart.

*Properties.* `AdvisoriesSettle`: with one caller at a time each weight is, after
a cycle, the asset's own times each layer's factor once, whatever earlier cycles
left there, or zero if a stop was seen on the way; the volume weight moves by
0.15 at most or a stop took it to zero; Fibonacci signals do not contradict each
other, and where the volume advisory recommends nothing by itself they add
nothing but what rounding leaves, one ten-thousandth. `advisory_race` violates the first
part with two callers. The Fibonacci advisory's changes of
`recommended_weight` (line 174 of `aille_volume_advisory.hpp`) are overwritten in
line 206, which the model follows.

### ChartIntelligence

*Correspondence.* `fns` and `active` are the registry, `modifier` the regimes of
the cycle before, `payloads`, `stressScore` and `hint` what a cycle draws from
them, with the payload of a wave stream listed first or last. A host observes
one reading after another, and registers and activates indicators in between.

*Properties.* `RegimesFollowCrossings` states each regime over all readings ever
seen: entered and not left since. The code keeps only the last regime and three
branches each. `ChartsAgree`: payloads, hint and score of one cycle do not
contradict each other. The readings lie on both sides of every threshold.
The pattern of a pennant, by its thresholds, never occurs.

### LiquidityRouting, PortfolioConstraints, GovernanceFrame

*Correspondence.* Each models a call of the layer's function stage by stage, a
loop that changes state turn by turn: a book's surplus flows asset by asset
(`RouteNext1`), then is clamped per asset (`ClampAssets`) and scaled for the
portfolio (`ScalePortfolio`); proposed allocations pass exposure
(`ClampExposure`), sector (`CapSector`), correlation (`JoinPair`,
`DampenClusters`) and risk (`EnforceBudget`) limits. A frame passes layer 10 (`ReconcileGovernors`), 12
(`EnforceConsistency`), 13 (`OverrideStress`) and 14 (`ApplyLock`), and what it
leaves is the history of the next.

*Abstractions.* Integers for floats, rounded toward zero; lists that the code
searches for a first match are functions. Layer 11 is an input of the frame,
since its result only reaches layer 14 as two numbers. The Lyapunov damping
multiplies by threshold/energy, a sum over phase angles, so the model leaves any
integer from zero to the value. Which assets the host lists with a past is open
in every frame (`held`): the others are drifted from nothing and cannot be
frozen. The list is the same for layers 12 and 13 of one frame. A stress index is
calm, over half of its threshold or over it.

*Bounds of the frames.* Two assets, two frames, nine proposals that together
have every governor, repeated, missing, flagged and severe; a drift of 8, so that
a value of 9 is clamped and one of 5 is not, and three stress states that freeze,
dampen and fall back besides the calm one.

*Properties.* `RoutingWithinLimits`, `ConstraintsHold`: at the end, every limit of
every stage holds. `FramesGoverned`: a compliance block leaves nothing, a severe
risk score and a liquidity limit bound the value; a frame that is ready moved no
more than the lock allows and, in a crisis, holds no more than crash factor and
baseline leave. `routing_shift` violates `AssetShiftBounded`, what the
architecture page says of the net change of one asset.
The portfolios hold shorts, a chain of correlations and repeated sectors. Not
stated: the override takes the mode of the rules and lets milder indices
replace a crisis there by a stress, and its freeze compares signed allocations,
so that a short may grow; no text says otherwise.

### PluginRegistry, ExportPlane, SpscRing, RingQueue

*Correspondence.* `PluginRegistry` has two threads at one name, with the mutex,
and a factory that runs while it is held. A factory that uses the registry
(`Reentrant`) would never return; those of the repository do not, so the
instance has none. `ExportPlane` has the loads and stores of
`recordDecision` and `getAggregatedSnapshot` one at a time, and the export
thread with its owner. `SpscRing` has those of both rings, `counted` choosing
between wrapped and counting indices.

*Abstractions.* Atomics take effect in program order, which is stronger than what
relaxed loads and stores between the two halves of a sequence lock promise on a
weakly ordered machine. A shard has one writer (`ShardsApart`): with two, an
even sequence may stand while a write is in progress, and the code leaves
it to its callers to use their own core ids.

*Bounds.* A ring of two slots and indices modulo eight wraps within a few items;
two cores of which one is out of range and goes to shard 0; a stream of one.

*Properties.* `SnapshotsAddUp`: each exported snapshot counts every decision in
the total and in one class, and none is older than the one before.
`ImplementsQueue`: both rings are `RingQueue`. `FirstRegistrationStays`.

### RestServer, StreamServers

*Correspondence.* `RestServer` has every step between which another thread can
come of `start`, `startAsync`, `stop`, destructor and `runServer`, with the
three flags, the lifecycle mutex and the worker thread; `http` is the library's
server object, which may begin to serve, fail for good (and be decommissioned), be
stopped, or throw, which leaves it neither running nor decommissioned. The owner
destroys it only when no other thread is in a call other than a blocking start
that has reached `runServer`. The public `join()` is modelled where `start` and
the destructor call it, not as a call of the host: it takes no mutex, and a host
that calls it beside another operation has no order to rely on. `StreamServers` has
the WebSocket server, the gateway and the dashboard: they differ in the order of
their steps, which stands as data (`SpireStop` and so on). What the library does
with a loop that was halted or has nothing left to do is external. A greeting of
the gateway is counted (`CountGreeting`) and then sent frame by frame without the
mutex (`Greet`); a broadcast takes the mutex (`LockConnections`) and is sent frame
by frame to every connection (`SendFrame`, `FinishSend`). `view` is what the
library was given to send to a client since it connected. A send that fails leaves
a frame out, which no property could notice.

*Bounds.* Two callers and one worker; two starts, one client, three cycles that
are counted, of two frames each (`Parts`; six in the code): a first and a last
frame with something between them. Past three the gateway greets without counting.

*Properties.* `ServerObjectSafe`, `ShutdownEnds`. `StopEnds`: stop and the
destructor end, unless the state is `Abandoned`: the listener has thrown before a
caller in `wait_until_ready` saw it run, and that caller spins with the lifecycle
mutex in its hand (`aille_rest_api.cpp:297`, `:352`). This is a defect of the
code; no text of the repository promises otherwise, so it has no violated run of
its own. `CyclesAdvance`: the greeting and the broadcasts each come in order and
have no cycle in common, and all frames that are older than a greeting's frame before
them are of one cycle, the one that was being sent when the greeting was counted.
Newer cycles may overtake a greeting between any two of its frames, so the numbers
a client sees do go back again and again. `observer_deadlock` violates `CallbackReturns`:
the dashboard joins its event loop with the mutex in its hand that handlers and
the engine's callback wait for.

*Fairness.* `RestFairness` and `StreamFairness`: every thread runs (weak), and a
mutex that is free again and again is granted to a waiter in the end, and the
event loop turns to what is ready (strong). Nobody has to call, connect, leave
or fail.

### VolumeOperator, KernelSession

*Correspondence.* `executor` is the state `process_tick` stages (position, pending
side, bars, lockout, peak, counter), `auditLog` the lines of trades, with
`known` as history: `log_audit` returned. A tick is one step, under its lock;
it succeeds, fails with its line written or not, or raises for a number of
shares that has no exact value. `KernelSession` has callers that run the
pipeline of stream and runtime operator, each operator under the execution lock
and others in between, and callers of the runtime alone; `channelOf`, `cursor`
and `stamped` are `_channels`, `_last_input_sequence` and `_last_timestamp`.

*Abstractions.* One wave channel; of a unified cycle only its freeze. Evidence is
validated before anything is staged. A torn line records no trade: that a
later line is then appended to it makes the log unreadable for a program,
which the repository does not have.

*Properties.* `BookMatchesLog`: position and counter are what the known lines say,
and a line whose tick failed is the last one and the executor is locked.
`FramesActedOnOnce`: whatever callers claim and however pipelines interleave,
frames are taken once and in order, a broken channel stays broken, none is acted
on twice or without having been taken whole, and ids and times are served once.
A frame whose cycle fails has been taken and is lost: a retry finds it late.

## 3. What the runs show

| run | result | shows |
|---|---|---|
| `alpaca_submit` | holds, 13784 states | submission is safe under every fault, implements its contract and ends; the reading loop is exact |
| `alpaca_direntry` | violated | a lost directory entry lets an order go out twice |
| `volume_trader` | holds, 16725 | one order, none in doubt, none unjustified, closed after an alarm |
| `volume_breach` | violated | a filled position is carried through the drawdown limit |
| `unified_runtime` | holds, 69375 | cursor, ticks, latch and freeze |
| `unified_latch` | violated | a fault does not latch beside meta-governance |
| `decision_engine` | holds, 509299 | the twelve worlds around one decision |
| `audit_race` | violated | a second logger begins the journal again |
| `routing_shift` | violated | flows that meet in one asset pass its bound |
| `advisory_race` | violated | two callers scale one weight twice |
| `host_threads` | holds, 44713 | servers stop, free nothing in use, and keep what they stream in order |
| `observer_deadlock` | violated | a stop of the dashboard blocks the engine's callback |

The worlds of `decision_engine` and their properties:

| world | properties |
|---|---|
| engine | `ImplementsHistory`, `FallbackReadsHistory`, `EnvelopeHolds`, `MajorityDecides` |
| ring, export | `ImplementsQueue`, `SnapshotsAddUp` |
| registry | `FirstRegistrationStays` |
| routing, constraints, frames | `RoutingWithinLimits`, `ConstraintsHold`, `FramesGoverned` |
| charts, advisories | `RegimesFollowCrossings`, `ChartsAgree`, `AdvisoriesSettle` |
| journal | `JournalledKept`, `JournalWhole` |
| tick, session | `BookMatchesLog`, `FramesActedOnOnce` |

`CHECK_DEADLOCK FALSE` stands where a part really ends: routing one book,
registering within the bounds, a destroyed server. A constructor that
has read its journal rests (`JournalRead`). Each property of a holding run has a
mutant in `PROJECT.json`: a plausible bug in a mapped definition under which TLC
finds the property violated. The mutated forms stand in the modules before the
definitions they replace, as comments say, and are used by nothing else.

*Bounds.* Two actors wherever actors race, since the code has no operation that
involves a third; limits (table of entries, bytes, ring, registry slots) small
enough to be hit; counters at their end after a few steps; and every threshold
with readings on both sides. Where a bound cuts a behaviour off it stands in
the module with the word "bound".

## 4. What is proved

Every theorem is for all values of the constants that satisfy the named
assumptions of its module (`OrdersAssumption`, `CapacityAssumption`,
`SubmitAssumption`, `JournalsAssumption`; `AuditAssumption`; `WidthAssumption`,
`ConfidenceAssumption`, `StreamAssumption`, `RuntimeAssumption`;
`EngineAssumption`; `RingAssumption`; `ChartAssumption`; `RegistryAssumption`;
`AdvisoryAssumption`; `TraderAssumption`; `TickAssumption`, `SessionAssumption`; `RestAssumption`,
`StreamServerAssumption`; `ExportAssumption`, `ShardsApart`, `StatusesCounted`;
`FrameAssumption`, `PortfolioAssumption`, `RouteAssumption`: what the layers'
validation lets through, over finitely many assets),
which TLC evaluates on the instances.

- **`AlpacaSafetyProofs`**: `TypeCorrect` and `JournalStaysReplayable` hold with
  any faults. Under `DirEntrySafe`: `SentAtMostOnce`,
  `SentIsWrittenAhead`, `OpenMeansResolved`, `AcknowledgementIsTrue`,
  `SendsOnlyWhenResolved`, `ExposureIsLimited` and `Refinement` (the provider
  implements `OrderContract`). None of the properties is inductive. `IInv` says what
  an instance may rely on at each place of `submitOrder`: who holds the lock is
  up; the table of an idle, unlocked instance is what the file records; at
  `post` the order is durable and conflicts with nothing that was sent; at
  `await` everything else that was sent is acknowledged; what is acknowledged
  in the file was accepted once. Steps of others keep it because they cannot
  hold the lock, and a power failure because synced lines survive. The exposure
  is a sum over a set with at most one element: orders in one symbol conflict,
  so `SentAtMostOnce` bounds it by one notional, which construction bounds by the
  limit. The replayable journal needs the writers' places again: a line is only
  appended to a replayable journal by the holder of the lock, who re-read it.
- **`AlpacaSafetyProofs`**, the reading loop: `ReplayExact` and `ReplayTable`.
  The invariant is the usual one of a loop: the lines read so far are replayable
  and the table is what they record; a rejection exhibits the line that no
  writer leaves.
- **`AuditJournalProofs`**: `AuditInvariant`, `JournalStaysWhole` and
  `ReportsSurvive`, for deployments that are `Sound`. The open judges the journal
  empty before it has the lock, and syncs the directory only then, so the code
  relies on its surroundings: with several loggers nothing keeps a CSV from
  getting its first line (no failing CSV, no kill), an old CSV meets no power
  failure, and the directory entry lasts because `fsync` of a file persists it,
  or no power fails, or a single logger is not disturbed while it creates the
  file. TLC finds that each of the 64 other kinds of deployment breaks one of the
  two properties, so the hypothesis is no stronger than needed. The invariant
  ties the chain in a logger's memory to the items of the file, and those to
  what is on disk, at each place of `open`, `logDecision` and `close`.
- **`VolumeTraderProofs`**: `TypeCorrect`, `OneOrderEver`, `PausedInDoubt`,
  `AlarmFlattens`, `EveryOrderJustified`. The properties about bars are stated
  on the window of the last bars, while the code keeps a number; `Streak` ties
  them: `bars` is the length of the run of `pendingSide` at the end of the
  window, and maximal. `Alarms` says that an alarm locks and that a bar with an
  alarm asked for nothing, `Closed` that a confirmed request to close leaves no
  simulated position, `OneOrder` what the journal knows at each place of
  `submitOrder`. `DaemonKeepsContract`: all sessions together implement
  `OrderContract` for the daemon's symbol. The contract has the one order the
  journal admits, and an id counts as returned once a journal holds it; the
  places of `submitOrder` in `OneOrder` say why an acknowledgement never
  precedes acceptance and is never overwritten.
- **`FinanceKernelProofs`**: `BookIsLog` for the Python volume executor and
  `FramesOnce` for its stream and runtime. Both compare a state with a log of
  all that was done; the invariants say how far the log may be ahead: by one
  line whose tick failed and locked the executor, by one frame that was accepted
  and not yet acted on.
- **`LayerProofs`**, layer 19: `RuntimeTypes`, `LatchHolds`, `CursorHolds`,
  `TicksSpentOnce` (with the exclusion above), `StreamFaultHolds`. `IInv` adds to the types `Latch` (a
  latched runtime without meta-governance is neither ready nor permitted),
  `CursorCovers` (until something latches the cursor is at or past every spent
  tick) and `Scarred` (the status of a broken channel is not healthy).
- **`LayerProofs`**, layers 10 and 12 to 14: `FramesStayGoverned`. Each stage has a
  lemma on the number it leaves (`LiquidityBounds`, `ReconciledObeys`,
  `DampingObeys`, `OverrideBounds`); `FramesBegin` and `FrameStepKeeps` carry them
  from layer to layer and frame to frame.
- **`LayerProofs`**, layer 11: `ConstraintsAlwaysHold`. The invariant says of each
  stage that has run that its limit holds, and of each turn of its loop. It is
  kept because every stage only moves allocations toward zero
  (`ShrinkingKeeps`), and a sum that is scaled by its cap stays within the cap
  although each term is rounded (`ScaledWithin`). Assets that correlation
  connects have one label: a pair joined stays joined, and a group with two labels
  would be torn at a pair (`ConnectedShares`).
- **`LayerProofs`**, layer 9: `RoutingStaysWithinLimits`. The accumulator
  `target_inflows` is the sum of the flows into an asset as long as flows are
  found (`OneMoreFlow`); after that they only shrink (`SmallerFlows`), and the
  inflow caps are not looked at again.
- **`DecisionEngineProofs`**, the engine: `RingInvariant`, `FallbackSound`,
  `RefinesHistory`. The strengthening is `Packed`: a ring that is not full
  starts in slot 0. It is what makes the fallback, which sums from slot 0,
  right; `setConfig` must repack, not only move the head, to keep it. The
  refinement maps the history to the slots from the oldest to the head and
  compares them index by index, with one lemma on `%` around a ring.
- **`DecisionEngineProofs`**, what is decided: `EnvelopeAlwaysHolds`,
  `MajorityAlwaysDecides` and `EngineTypes`. Whatever is signalled,
  the median exists (`MedianSplits`), the signals that agree with it are the larger
  side (`AgreeingIsTheLargerSide`), and their weighted mean has that side's sign
  or is zero (`DirectionOfTheLargerSide`); the types need that a mean of
  confidences is a confidence (`MeansAreShares`).
- **`FoldTheorems`**: what the others cite about sums over finite sets. A
  fold of the community modules is a recursive function behind a `CHOOSE`; that
  there is one (`FoldExists`) and one only (`FoldUnique`) is shown by least
  counterexamples (`LeastNatural`, from `WFMin`) instead of an induction theorem,
  with sets in place of predicates. `LibrarySum` connects
  `SumFunctionOnSet` with them; the `Sum...` lemmas say what adding
  an element, a larger term or a bound does. The last lemmas give functions on
  intervals that are defined step by step, and the greater of two numbers.
- **`DecisionEngineProofs`**, its environment: `RingsAreQueues` (`SpscRing` implements
  `RingQueue`, for any capacity and any width of the two indices that are
  compared after they wrap; the producer's stale copy of the tail only hides free
  slots), `RegimesAreLatched` (each of the three regimes is a latch between
  two thresholds, over all readings ever seen) and `FirstFactoryStays`.
- **`DecisionEngineProofs`**, charts: `ChartsAlwaysAgree`, for any readings and any
  registered indicators. The invariant, `ChartsTold`, says that payloads, stress
  and hint are what the code makes of the newest reading and the regimes.
  What is left is arithmetic between scores that are computed with different
  weights, floors and factors, one lemma for each pair that might disagree.
- **`DecisionEngineProofs`**, advisories: `RacingCallersStayCalm` for any number of
  callers, and `AdvisoriesAlwaysSettle` for one. `CycleInv` says how far what was
  seen, the volume weight and a stop have got with the callers on the way;
  with several callers an advisory is as good as the slowest of them. Weights that
  are scaled in place have no such invariant (`advisory_race`), so
  `WeightsSoFar` belongs to one caller: it follows each weight through the thirteen
  steps of a cycle. That a weight is scaled once, and that the volume weight moves
  by its drift, holds for the rounded numbers of the model, with a lemma for each
  rounding. `StopReachesAll`, stated beside the proof, is what a stop that
  lasts for a cycle leaves of the weights.
- **`HostThreadsProofs`**: `RestServerSafe` and `RestStopSafe` (who holds the
  mutex and which flags are up decide at which lines the listener thread may be),
  `CyclesAdvanceAlways`, and `SnapshotsAreSound` for the export plane. `CycleInv`
  treats a greeting and a broadcast alike: what is left to send follows what was
  sent from the same place, and the two numbers differ; the one cycle that may come
  late is the one that is built when a greeting is counted, because what is built
  later is newer. The last theorem reads counters while they are written. Its invariant holds the values of
  each shard at every even sequence number; what the reader has added up so far
  is the sum, along the shards already read, of values at sequence numbers not below
  those of the snapshot before. A lemma gives each finite set of shards its path
  of partial sums, by a least counterexample again.

Only model-checked: `SubmissionSettles`, `StopEnds` and `ShutdownEnds`, because
liveness under fairness is out of the prover's reach. Every other property of a
holding run is a theorem, with the hypotheses named above: `DirEntrySafe`,
`Sound` deployments, `ShardsApart`, and one caller for `AdvisoriesSettle`. A
property of a violating run has no theorem, of course.

## 5. What is left

1. *Engine under threads*: the gates of `makeDecision` before the mutex as steps
   of their own, over shared metrics.
2. *A weaker memory model* for the sequence lock, which is now read and written
   in program order.
3. *Advisories under threads*: the assignments inside an evaluator as steps of
   their own, which would only add to what `advisory_race` shows.
4. *Volume daemon*: what a restart forgets (peak equity, lockout), about which
   the repository promises nothing.

Numeric scoring, decoding of market data and of requests, dashboards and
simulations stay outside: they have no control that a model checker would say
more about than a unit test. So does the store of the latest membrane result,
where one of two requests may overwrite the other's excitation: it is a display
value that every request rebuilds.
