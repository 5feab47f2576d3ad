# Verification of the AQE execution core

TLA+ models, model-checked instances and machine-checked proofs for the part of
AlgoQuant Engine that turns a strategy's decisions into orders at a broker and
turns what the broker says back into the strategy's beliefs, and for the pipeline
that carries its lifecycle events to the cloud. `PROJECT.json` maps
every modelling definition to the lines it translates; paths below are relative
to `src/src/core/`.

## The system

A strategy is one task, the *owner*. It keeps *insights* (trade ideas with a life
of their own), and every change it wants made at the broker is an immutable
*command* with an identity.

| Part | Source | State | Operations |
| --- | --- | --- | --- |
| command driver (owner side) | `strategy/command_driver.rs`, `execution_persistence.rs`, `execution_recovery.rs` | insights, pending commands, a suspended walk, a batch in flight | enqueue, capture, commit, acknowledge, dispatch, reduce, prune, stop, recover |
| command worker | `broker/command_worker.rs` | two bounded channels, two parking slots, timers, entry gate | take, preflight, acquire, dispatch, poll, save, deliver, reconcile |
| command journal | `broker/command_journal*` | durable command records, execution phase | prepare, mark_dispatched, defer, complete, confirm, apply |
| account lane | `broker/command_worker/account_lane.rs` | one permit per account, two waiting queues | acquire, wake, drop |
| entry capacity | same file; `broker/snapshots.rs` | three reservation ledgers, cached snapshots | observe, reserve, finish, settle; poll, publish, invalidate |
| order reducer | `strategy/order_reducer.rs`, `insight/insight.rs`, `insight/operations.rs` | an insight | accept, fill, partial fill, close, cancel, reject, replace |
| history reconciliation | `strategy/lifecycle_reconciliation.rs` | one read in flight | request, apply |
| MT5 bridge and terminal | `broker/mt5_b*.rs`, `src/integrations/mt5` | event queue, RPCs | report, answer, redeliver |
| live sync publisher, bus, agent | `live_sync/publisher.rs`, `outbox*`, `bus.rs`, `sync_agent.rs`, `embedded.rs` | two databases, a queue, a bus, the cloud's log | publish, reserve, split, replay, retire; accept, flush, send, commit, prune, seal |
| paper broker, pipelines, UI | elsewhere | | see *Not modelled* |

The owner hands commands to the worker over channels. The worker alone owns the
journal and polls the broker, and holds the account's permit while it does. Its
completions return over a bounded channel; the broker's own reports and history
come back by other ways, in no fixed order with them.

What makes this hard: crashes between a durable mark and the call it announces;
answers that never come although the order exists; a stop that arrives anywhere;
bounded channels between tasks that wait for each other; snapshots that are old
when they are used; reports that are late, lost, repeated or overtaken; a walk over
live data that is suspended between turns; two databases with a lossy bus between.

## Modules

* `AccountLane` - `active`, `waiting`, stored wakeups and each task's position.
  Actions are the two ways of `acquire`, a woken poll, and the two `Drop`s.
* `CommandJournal` - the transitions of one record, as guarded operators.
* `CommandWorker` - the task `run`. A step ends where the source awaits something
  another party can see: a commit, an answer, the gate, a channel. The owner may
  do what the sender API and the driver's rules allow (`OwnerStep`): a command is
  enqueued once per process life, and a stop is completed with nothing pending.
  The process crashes and restarts, and the broker acts on what was transmitted
  whether or not anybody waits.
* `EntryCapacity` - the ledgers, with pollers whose request, answer and
  publication are separate steps, one snapshot cache per strategy, one symbol.
* `OrderReducer` - one insight, its order at the venue, and the four sources of
  evidence: the venue's events, events the adapter makes from RPC answers, the
  answer of the submission, and history. `Adapter` selects cumulative reports in
  one queue (as the paper broker sends them) or the MT5 terminal's reports.
* `CommandDriver` - the owner. An insight is its ticket, its cleanup flags and its
  pending mutations. A turn of `advance_execution_persistence_with_budget` is one
  action that advances the walk by its budget; the commit of its batch, the
  acknowledgement, the dispatch, the answer and the application of a receipt are
  actions of their own, and a crash may fall between any two. `Restart` rebuilds the
  owner from the saved rows as recovery does, including what recovery refuses. The
  worker is reduced to what it does with the journal and with completions: the lookup
  of an uncertain cancellation and its repetition end in one step, acknowledged or as
  uncertain as before, and giving a command up after the last delay
  (`command_worker.rs:252`) or attempt (`:1084`) is a surprise, after which the teardown
  deadline (`aqs_ops.rs:2088`) ends the process with the stop unfinished (`GivenUp`).
  A history variable, `interrupted`, records what has fallen in a suspended walk; it
  restricts no step.
* `EventDelivery` - critical events from `publish` to the cloud. The publisher
  worker collects a batch, reserves it group by group (splitting a group that is
  refused), publishes, waits, retires payloads and replays; the agent stores what
  the bus brings, flushes rows in sequence, and acts on each answer of the cloud
  (commit, reconcile after a conflict, bisect an invalid batch, dead-letter, back
  off, pause, refresh). Either process restarts from its database; messages,
  acknowledgements and answers are lost; rows are pruned; the run is sealed.
* `OrderedLog` - what the pipeline promises: entries are accepted at the end of a
  log, and what has been delivered is an initial part of it that only grows.
  `EventDelivery` instantiates it with the reservations in sequence order for the
  accepted entries and the cloud's entries for the delivered ones (`ImplementsLog`).
* `MCCommandWorker`, `MCEntryCapacity`, `MCOrderReducer`, `MCCommandDriver`,
  `MCEventDelivery` - instances for TLC. `EntryCapacity`, `OrderReducer` and
  `CommandDriver` take a set `Settings` of instances; a behaviour picks one in `Init`
  and keeps it, so that one run checks several kinds of venue, limit or family.
* `AccountLaneProofs`, `CommandWorkerProofs`, `EntryCapacityProofs`,
  `OrderReducerProofs`, `OrderReducerSettles`, `EventDeliveryProofs` - theorems. The last
  rests on `EventDeliverySteps` (the invariant, and a lemma for each action but the
  reservation); `FiniteSums` has induction over finite sets and lemmas about sums.

Operators named as a variant or a mutant stand before the definition they alter;
each is a plausible mistake that must break the property it is paired with.

## Runs

| Run | States | Shows |
| --- | --- | --- |
| `lane` | | one permit, exact and bounded queues, no lost wakeup, cleanup first and first come first served; queued requests are served or withdraw |
| `worker_safety` | 354,223 | an entry with its cancellation, an amendment or a close: started once, truthful journal, no refused transition, nothing lost, no entry after a durable stop, final outcomes, results saved before they are delivered |
| `worker_liveness` | | without failures every accepted command gets a durable result, and a requested stop becomes durable from every suspension point |
| `capacity` | 1,784,364 | no order of old, delayed or lost snapshots and answers passes the limit on orders, margin or symbol quantity; admission is all or nothing |
| `reducer` | | a venue with cumulative reports in parts, repeated and interleaved with the answer, and MT5, whose adapter's reports overtake the terminal's: the belief ends in agreement with the venue, closed trades stay closed, flags and receipts are consumed, and history makes up for lost reports |
| `driver` | | every saved state can be recovered, unless a batch failed while its walk was suspended; no batch is refused; an insight enters once, unless an insight was pruned that a suspended walk had yet to capture; an entry is dispatched only with all its ancestors durable and not cancelled, a completed stop leaves no order, and every saved stop completes |
| `delivery_safety` | 493,792 | the pipeline implements `OrderedLog`; nothing reserved is lost, commits and receipts are true, only a complete run is sealed |
| `delivery_liveness` | | every reserved event reaches the cloud, no payload is left without a replay, copies agree with their reservation |
| `capacity_fill`, `reducer_scale_out`, `delivery_conflict`, `driver_walk` | | the disagreements below |

### Bounds

Five workers with queues of three let a waiter be overtaken, abandoned and refused.
Channels of one place fill with the first command, so every send into a full one
occurs; two commands give each slot a competitor. One recovery attempt and one delay
are enough to exhaust both. Crashes of the worker are unbounded. `worker_safety`
explores a stop, or a withdrawn entry, with every failure for an entry and its
cancellation, and keeps entries open when the second command is an amendment or a
close; both restrictions are its constraint `CancelledOrManaged`. In `EntryCapacity`
two commands compete for room for one, and a clock of three instants separates a
poll before, at and after a completion. In `OrderReducer` a quantity of two gives a
part and a rest; losses and repeats are bounded by `maxLost` and `maxRepeats`.

`driver` has four instances. One insight with a crash, a surprise (a lost or refused
answer, a reconciliation that is given up, a failed commit, an unasked cancellation, an
order that ends by itself), streamed acceptances and a stop; its turns finish their
walks, or suspend them between the template of its child and itself. A parent with its
split child in turns of three steps, which end between the capture of the child and
that of the parent, across a crash, and across a stop. The pair in turns of two steps,
which end on the way to the child, with a crash and an order that ends. Each insight
has a spare submission, which it uses if it ever enters twice.

Every action of the model is the code's: a prune and a failed commit may fall in a
suspended walk, and both are flaws, described below. `interrupted` remembers that they
did. `RecoveryNeverRefused` makes no claim after such a failure, `OneEntryEach` none
after such a prune, and `StopCompletes` counts a refused recovery among what needs an
operator; the other properties hold through both. Without the conditions TLC
violates `RecoveryNeverRefused` in the first instance and `OneEntryEach` in the last.

`delivery_safety` has two events, one of which the cloud refuses as invalid, with
two contents and three publish calls, so that a batch can hold a retry, a conflict
and a split; a behaviour with all three calls has no crash and no fault, the others
may have one of each (`Budget`). The two contents are interchangeable, and symmetry
is used only here, where no liveness is checked. `delivery_liveness` has three events
published in order and one fault of any kind.

Larger instances passed as well and are too slow to keep as runs: the worker with
761,652 and 1,356,430 states (all four commands), the stream venue with a quantity of
three (858,324), the driver's first instance with two surprises (81,474), its pair with
any surprise (366,219) or with a failed commit and a crash (1,179,680), and the delivery
pipeline with 978 thousand, 1.43 million and 7.16 million states.

Deadlock is checked in `lane`, `worker_safety` and `capacity`; in the other runs a
trade, a delivery or a process comes to its end.

### Fairness

`AccountLane`: a woken task is polled and a permit is returned (the runtime
schedules ready tasks; the holder's broker call has a timeout). `CommandWorker`:
weak fairness for the task and for the owner's draining of completions; strong
fairness for the stop branch, which each `select!` polls first, and for the
snapshot, lane, host lock and first poll, which are tried again on each admission
tick. The last group is an assumption on the environment: an account that is never
fresh blocks its commands for ever. `OrderReducer`: the strategy drains its
queues, and history is read on a timer as long as the insight is active (strong
fairness: a failed read is repeated). `CommandDriver`, only while a saved stop is
unfinished, which is all that `StopCompletes` needs: weak fairness for the live
loop's polls, checkpoint turns, cleanup and shutdown, for the broker's answers, for
the reconciliation timer per kind of command, and for the restart of a process that
ended; strong fairness for dispatch, which the worker interrupts for reconciliation.
Nothing is assumed of new insights, stop requests, pruning or surprises.
`EventDelivery`: weak fairness for both tasks, for the bus, for the answer to a cloud
request (it has a timeout), and for each row's backoff deadline. Crashes, losses and
errors are bounded and never fair.

## Proofs

The theorem modules are checked by TLAPS for every value of the constants that
satisfies the named assumptions (`LaneAssumption`: finitely many workers;
`WorkerAssumption`: capacities are positive, kinds and targets are defined;
`DeliveryAssumption`: finitely many events, positive limits; `CapacityAssumption`:
finitely many submissions, natural amounts; `ReducerAssumption`: a positive quantity and
finitely many exit orders).

`AccountLaneProofs` proves `MutualExclusion`, `NoLostWakeup`, `QueuesCorrect`,
`QueuesBounded` and `GrantedInOrder`. The inductive invariant `LaneInv` is the conjunction of the
checked invariants: that the next waiter is woken is not inductive without the
queues holding exactly the suspended requests.

`CommandWorkerProofs` proves `WorkerTyped`, `DispatchedAtMostOnce`,
`JournalIsTrue`, `JournalNeverRefuses`, `StopIsFinal`, `OutcomesAreFinal` and
`DeliveriesAreSaved`. None is inductive alone. `WorkerInv` adds what a record says
about what was sent (`SentOK`), what the record must be at each place the task can
be in, for a first dispatch (`FirstOK`) and for the recovery of a cancellation
(`RetryOK`), that what is delivered was saved (`ResultOK`), and that the gate is
shut from the request of a stop on (`GateOK`). One lemma per stage of the task
shows that its actions preserve the invariant; `OneRecord` reduces a step that saves
one record to what is to be shown of that record.

Its second part proves `NoCommandLost`: the worker holds no command twice and none
that it accepted is lost. `PlacesInv` says that the two channels, the two slots and the
command in hand share no command and that each class has its own (`ApartOK`), that the slot
of the command in hand is empty wherever `run` may still put it back (`SlotOK`), that a
command with a reconciliation timer had a result and is in no channel (`TimersOK`), which is
why a retried cancellation meets no second copy of itself, and that what was accepted is
kept until it has a result (`HeldOK`). Its steps fall into those that move nothing
(`PlacesFrame`), take (`TakenPlaces`), put back (`ParkPlaces`) and put down (`PutDown`) a
command; that a result is never withdrawn comes from `StepKeepsFinal`.

`EventDeliveryProofs` proves `ReservedIsKept`, `HandoffsAgree`, `CommitsAreReal`,
`ReceiptsAreDurable`, the refinement `PipelineImplementsLog`, `SealedRunsAreComplete` and
`NothingIsStranded`. The inductive
invariant `DInv` adds to the four properties: the numbers given out are `1 .. cursor`,
each to one event (`Numbered`); what is about to be published is reserved (`Owned`);
each copy of the batch is rejected, reserved with its content, or in a group still to
be looked at (`Batched`), which is what makes a receipt true however often the batch
is split; the cloud has the first reservations with their contents (`CloudIsPrefix`);
an event of a batch being sent has a row or is delivered, and a batch answered with ok
is delivered (`CallsKnown`); and what was acknowledged is safe with the agent or the
cloud (`AckedSafe`), which is what lets a payload be retired. There is a lemma per
action; `PublisherKeeps` and `AgentKeeps` say what an action of either side has to
respect. For the refinement, a reservation of new events extends the log in the order
of their numbers, an answer of the cloud extends the delivered part by what it stores,
and every other action stutters (`OtherSteps`).

A sealed run is complete because no event that was offered drops out on the way to its
reservation: `SealInv` says that, unless an admission failed, each is reserved, with a
producer that waits for room, in the queue or in a group (`Accounted`), and that a worker
that has finished left nothing in any of these. A seal then finds every offered event
reserved, and with `NothingLost` and no row left anywhere every reserved one in the cloud.
`StrandInv` says of `publisher.db` that outside emergency mode every
pending payload is in the batch that is being prepared or published, or a failure was
noted that starts the replay. `NothingIsStranded` needs that an identity comes with one
content (`OneBody`): a conflicting retry in the batch of its event is what strands the
event in `delivery_conflict`. Both invariants were checked with TLC first, on the instance
of `delivery_safety` and on one with a single content and crashes.

`EntryCapacityProofs` proves `OrdersStayWithinLimit`, `MarginStaysWithinFunds`,
`UncertainIsAlwaysReserved` and `ExposureStaysWithinLimit`. That the limits hold now says
nothing of what an old snapshot will free, so the inductive invariant `CapInv` speaks of
every reading that was published or may still be (`Views`): unless the ledger has seen a
newer one, each order it misses is one the ledger still keeps when it observes the reading
(`Covers`). With it, what a ledger has observed and what it holds cover the orders that use
the limit (`Covered`), and those orders and the awaiting reservations fit under it
(`Budgets`). `Flights` says which submissions the broker can still act on. Observing a
snapshot, completing, settling and admitting each have a lemma on the ledger; a step of the
broker or a poll has one on the readings. The symbol limit is proved for settings in which
no order leaves the orders snapshot with a filled part (`OrdersRest`); `capacity_fill`
shows that it fails without that. The sums over sets of commands are the community
modules' `SumFunctionOnSet`, whose recursion `FiniteSums` unfolds.

`OrderReducerProofs` proves `BeliefAlwaysFollows`, `ClosedIsAlwaysFlat` and
`TradesAlwaysAdvance`, for any number of lost and repeated reports. The inductive
invariant `RInv` says of all evidence that is under way or may be repeated that it was true
when it was made and stays true (`Holds`): an entry report has no more than the venue
filled, an exit report no more than was closed under its order, and Closed means that
nothing is left. `ReduceFacts` says, arm by arm, what `reduce_broker_order` may make of an
insight; `StrategyFrame` and `VenueFrame` reduce a step of either side to what it believes
and what it reports. `ClosedIsAlwaysFlat` is proved where the MT5 terminal opens and
closes a position in one deal each (`WholeDeals`, which says nothing of the other adapter);
`reducer_scale_out` shows that it fails otherwise.

`OrderReducerSettles` proves `SettledAlwaysAgrees` and `FlagsAlwaysOutstanding`. That the
belief is the truth once all is reduced, and that no flag then waits for nothing, say nothing
of a belief that is behind. `SInv` does: as long as no report was lost, whatever the belief lacks is in the trade stream, in
the order in which it is needed. A pending entry that has filled has its fill in the stream
with nothing before it that would end it; one that was cancelled with a part has the last
part before the cancellation (`Awaits`); a cancelled or rejected one has its late fill
(`Dropped`); a position has the latest quantity of each exit order, and one that is gone its
Closed (`ExitsIn`, `CloseIn`). Order matters, because an exit or an end reduced too early is
thrown away: `Comes` and `Follow` say what may stand before a report, and `Later` and
`Sooner` what becomes of that when the venue appends a report and the strategy takes one. A
report may also reach the reducer past the stream, from an answer or from history, and
`HearLacks` shows that this leaves the stream sufficient. `Flagged` gives each flag a command
without an answer or an exit still to be reduced, and `Unbound` says when the receipt of the
submission can be taken. Both theorems are stated under `WholeDeals`, and both properties
except behaviours with lost reports (`Quiet`).

`CapInv`, `RInv` and `SInv` were checked with TLC on the instances of `capacity` and
`reducer` before they were proved, `PlacesInv` on that of `worker_safety`.

Only model-checked: everything about `CommandDriver`, whose inductive invariant spans the
walk over the tree, the batch, the rows, the journal and the worker, and all
liveness, which is outside this prover (`EndIsNoticed` of the reducer and `StopCompletes` of
the driver among others). The proofs about the worker take
the owner's rules from `OwnerStep`. `CommandDriver` checks the driver's side of those
rules over a reduced worker; the two are not composed in one module.

## Disagreements between code and comments

Each is a run whose property states what the quoted comment says and that TLC
violates; `PROJECT.json` quotes the lines.

* `capacity_fill` - an order that fills completely between the positions poll and
  the orders poll is in neither, and the symbol limit is exceeded.
* `reducer_scale_out` - the MT5 terminal reports every exit as Closed, so a
  scale-out ends the insight with a position left.
* `delivery_conflict` - a batch with an event and a conflicting retry of it: the
  loop after the reservation skips both by identity, and the accepted event stays in
  publisher.db without anything that would replay it.
* `driver_walk` - a walk that has descended into a child and is suspended there saves
  the parent's template when the child is pruned before the next turn. With a crash
  after it the child is entered a second time, which `OneEntryEach` excepts.

More are exceptions to what the passing runs show, without a run of their own:

* The batch with a child's row fails while the walk that captured it is suspended
  (`strategy/execution_persistence.rs:189`): the next batch saves the parent without
  the child and recovery refuses the graph. `RecoveryNeverRefused` excepts it.
* Under three generations a turn may end after the row of a materialised grandchild and
  before the first row of its materialised parent (`execution_persistence.rs:189`), whose
  row is still that of a template. Recovery after a crash refuses "materialized insight
  has a dormant parent" (`strategy/execution_recovery.rs:46`), although "restarting the
  same strategy/account must replay its work" (`strategy/live_execution.rs:2`). Nested
  splits exist (`pipeline/percentage_dca_levels.rs:24`). TLC finds it with a third
  insight; `RecoveryNeverRefused` is stated for two generations.
* A cancellation that is repeated from its journal record may be answered after the
  order's end settled it: `next_ready` takes the receipt for a conflict
  (`strategy/command_driver.rs:592`) and the strategy stops, while the comment at
  `broker/command_worker.rs:1070` expects a duplicate to be ignored. The run `driver`
  reaches this; the next process recovers and `StopCompletes` still holds.
* `filled_at` is the time of the reduction; when that is after the close at the venue,
  history is never believed (`strategy/lifecycle_reconciliation.rs:105`) and the
  insight stays Filled. `EndIsNoticed` excepts these insights.
* Each MT5 deal is reported as Filled with its own volume (`AqeMt5BridgeEA.mq5:4923`)
  and the second deal of an entry is ignored (`strategy/order_reducer.rs:145`). The
  MT5 instance has `partialEntries |-> FALSE`; with `TRUE`, TLC violates
  `SettledAgrees`.
* A cancellation whose acceptance was lost leaves the submission's receipt pending
  (`insight/operations.rs:169`), and with it the stop. `FlagsAreOutstanding` excepts
  behaviours with lost reports.
* The agent's row of a delivered event is pruned after a grace period
  (`live_sync/outbox.rs:1826`); a handoff repeated later than that becomes a new
  pending row with a number the cloud already has. `delivery_safety` allows it (`GraceCovers = FALSE`),
  `delivery_liveness` assumes that the grace period covers repeats.
* An uncertain entry amendment or replacement is neither scheduled for reconciliation
  nor settled by the order's end (`broker/commands.rs:216`), so its receipt, and a stop
  that waits for it, stay pending. `CommandDriver` has submissions and cancellations.
* An uncertain command beyond `MAX_COMMAND_RECONCILIATIONS`
  (`broker/command_worker.rs:211`) is not looked up again in this process. A submission
  that is confirmed after a restart of the worker settles the journal and not the
  reservation (`account_lane.rs:437`); uncertain reservations are kept until the table
  (`account_lane.rs:77`) is full. These err on the side of admitting too little.

These are traces of the models. They were not reproduced against a running
terminal; the terminal's behaviour is read from the adapter's source.

## Abstractions

Prices, commissions, identity comparison, SQL and encoding are left out, as is
floating point: quantities are small integers. Events carry the identity of their
insight. Answers to cancel and close commands are applied when they arrive, not
when a pipe next polls them. A venue action of `OrderReducer` and the broker of the
other modules are external: they do what the code must be prepared for.

## Not modelled

* A composition of `CommandDriver` with the full `CommandWorker`: the product is out
  of TLC's reach at a size where either is interesting. `OwnerStep` and the reduced
  worker of `CommandDriver` are the interface.
* Quotes, worker claims and the account-changed latch of the snapshot cache, and the
  order of the insight work queue: cleanup and admission depend on them only through
  the fairness stated above.
* Live sync: telemetry (the latest value wins, loss is intended), byte and disk
  limits, hosted controls, actions and the HTTP gateway.
* Operation groups, pipeline cursors, byte budgets and deadlines of the driver;
  dependencies of the recovery graph other than parent and child; legacy journals.
* Request correlation on the bridge's socket and single-flight reconnection.
* Fills, marks and analytics capture: append-only evidence no decision reads.
* The paper broker, pipelines, alphas, indicators and P&L are numeric code over
  floating point series. Storage, feeds, configuration, code generation, wire types
  and the UI are I/O or stateless; `vendor/` is third-party code.
