# qubit-agent: TLA+ models, checks and proofs

This directory holds TLA+ models of the parts of qubit-agent where concurrency,
failure and ordering decide whether the program is correct, the TLC
configurations that check them on small instances, and proofs, checked by
TLAPS, of theorems that hold for every size. Paths below are relative to the
repository (`src/` in `PROJECT.json`); "the core" is the Rust workspace under
`crates/`, "the host" the Bun program under `src/`.

Run a model with `tlc -config TurnServe.cfg MCTurnCore`, a proof with
`tlapm OrderExecutionProofs.tla`.

| module | what it is |
|---|---|
| `TurnCore` | the turn engine and everything that shares a turn's state |
| `TurnService` | what the core promises to subscribers of its event bus |
| `TurnCoreProofs` | theorems about `TurnCore`: types, permits, the orphan signal, no zombies |
| `TurnOutcomeProofs` | theorems about `TurnCore`: outcomes, recovery, `TurnService` |
| `OrderExecution` | order intents, risk review, execution passes, broker, pause |
| `OrderService` | what order execution promises to whoever placed an order |
| `OrderExecutionProofs` | theorems about `OrderExecution`: types, dispatch, review |
| `OrderSettlementProofs` | theorems about `OrderExecution`: submits, final statuses |
| `OrderServiceProofs` | `OrderExecution` implements `OrderService`; its books, fills and lifecycle |
| `BracketOrders` | an entry order with its held legs, their triggers, OCO |
| `OcoGroup` | what a bracket promises |
| `BracketOrdersProofs` | theorems about `BracketOrders` |
| `WorkflowRuns` | the status of a workflow and everybody who writes it |
| `WorkflowRunsProofs` | theorems about `WorkflowRuns` |
| `AgentInvocation` | a tool batch that hands work to other agents; the cancel token |
| `AgentInvocationProofs` | theorems about `AgentInvocation` |
| `MCTurnCore`, `MCOrderExecution`, `MCBracketOrders`, `MCWorkflowRuns`, `MCAgentInvocation` | model values, prices and symmetry for TLC |

## 1. Inventory

qubit-agent lets an LLM agent research and trade. The host owns workflows, the
database, the tools and the execution of orders. It starts the core
(`qubit-app-server`) as a child process and talks to it over JSON-RPC and
server-sent events; the core runs *turns* (a bounded loop of model call and
tool batch) and calls back into the host through an HTTP bridge to run tools.

### The core (Rust, `crates/`)

| component | state | operations | what is hard | what makes it correct |
|---|---|---|---|---|
| turn engine `engine.rs` | the session's active turn, iteration, plan | run a turn, fail it, heal an orphan, pause it for a human | several callers fail or heal the same turn while it runs | one outcome per turn; a turn at rest stays; announced after persisted |
| supervisor, registry `supervisor.rs`, `cancel_registry.rs` | permits, in-flight count, tokens | acquire, drop, register, cancel, remove | error, cancel and crash paths all end a turn | permits conserved; what health reports is true |
| turn task, boot `ports.rs` | spawned tasks | start, join, cancel, fail, recover at boot | kill -9 between any two writes | no mid-flight turn without a task; orphans healed once |
| store, checkpoints `store.rs`, `core_db.rs`, `checkpoint.rs` | sessions, specs, plans, checkpoint rows in SQLite | write-through, hydrate, save, list | two tables written one after the other | row and session agree at rest |
| HITL inbox `hitl_inbox.rs` | items and their status | enqueue, list, respond | two answers at the same time | one answer accepted |
| invocation `invocation.rs` | child sessions and turns, invocation records | invoke, deadline, cancel | a deadline, or the ceiling of the batch, drops the child's run where it stands | record and child turn agree; every call returns |
| trigger ingress `trigger.rs` | event ids seen | ingest | the same event delivered twice | one turn per event |
| tools, bridge `tools.rs`, `bridge_host.rs`, `stall.rs` | batch results, stall counters | invoke a batch in order, time out, cancel | late answers, partial batches | one result per call, in order |
| cancel token `cancel.rs` | flag, waiters | cancel, wait | lost wake-up | a waiter of a cancelled token returns |
| event bus `events.rs` | ring buffer, sequence | emit, subscribe | slow subscribers | |
| models, context, delivery, policy, protocol, app server | none that lasts | I/O and pure translation | | |

### The host (Bun, `src/`)

| component | state | operations | what is hard | what makes it correct |
|---|---|---|---|---|
| core client, orchestrator `runtime/prime/` | the wait for a turn | start, poll, watch for orphans, give up | timeouts that race with a late end | every wait ends; no live turn is killed |
| order intents, review `order-intent-service.ts` | intent, task, ticket | create, approve, reject | three tables, no transaction | nothing sent unreviewed; final stays final |
| execution worker, dispatcher, poll `runtime/execution/` | task, broker rows, fills, retries | pass: expire, poll, dispatch, retry | passes of several workers at once; lost answers; restarts | one dispatcher per task; one live order per intent; fills booked once |
| trading control, cancel `runtime/trader/` | pause switch | pause and sweep, resume, cancel | races with dispatch | nothing the broker holds is called off silently |
| conditional, bracket, OCO `conditional-order-service.ts`, `bracket-order-service.ts` | held children, triggers, siblings | create, activate, trigger, call off siblings, amend | passes that overlap while one of them waits for the broker | no leg before the entry; no sibling survives a filled leg |
| workflow state, cancellation, HITL `runtime/workflow/` | status, latch, requests | start, message, stop, pause, approve, resume | late runs after a stop; a crash between two statements | a stop lasts; nothing claims to run that nobody runs |
| compensation queue, restore `compensation-queue.ts`, `restore-running-workflows.ts` | queue rows | enqueue, process, restore | crashes, retries that are not due | one retry pending; an interrupted workflow is retried |
| scheduler, message queue | cron ticks, messages | | | |
| A2A bus, agent pool, CLI loops | task messages, agents | assign, answer, reconcile | stale tasks | every task answered |
| research program | attempts, leases | claim, run, complete, expire | a lease that expires under a runner | one runner per attempt |
| REIA, strategy, risk gates, portfolio, TCA, market data, factors, backtests, memory, skills, LLM gateway, MCP, monitor, routes | mostly numbers and texts | | I/O and numerics | out of scope |

They interact by JSON-RPC (host to core), HTTP (core to host), one SQLite
database each, and, inside the host, by awaited calls between services.

**What a step is.** The host's database is `bun:sqlite`, which is synchronous
(`src/db/sqlite/client.ts:5`, `:66-77`): an `await` on it gives way to promises
that are already settled, not to a timer, a socket or another request. Two
activities of the host interleave where one waits for the outside world: the
broker, the core, a file, a timer. `BracketOrders` and `WorkflowRuns` take steps
from one such wait to the next. `OrderExecution` takes one step per awaited
statement, which allows every behaviour of the coarser steps and more, and shows
that what it promises does not depend on the database being synchronous. A
crash, on the other hand, comes between any two statements that are not in one
transaction, and all models with crashes have it there. The core is
multi-threaded: there each access to shared state is a step.

`PROJECT.json` lists every component with its status and the hazards that the
models are for, each at its line.

## 2. TurnCore

**State.** `active[s]` is the session's `active_turn` (memory and SQLite are
written together), `cp[t]` the state in the checkpoint row, `inbox` the turns
with a pending row. `pc`, `view`, `iter`, `why` are the locals of
`run_turn_scoped`; `task` is the spawned task that joins it; `proc[c][t]` is a
`fail_turn`/`heal_orphan_turn` under way for caller `c` (the task, the
`turn.fail` and `turn.cancel` handlers, recovery). `registered`, `token` are the
registry, `avail`, `activeTurns` the supervisor, `log` the events sent, `host`
what the orchestrator is doing about the turn.

Nothing makes a turn wait for the one before it: a second message of a
conversation starts a turn on the same session while the first one's runs
(`conversation-turn-service.ts:517`, `ensure-core-session.ts:32`,
`ports.rs:306`). `Admit` therefore asks for a permit and nothing else, and turns
overlap in every run of the model. Two runs then write one row, and a run that
rereads it (`engine.rs:919`) may take the other turn for its own. Two history
variables, which no action reads, keep what the properties need to tell such
turns apart:

- `contested`: turns that a run read back in the place of another, both of them,
  and turns the host had failed while their run went on. From then on two writers
  hold one turn for their own, and nothing the code promises of the turn's outcome
  is true of it: what happens instead is in section 9. Two turns that overlap
  without that reread (one ends without a tool batch, or the other writes first)
  are not contested.
- `met`: turns that had another turn of the session beside them, working or left
  in the middle. Only `OwnIdentity` leaves them out.

**Actions.** One per awaited statement:

| actions | code |
|---|---|
| `Admit`, `Register` | `try_acquire`, `start_turn_abortable`, whatever runs on the session |
| `RunAccept` … `RunEmit` | `run_turn_scoped`, `raise_hitl` |
| `HealRead`, `FailRead`, `FailSet`, `FailCheckpoint`, `FailEmit` | `heal_orphan_turn`, `fail_turn` |
| `TaskJoin` … `TaskDropPermit` | the joining task and the drop of `TurnPermit` |
| `CancelRpc`, `CancelReturn` | `cancel_turn` |
| `HostObserve`, `HostTimeout`, `HostGiveUp` | `awaitTurnTerminal`, `runOrchestratorViaCore` |
| `Crash`, `BootFail`, `BootReturn`, `BootDone` | kill -9, `recover_on_boot` |

The model's answer, the tool batch, context assembly and the recipe lookup are
choices among their outcomes. A turn is cancelled by the host at most once and
timed out at most once (`CanCancel`, `CanTimeOut`), the process dies at most
`MaxCrashes` times.

**Fairness.** Tokio polls every task that can go on; a model call and a tool
batch end by their own timeouts, so `RunStep` is weakly fair; the host polls a
waiting turn every second. Starting, cancelling and giving up are not fair.

**Runs.**

| run | bounds | shows |
|---|---|---|
| `TurnServe` | 2 turns on 1 session, 2 permits, 1 iteration, one cancellable; fair | a task that is gone left its outcome in the row; a run reads back its own turn; a wait ends unless the turn was replaced; every permit comes back; `TurnCore` implements `TurnService` |
| `TurnCrash` | 2 turns, 2 iterations, 2 crashes, one cancellable | one outcome per turn; orphans with a row healed; a turn at rest not overwritten; announced after persisted |
| `TurnTimeout` | 2 turns, 1 iteration, one may time out, the other be cancelled | permits and counts balance, the orphan signal is sound, no zombie |
| `TurnPauseLost` | 2 turns, 2 crashes | *violation*: recovery overwrites a paused turn with an older failed one |

Two turns are what the hazards need: one that ends and one that follows it on
the session, or two that overlap, and then one that takes the other's row for its
own. One iteration has a batch with its reread and the limit after it; the second
one, in `TurnCrash`, has a run that goes on writing, and is cancelled, after the
reread. Two crashes reach a crash during recovery. Deadlock is not checked: the
system is idle once every turn has been used.

`WaitEnds` has an exception because the code has it: `awaitTurnTerminal` accepts
only the session's active turn (`rust-core-client.ts:308`), so a turn that
another has replaced in the row by the time its own task is gone (`Replaced`) is
polled for until the deadline.

The abstraction to `TurnService` maps what the subscribers have been told: a
turn is running from its start event to its one outcome, at most `Limit` at a
time; the mapping is checked with liveness (a turn announced is a turn reported).
`TurnService` names its two exceptions: a crash interrupts what ran, and an
interrupted turn is reported failed at most once, by the next boot; a contested
turn is `unclear` from then on.

**Proved** (`TurnCoreProofs`, any number of turns and sessions, any limit, any
number of crashes): `TypeCorrect`; `PermitsAccounted`; `OrphanSignal`;
`WithinLimit`. The inductive invariant is `TypeInv /\ Accounts`. `TypeInv` adds
to `TypeOK` that a run about to announce holds an outcome (otherwise the log
would be ill-typed) and that what runs belongs to a session. `Accounts` adds to
`PermitAccounting` that `registered` is exactly the set of turns whose task can
still write, and that a task exists only after its turn was registered: without
it a turn could be admitted twice. Each action of `Next` has its lemma; those
that change neither set are dealt with in one.

`NoZombie`, in the same module, holds until the first crash, also for a host that
gives up on turns (`[](crashes = 0 => MidFlightHasTask)`). The property is not
inductive: runs overlap on a session, a run that rereads the session takes
the other's row for its own, and the turn that the row names may have no task any
more. What is inductive is that a mid-flight row has somebody who is bound to put
it to rest (`RowsBound`): a run that has not come to its last write, or a
`fail_turn` of its task that has not yet made up its mind. Such a task lets go
only by writing a state at rest or by finding one. A crash between the first
write of a turn and its first checkpoint leaves a row nobody heals, so the
condition is needed.

`TurnOutcomeProofs`: `OutcomeOnce`, `CheckpointedAtEnd`, `SettledKept`,
`SavedFirst`, `RecoveryComplete`, `IdentityKept` and `ServiceSafety` (the refinement to
`TurnService` without its liveness). None has a condition on the constants: turns
overlap, the host gives up, the process dies as often as it likes. None of the
properties is inductive. The invariant has layers.

- `Base` holds of all turns: which places of run, joining task, `fail_turn` calls
  and host are possible together (`Stages`), that recovery fails one row at a time
  (`OneRecovery`), and that a row names a turn that was started on its session, and
  a run writes under its own name or, contested, under that of another contested
  turn (`Rows`).
- `TurnInv(t)` holds of a turn that is not contested. It has one writer (`OneWriter`:
  its run, then its task's `fail_turn`; a cancel handler or recovery only when no
  task is left). Another turn may take the session's row from it at any time, but
  nobody else writes the row in its name, and `Stored` says what its writer finds
  there if the row is still its own. `Saved` is what its checkpoint row and the
  inbox hold at each place of the run, and `Told` that whoever may still announce
  an outcome finds none announced. Whoever acts for another turn `u` leaves
  `TurnInv(t)` alone because it writes only in the name of `u`, unless both are
  contested; the step that makes them so is the reread.
- `Heals` adds to `Base` what recovery still has to do, for `RecoveryComplete`. It
  holds of contested turns as well.
- `Apart` and `Parked`, for `IdentityKept`: of a turn that was never in company no
  other turn of the session is at work, and what is parked in the row beside it is
  at rest and its own.
- `ServeInv` adds `Announced` (the first event of a turn is its start) and takes
  from `TurnCoreProofs` that a turn that runs holds a permit, so that every event is
  a step of `TurnService`.

## 3. OrderExecution

**State.** One intent has one task, as in the schema. `task`, `life`, `ticket`,
`retries`, `cooling` (a retry time in the future), `row` (broker orders in
insertion order, each with the broker's number) and `fills` are the database.
`broker[o]` is what the broker holds, one status per submit it accepted.
`phase`, `at`, `todo`, `cur`, `verdict`, `tries` are the locals of a pass;
`creator`, `review`, `cancel` the progress of the requests; `enabled`,
`pauser`, `sweep`, `victim` the pause.

**Actions.** One per awaited statement:

| actions | code |
|---|---|
| `CreateIntent` … `CreateTask` | `createOrderIntentWithExecution` |
| `ReviewRead` … `ReviewLife` | `approveRiskReviewTicket`, `rejectRiskReviewTicket` |
| `CancelRead` … `CancelRow` | `cancelTraderOrder` |
| `PassScan`, `PassNextSweep`, `PassExpire` | the sweeps of `processExecutionTasks` |
| `PassPoll`, `PassAsk`, `PassAskFails`, `PassFill`, `PassRow` | `pollPendingBrokerOrders` |
| `PassAcquire`, `PassMark`, `PassGate` | `processOneTask`, the gates |
| `PassSubmit`, `PassInsert`, `PassRefuse` | `executeWithPolicy`, `dispatchLiveBroker`, `dispatchBuiltinPaper` |
| `PassTask`, `PassLife` | what a pass writes at the end of its work on an order |
| `Pause`, `PauseScan`, `PauseCancel`, `PauseLife`, `PauseReturn`, `Resume` | the pause route |
| `BrokerMove`, `RetryDue`, `Crash` | the broker, the clock, a restart |

The ways a pass can end its work (`Verdict`) are listed once with what they
write (`TaskOf`, `LifeOf`). The passes are concurrent: the worker's tick does
not overlap itself, but the trader, REIA, rebalance and strategy workers call
`processExecutionTasks` directly.

**Fairness.** Pending promises run, timers fire, a worker starts pass after
pass; asking the broker is strongly fair (a broker asked again and again
answers). Nobody has to create, review, cancel or pause.

**Runs.**

| run | bounds | shows |
|---|---|---|
| `ExecPasses` | 1 live order, 2 passes, 2 retries, 1 lost answer, an approval, a user's cancel | one dispatcher per task; submits bounded; final stays final |
| `ExecPause` | 1 live order, 1 pass, 2 attempts × 2 retries, pause, restart, reviews | at most one live order per intent while no answer is lost; nothing sent unreviewed; implements `OrderService` |
| `ExecBooks` | 1 live and 1 paper order, 1 pass, a user's cancel; fair | every broker order is on the books; each fill booked once; task and lifecycle agree; filled is backed; a ready task settles |
| `ExecDuplicate` | 1 lost answer | *violation*: two live orders for one intent |
| `ExecCancelTooLate` | 1 cancel | *violation*: an order at the broker although its cancel was confirmed |

Intents do not share rows, so one order reaches every interleaving of the
actors on it; a second order in `ExecBooks` makes a pass carry more than one
task, and mixes paper with live. Two passes are the first number that can
overlap. Two retries reach a retry and a giving up.

`OrderService` has one status per order and one fact, whether the broker holds
an order for it: nothing the broker holds is retried, given up or called off
without its word.

**Proved** (`OrderExecutionProofs`, any orders, passes, retries, attempts, lost
answers, pauses, restarts): `TypeCorrect` (with it `retries <= maxRetries`);
`OneDispatcher`; `ReviewedBeforeSent`. The inductive invariant `TypeInv` has
five parts: types; where a pass can be and with which verdict (`PassOK`); that a
task under dispatch has one owner, says so, and is polled by nobody (`OwnOK`);
that it has a retry left (`RetryOK`, which `TypeOK` needs); that nothing happens
to a task before it is created (`CreateOK`). `OwnOK` needs the exception that
the code has: a user's cancel overwrites the status of a task under dispatch.
For the review, `ReviewOK` extends the property to tasks that are ready or
under dispatch and to the passes that own them. Every part is preserved action
by action; the lemmas are grouped by part.

`OrderSettlementProofs`: `SubmitsAreBounded` under every fault of the model: the
owner of a task has submitted, beyond `MaxAttempts` per retry on record, no more
than its attempts so far (`QuotaOK`). `FinalIsFinal` has no restriction either:
the property names the one write that takes a final status away, a cancel that
found no broker row and updates the task whatever it has become. A poll writes to a task that another
poll may have ended in the meantime; what keeps the status is that both heard the
same: the broker's final answer for the first row does not change, so a status
that a poller finds final is what its own verdict will write (`PollOK`). A cancel
at the broker is one more such answer, and leaves the task alone. That
needs every row to carry a number the broker knows (`IdOK`).

`OrderServiceProofs`, until an answer is lost (one is enough for a second order,
`ExecDuplicate`): `OneOrderPlaced`, because the broker has rejected whatever was
submitted for a task that is not under dispatch, or whose owner has not submitted
yet or was refused (`LiveOK`). `ServiceImplemented` is about whole behaviours and
assumes `MaxLost = 0`, and `CanCancel = {}` as well. The refinement needs to know what stands behind a
verdict (`BackedOK`): a task is only called filled if the broker filled it, and an
order that is refused while it is polled is the only one that counts, because a
first row is still `submitted` only if whatever else the broker holds is rejected.

The same module proves what the books say. Each theorem carries the condition
under which it holds, as a formula on the state where the state shows it (the
counts of lost answers, pauses and restarts never fall, so the theorem speaks of
the behaviour up to the first one); TLC finds a counterexample without any of the
conditions.

- `FillsAreBacked` (`FilledIsBacked`) and `PaperOnce` (a paper order is filled at
  most once) need no condition. For the first, a pass that has heard of a fill
  finds one at the broker, and has booked it before it writes the task
  (`FilledAt`). For the second, the owner of a paper order that has not booked
  yet finds no fill (`Unbooked`), and a task with a fill is not dispatched again.
- `AllOnBooks` holds until an answer is lost or the host restarts: what the
  broker has answered for is on the books or in the hands of the pass that will
  insert it. An order whose answer is lost is never inserted, and a restart
  between the submit and the insert forgets it.
- `FilledOnce` assumes one pass and holds until the host restarts. The invariant
  `FillsOK` counts: the fills of an order are at most its rows that name a filled
  order of the broker and are no longer to be booked (`Booked`: not open, and no
  pass stands between the answer and the fill). No two rows name the same order,
  so these rows are no more than the broker's fills (an injection). Two passes
  that hear of the same answer, or a restart between the fill and the close of
  its row, book it twice.
- `LifecycleIsTask` assumes one pass and holds until somebody approves, pauses or
  restarts (`Calm`). Task and lifecycle are two writes; between them the actor
  that made the first knows what the second will be (`LifeAt`). A second pass, an
  approval or a pause makes its second write over what another actor has written
  meanwhile, and a restart between the two writes leaves them apart.

## 4. BracketOrders

**State.** `task`, `life`, `active`, `stop`, `open` (orders with an open ticket),
`retries`, `cooling` and `row` are the database, one entry per order of the
bracket; `broker[o]` is what the broker holds for each row. `at`, `stage`,
`todo`, `cur` are the locals of a pass: which of its sweeps it is in, the list
it read when the sweep began, and the order it waits for the broker about.
`enabled` and `pauser` are the pause, `cancel[o]` the user's cancel.

**Actions.**

| actions | code |
|---|---|
| `CreateBracket` | `createBracketOrder`, one transaction |
| `Review`, `Amend` | approve, reject and expiry of a ticket; `amendWaitingConditionalOrder` |
| `PassStart`, `PassPoll`, `PassAnswer`, `PassAnswerFails` | the poll |
| `PassConditional` | `processConditionalOrders` up to its first call of the broker |
| `PassSibling`, `PassCalled`, `PassCallFails` | its OCO sweep |
| `PassNext`, `PassAcquire`, `PassSent` | the due tasks, one after the other |
| `CancelOrder`, `CancelAnswered`, `Pause`, `PauseSweep`, `Resume` | the user |
| `BrokerMove`, `RetryDue` | the broker, the clock |

A leg with a stop price is modelled (`stop`, `stop_limit`); what it triggers on
is one of the prices in `Mark`, or none if there is no fresh one. An amendment's
check that the order has not changed since it was read uses the time of the pass
that changed it (`nowIso` is taken once per pass), so it is left to choice which
amendments get through. What a dispatch writes is one step before and one after
the broker's answer; its inside, and lost answers, are `OrderExecution`'s.

**Fairness.** As in `OrderExecution`: a pass that is not waiting goes on, asking
the broker is strongly fair, retries fall due, a sweep that has begun ends.
Nobody has to review, resume, amend or move the market.

**Run `Brackets`.** An entry and two legs, two passes, two prices, two tries per
order; the stop loss may need a review, may be cancelled and amended; one thing
goes wrong or is intervened (`MaxTrouble`: a failed submit, a pause, a cancel, an
amendment), and a failed submit may fail again. Two legs are a bracket; two
passes are what lets one pass record a fill while another waits for the broker;
two prices tell a trigger from no trigger on either side. With `MaxTrouble = 2`
the run exceeds five minutes.

- `LegsInOrder`: a leg is worked on only after the entry has filled and its own
  trigger has fired.
- `CalledOffIsOff`: what is recorded as cancelled is not open at the broker.
  For orders of which the broker refused no earlier submit: the sweep cancels
  the first row.
- `NoSurvivorAtRest`: once a leg has filled and no pass still has its last sweep
  before it, no sibling is left that a later price could start.
- `SiblingEnds`: every sibling of a filled leg comes to an end, also one the
  broker already holds.
- `ImplementsOcoGroup`: the bracket implements `OcoGroup`, in which the entry is
  decided once, a leg is armed by the entry's fill, works once, and ends once.
  Two transitions of `OcoGroup` are concessions to the code and say exactly how
  far it goes: a leg that was called off may turn out filled (the broker was
  faster than the cancel), and a recorded fill may be taken back, but only where
  another leg has filled (`FillForgotten`).

**Proved** (`BracketOrdersProofs`, any number of legs, passes, prices, tries and
interventions): `TypeCorrect`; `LegsAfterEntry`; `CalledOffClosed`; `NoSurvivor`;
`BracketImplements`, the refinement to `OcoGroup` for initial states and steps.
The inductive invariant `IInv` says, beside the types, where passes can be and
that what they poll, ask about or call off has been sent (`PassOK`, `PastOK`);
that an order is sent by one pass, which has a retry left for it (`SendOK`,
`RetryOK`); that rows and broker agree one to one, and that an order which is
still to be sent has only refused or cancelled rows (`RowOK`); that the lifecycle
shows a fill exactly when the task does, and an open ticket belongs to an order
nobody has touched (`FillOK`); that a fill on record is what the broker will say
to a pass that is asking (`HeadOK`); that a leg that was ever sent had its
trigger fired after the entry's fill (`LegOK`); and that the leg that filled first
is called off by nobody (`ChiefOK`). The notion under most of them is `Past`: once
an order is with the broker or ended, and nobody is sending it, that stays so.
`ChiefOK` is what the refinement needs: two legs may both be on record as filled,
and a sweep may take back the fill of one, but never of both. The other two
invariants extend `IInv`: `BrokerOK` relates the first row to the broker's order
for `CalledOffIsOff`; `LifeOK` and `SurvivorOK` say for `NoSurvivorAtRest` which
pass still has a sweep to make, and that what it read when the sweep began
contains every sibling that could start.

## 5. WorkflowRuns

**State.** `status` is `workflow_run.status`. `runs` are the dispatches to the
orchestrator, each with its place (`preparing`, `waiting` for the core,
`closing` with a verdict, `over`, `lost` in a crash) and its turn in the core;
`active` is the run whose turn the core's session shows. `heard` says who has
heard that the last dispatch or run left nobody at work: nothing was dispatched
yet (`new`), nobody has to (`sent`), the user has the error as an answer (`user`),
only the row of the queue has it (`row`), only the log of a restart (`log`), or
nobody at all (`nobody`). `message` and `stop` are
requests between two of their steps, `asks` the pending HITL requests, `comp`
and `tries` the compensation queue, `host` the process.

**Actions.**

| actions | code |
|---|---|
| `StartGoal`, `Message`, `MessageDispatched` | `createAndDispatchWorkflow`, `createConversationTurn` |
| `Stop`, `StopLook`, `StopCancel`, `SoftDelete`, `PauseGoal`, `Patch` | the routes, `cancelActiveCoreTurnForWorkflow` |
| `Approve`, `Reject`, `Resume` | `resolveHitlRequest`, `resumeWorkflow` |
| `StartTurn`, `Observe`, `GiveUp`, `Close` with `ProjectHitl` | `runOrchestratorViaCore`, `projectCoreAwaitingHitl` |
| `TurnWrites` | the core |
| `Watchdog` | `cancelInactiveWorkflows` |
| `Enqueue`, `Compensate`, `NotDue` | the compensation queue |
| `Crash`, `Restart` | the process, `restoreRunningWorkflows` |

Every write of the status but one goes through `Write` (`setWorkflowState` with
its latch); the exception is `Message`, as in the code. A crash is an action, and
an alternative inside `Approve` and `Compensate`, which commit a state before
they act on it. The native loop only, one action type and one reason of
compensation; times are choices: when the watchdog fires, when a retry is due.

**Fairness.** The process goes on with its runs and messages, is restarted after
a crash, and processes the queue it has just read; a wait for the core ends by
its deadline (`GiveUp`). The watchdog is sure to act only when no run is under
way. Nothing is asked of the core or of the user.

**Run `Workflow`.** Two dispatches, two queue rows, two tries, one stop (or
delete, pause, or status set by hand), one crash. Two dispatches are an old run and a new one; one crash comes at every
place of every step; a second row is what a second pending retry would need.

- `LimboAccounted`: when the process is up, a workflow that claims to be running
  or pending has a run under way, a message about to be dispatched or a retry in
  the queue, or the state is accounted for: nothing was ever asked of it, the
  user's own request failed before his eyes, or a row of the queue says that its
  tries are used up. In two ways, which the property names, the code loses a
  workflow without a trace: the dispatch of a restart throws, which is only logged
  (`restore-running-workflows.ts:149`), and a turn waits for an approval of which
  the inbox knows nothing (`run-orchestrator-via-core.ts:236`). The property says
  that there is no third: no crash between any two writes, no approval, no retry
  and no late run adds one. Left `running`, such a workflow is failed by the
  watchdog (`RunningEnds`); left `pending`, it stays so.
- `OnePendingRetry`: the deduplication of `enqueueCompensationTask` holds
  although rows change their status around it.
- `StopLasts`: the latch. The ways out are named in the property: a new dispatch,
  a write of `pending` while the process is up (a start, a queue task, the user by
  hand), a message.
- `RunningEnds`: nothing is `running` for ever.

**Proved** (`WorkflowRunsProofs`, any number of dispatches, rows, tries, stops
and crashes): `TypeCorrect`; `RetriesAreOne`; `StopIsLatched`;
`LimboHasACause`.
The type invariant contains that a run is closing exactly when it has a verdict
(the verdict is what `Close` writes) and that a task has failed exactly when its
tries are used up. `LimboHasACause` needs the state of a crash as well: `Limbo`
says what holds of a process that is about to process its queue, and that a
process that is down has no run under way, which is why the restart may take
every `running` workflow for an orphan.

Not modelled: the row that stands for live trading, which `trader-workflow.ts`
keeps `running` (`:88`, `:141`) with no dispatch behind it, so that nothing said
here about runs applies to it; the writes of `cancelled` to duplicate rows
(`trader-workflow.ts:70`, `session-workflow.ts:36`), which are those of
`SoftDelete`; and workflows created with `skipDispatch`, which stay as created
until the first message.

## 6. AgentInvocation

**State.** `at[i]` is where call `i` of the batch is, `rec[i]` its record in the
parent's session, `turn[i]` the child's turn in the child's session. `flag` and
`waking` are the parent's token between the two halves of `cancel()`,
`watcher[i]` the spawned task that carries the cancel to child `i`
(`childFlag[i]`), `missed` remembers who was in the gap between the test and the
registration of `cancelled()`.

**Actions.** `Open` to `Tell` are `handle_agent_invoke` and `invoke_registered`;
`ChildBegins` to `ChildErrs` what the child's run does to its own turn, as in
`TurnCore` but reduced to what the parent can see; `Answer` and `CutShort` the
end of `invoke_all` and the ceiling in the engine; `Cancel`, `Wake`,
`WatcherTests`, `WatcherRegisters` the token.

**Fairness.** Of the handler only (it is polled, and its timer fires). The
child may hang, the watcher may never run.

**Run `Invocation`.** Three calls: with two, waking one waiter and waking all
differ only when both watchers have registered; three also have a call whose
watcher outlives two others. Finished calls keep their watchers, as in the code.

- `ChildAccounted`: the record agrees with the child's turn, on every path, and a
  child turn is left in the middle only by a deadline, which the record reports,
  or by the ceiling.
- `CancelHeard`: a watcher that has registered hears of a cancel.
- `CallReturns`: a call returns, or the ceiling ends the batch.

**Proved** (`AgentInvocationProofs`, any number of calls): `TypeCorrect`;
`ChildrenAccounted`; `EveryWaiterWoken`. The inductive invariant for the records
says for each place of a call what its record and turn can be (a call that came
back with `returned` has a turn at rest, one at `error` may have any), the one
for the token that nobody is registered once the flag is set and the waking is
over, except who was in the gap.

## 7. What stays with TLC

Liveness and fairness (and with them `ENABLED`): `WaitEnds`, `PermitReturned` and
the reports of `TurnService`, `OrderSettles`, `SiblingEnds`, `RunningEnds`,
`CallReturns`.

Every safety property of the passing runs has a theorem. Some theorems hold only
under a restriction, which is in their statement: no cancel by hand
(`ServiceImplemented`), one pass at a time (`FilledOnce`, `LifecycleIsTask`), or the
time before the first crash, lost answer, pause or approval. The runs check the
properties within the same restrictions; without them TLC finds each of these
properties violated.

None of the proofs rests on an assumption other than those restrictions and the
named `ASSUME`s of the modules, which say that limits are positive, that bounds are numbers or subsets,
and that the null values are not orders or turns.

Every property has a mutant: a version of one definition changed as a plausible
bug would change it (a dropped guard, a forgotten write, an error ignored). The
mutants stand before the definitions they replace and are marked so.

## 8. Assumptions

- SQLite accepts every write, except that the checkpoint of a child's turn may
  be refused (`AgentInvocation`). In the core a write of the session and its
  write-through are one step.
- The session and the spec of a turn exist.
- A restart of the host is complete before the next pass starts; recovery of the
  core is complete before it serves requests (`main.rs`).
- The idempotency entry of a submit (15 s) has expired by the next dispatch (30 s).
- The scans' limits (10, 20 and 50 rows) exceed the number of orders.
- The gates of a live order are one outcome; so are those of the pre-trade risk.
- The paper account inserts its row as filled, and the broker never fills in part.
- One pause request at a time, one user's cancel per order.
- A bracket's stop prices are positive and its marks finite, as its validation
  and `evaluateConditionalTrigger` demand.
- One stop request of a workflow is on its way to the core at a time, and one
  message is between its status write and its dispatch.

## 9. Disagreements found

With a run: see the findings in `PROJECT.json` (`TurnPauseLost`, `ExecDuplicate`,
`ExecCancelTooLate`).

Met while modelling, without a run of their own. In the core:

- Turns of one session overlap, and a run takes whatever turn the row names after
  a tool batch for its own (`engine.rs:919`). It takes two messages, one after the
  other, and no timeout. From then on it writes and checkpoints the other turn and
  announces under its own: a turn that has completed goes back to `reasoning`; the
  row, the checkpoint and the event name different turns; the turn's own checkpoint
  stays mid-flight, and the next boot reports it failed as well.
- The host that waits for a turn never sees it end if the turn of a newer message
  has replaced it in the session's row (`rust-core-client.ts:308`), also not a turn
  that failed, although `fail_turn` is there "so Bun pollers do not hang until
  timeout" (`engine.rs:140`): the run of the newer turn writes its row over it.
- `fail_turn` reads the turn, tests that it is not at rest (`engine.rs:156`,
  "Already terminal — leave as-is.") and writes `failed` with the store unlocked
  in between: a run that ends in between has its outcome overwritten. It takes a
  `turn.fail` of the host, or a run that writes the turn as if it were its own; in
  `contested` turns, that is.
- A cancel during a tool batch ends as `failed`, not `cancelled`: the batch
  returns the error of the token (`engine.rs:759`) and the joining task fails
  the turn.
- A crash after `set_active_turn` (`engine.rs:398`) and before the first
  checkpoint leaves a mid-flight turn that recovery does not see; the host's own
  deadline has to find it.
- `cancel.rs:45` says that `cancelled()` "resolves when `cancel` is called"; a
  cancel between its test (`:48`) and its registration (`:51`) is missed, and the
  child of an invocation then runs to its own end or deadline. `CancelHeard`
  confines the miss to that gap.
- The task that watches the parent's token (`invocation.rs:125`) ends only when
  that token is cancelled: every invocation of a turn that ends by itself leaves
  one behind.
- The ceiling on a batch (180 s, `engine.rs:755`) drops an invocation that is
  under way, which two calls of up to 180 s each can reach: its record stays
  `running`, its child turn mid-flight, and its child token is never set.
- The durable inbox answers an item in separate statements (`hitl_inbox.rs:136`):
  two answers may both be accepted. The trigger records an event id only after
  its turn has run (`trigger.rs:100`): two deliveries run twice. Both follow from
  the sequence of statements alone.
- A call to the bridge that timed out is reported as retryable (`bridge_host.rs:147`)
  while it may still run in the host; a cancelled one may still run as well, but is
  not reported as retryable.
- A session is persisted after its lock is released (`store.rs:260`): two writes
  may reach the database in the other order.

In the execution of orders:

- A restart during a dispatch leaves the task `dispatching`; no code resumes it.
- A cancel at the broker marks the row `cancelled`, and the poll skips it: the
  task stays `waiting_ack`. Sim orders are never polled
  (`execution-dispatcher-poll.ts:20`), and after a refused submit the poll looks
  at the refused row (`:30`).
- Two polls at once, or a restart between the fill and the mark of its row, book
  a fill twice; `FillOnce` and `LifecycleMatches` are stated for passes one at a
  time.
- A sweep of the pause may cancel a task that failed after it reached the broker
  and came back for a retry, although `cancelPendingTradingWork` cancels "work
  that has not been sent to a broker" (`trading-module-control.ts:183`); this
  takes a lost answer, which `ExecPause` excludes.

In brackets:

- An entry that the broker rejects after it accepted it (`broker_rejected`), or
  that the user cancels before it was sent (the lifecycle stays as it was), leaves
  its legs `held` for ever: only `cancelled` and `rejected` release them
  (`conditional-order-service.ts:218`).
- Both legs may be triggered, be sent, and fill: siblings are called off only
  after a fill (`:305`). While a sweep waits for the cancel of a sibling (`:374`)
  another pass may record the sibling's fill, which the sweep then overwrites
  with `cancelled` in row, intent and task.
- The sweep, like the poll, takes the first row of the sibling (`:355-361`):
  after a refused submit it cancels an order that no longer exists and marks the
  task cancelled while the second order stays open at the broker.
- A sibling under review has the lifecycle `pending_approval`, which the sweep
  skips (`:323`): approved later, it waits for its trigger with no position to
  protect, until the next pass.
- A pause suspends the poll and the OCO sweep with everything else
  (`execution-worker.ts:219`): a leg that fills at the broker during a pause does
  not call off the other.

In workflows:

- `workflow-state-machine.ts:114` calls `setWorkflowState` the only entry that
  writes the status (唯一的 `workflow_run.status` 写入入口);
  `conversation-turn-service.ts:462` writes `running` directly, past the latch.
- The compensation queue writes `pending` and so revives a workflow that was
  stopped after its task was enqueued, although only an explicit new start is to
  lift the latch (`workflow-state-machine.ts:90`, `:137-143`).
- An approval after a stop leaves the status `cancelled` but dispatches all the
  same, and a stop while a run is being prepared finds no active turn to cancel:
  both times a turn of the core runs for a stopped workflow. The cancellation set
  and its abort signal, which could end it, have no consumer.
- After a stop and a new message the old run's verdict overwrites the status of
  the new run.
- `resumeWorkflow` of a workflow that awaits an approval leaves the request
  pending; approved later, it starts a second run.
- The timeout of an old run fails its turn in the core, which makes it the
  session's active turn again: a newer run whose turn ended unobserved is then
  not seen to have ended, and times out as well.
- A retry that failed is looked at again at the next restart or request only; one
  that is not due yet is what a restart's own retry is merged with, so that the
  workflow stays `pending` until the restart after. A task whose tries are used
  up leaves the workflow `pending`; one that a crash left `running`
  (`compensation-queue.ts:92`) stays so.
- Resuming and approving do not reset `startedAt`, which the watchdog's grace
  period counts from (`alert-service.ts:164-170`): a resumed run may be failed
  before its first step.
- A message whose dispatch throws leaves the workflow `running` until the
  watchdog finds it.
- A restart whose dispatch throws writes a line in the log
  (`restore-running-workflows.ts:149-154`) and leaves the status: a workflow that
  was `pending` stays so until somebody asks for it again.
- A turn that waits for an approval while the inbox shows no item ends its run
  without a request and without a write (`run-orchestrator-via-core.ts:236`): the
  status stays `running` until the watchdog fails it, and nobody is asked.

## 10. Not modelled

`PROJECT.json` gives the reason per component. In short: numeric code (factors,
backtests, risk formulas, trailing stops), I/O (connectors, MCP, LLM, market
data), storage of texts (memory, skills), pure translation (policy, protocol),
user interface and vendored content are outside what a model of states and steps
says anything about. They are most of the repository by lines. Of the code that
does coordinate, these are left out: the durable inbox and the trigger ingress,
which are a read, a test and a write each and do not keep what they promise
(section 9); the message queue, which nothing drains; the RPC that invokes an
agent outside a batch; the research runs' claim and lease; the A2A task table
beyond its dispatch; CLI loops.

## 11. What could follow

1. The inbox and the trigger, once their answer and their record are one
   statement: an item answered once, an event run once.
2. `TurnCore` with more than one session store write per step, for the order in
   which snapshots reach the database.
3. Research attempts: claim, lease and completion.
4. What remains true of the outcome of contested turns.
