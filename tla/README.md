# Verification of the F&O trading bot

This directory models the bot of this repository in TLA+, model-checks it with
TLC and proves its main invariants with TLAPS. The reference is the Python code
under `src/app` and `src/ui`; every definition that models code is mapped to its lines in
`PROJECT.json`.

The bot buys single-leg options on the leads an LLM scan produces and sells
them again through stop-losses. It runs as one process: a Flask API, an
APScheduler with seven jobs, and one daemon thread per manual scan, all on one
SQLite database and one broker account that the user also trades by hand.
Nothing coordinates these actors but the database's write lock, the scheduler's
`max_instances=1` and a few module-level locks. That is where the difficulty is.

## 1. The system

| part | state | operations | correct when |
|---|---|---|---|
| trade tracker (`scheduler/trade_tracker.py`) | `trades` rows, in one session per tick | every 30 s and per open trade: sync the stop-loss, replace a dead one, follow drift, adopt, trail, reconcile, square off at the session end | a trade is never without protection for good, is closed once, for the right cause, and its floor never falls |
| trade service (`services/trade_service.py`) | `trades`, `trade_orders`, `fills` | create, close, square off, place/verify a stop-loss, trailing arithmetic | an exit sells no more than is held; the trigger is below the market |
| reconciler (`services/recon_service.py`, `scheduler/reconciler.py`, `POST /reconcile`) | `trades` | every 60 s or on request: close trades whose position is gone | only a position that is gone is written off |
| killswitch (`services/killswitch_service.py`, `api/killswitch_api.py`) | `killswitch` row, `trades` | activate, square everything off, release | no new order; every trade sold once |
| order placer (`scheduler/order_placer.py`) | `leads`, `trades` | every 30 s and per queued lead: pick, plan, BUY, wait, cancel, protect, verify, commit, mark | one open trade per underlying, none larger than its fills, every fill accounted for, every lead decided |
| lead jobs (`scheduler/lead_jobs.py`) | `_jobs`, `_active_id`, `_stop_requested` | submit, stop, finish, trim | one manual run, stops reach their job, every job ends |
| lead generator (`scheduler/lead_generator.py`) | `leads`, scan rows | reset the session, scan each instrument, store, cap | the cap holds, old leads do not mix with new ones |
| lead store (`services/lead_service.py`, `contract_service.py`, cleanup) | `leads` | store with a plan, blend, mark, delete | a lead is traded at most once; a plan is the nearest contract the margin pays for |
| broker adapter (`broker/upstox_broker.py`, `util/ttl_cache.py`) | read caches, rate gates | orders, positions, option chains | no read older than its TTL and the storing time, none from before an own order, quotes spaced, a restart keeps the login |
| LLM strategy (`strategy/llm_breakout`) | one conversation per instrument, the shared call statistics | agent loop with tools, validation, retries | every tool call answered, no repetition, bounded calls, an end and a decision, no invented statistics |
| scoring (`strategy/scoring.py`, `tier3.py`, `services/calibration.py`, `score_decay.py`) | `pattern_stats` | composite score, decay, calibration | the better lead ranks first; a record is the count of its trades |
| market calendar (`services/market_calendar.py`) | holidays, special sessions, the hours in `settings` | trading day, windows, session end, sync | no entry when the tracker would square it off |
| authentication (`auth.py`, `api/auth_api.py`) | users, refresh tokens, Upstox token | login, rotate, revoke, callback | no session costs another its login |
| database (`db.py`, `models.py`) | SQLite, WAL, 5 s busy timeout | `session_scope` | commit or rollback of the whole session |
| console (`ui/app.py`, `ui/api_client.py`) | `st.session_state` per browser session | generate, poll, recover, refresh and retry | a page shows its own job; Generate comes back |
| scheduler (`scheduler/manager.py`) | job table | start the seven jobs | one instance of each |
| instruments, drift log, health pages, scripts | rows, display | read and write | not decisive here |

**How they interact.** Every actor reads rows, talks to the broker for seconds
and writes rows back. A session keeps SQLite's only write lock from its first
flush until its commit, broker calls included; another writer waits 5 s and then
fails, and its whole session is rolled back although its orders are at the
broker. An UPDATE writes only the columns a session changed, and no version
column detects that somebody else changed the row. The broker fills, rejects and
cancels at any time; the user may sell the position or edit the stop-loss in the
broker's own UI. The killswitch and the lead jobs are entered from HTTP threads;
a browser session follows a job by polling, with tokens that expire meanwhile.
A scan runs one conversation with the language model per worker thread; the
workers share the call statistics, and all threads share the broker's caches.

**What is hard.** Interleavings of tracker, reconciler and killswitch on a row;
a fill between a look and a cancel; a read that fails and is taken for an answer;
an order the broker took although the call raised; a commit that is lost after
its orders were placed; a crash between the two commits of a placement; a stop
flag that outlives its job; an answer that is stored after it was
invalidated, or lost after the server acted on it; settings written key by key
under a running tick; and the promise that, in spite of all this, a trade
is protected again or closed. `PROJECT.json` lists each under `hazards` with its
line.

## 2. The modules

### TradeExit: how an open trade ends

State: `db` (the committed rows), `base`/`work` (the rows as the tracker's
session loaded them and as it has them now), `book` and `pos` (SELL orders and
units at the broker), `locked` (the write lock), `tk`, `rc`, `ks` (the place of
tracker, reconcilers and killswitch requests), `age` and `clock`.

| code | actions |
|---|---|
| `run_trade_tracker`, `process_trade` | `TickBegin`, `TickPick`, `TickSync`, `TickTrail`, `TickReread`, `TickCommit`, `TickBusy` |
| `_ensure_sl_or_sqoff`, `place_initial_sl`, `verify_sl_placed`, `place_defensive_sqoff` | `TickEnsure`, `TickVerify`, `TickScrap`, `TickDefend`, `TickSettle` |
| `_reconcile_position`, `_candidate_exit` | `TickPosition`, `TickCandidate` |
| `square_off` at the session end | `TickSqCancel`, `TickSqSell`, `TickSqClose` |
| `reconcile_open_trades` | `ReconList`, `ReconLoad`, `ReconHeld`, `ReconCandidate`, `ReconCommit`, `ReconBusy`, `ReconEnd` |
| `square_off_all_open_trades` | `KillList`, `KillLoad`, `KillCancel`, `KillSell`, `KillClose`, `KillBusy`, `KillEnd` |
| column-wise UPDATE of a session | `Merge` |
| broker, user, clock, process | `OpenTrade`, `Fill`, `Reject`, `UserExit`, `GrowOlder`, `EndSession`, `Crash` |

Every broker call is a step of its own. What may go wrong is the constant
`Disturbances`, at most `MaxDisturbances` times: a read or an order that raises,
an order that was taken although it raised, a failed cancel, a rejected
stop-loss, the user's own sale, the session end, the busy timeout, a crash.

### StopLoss: where the stop-loss stands

The price side of the same tick for one trade: the floor `current_sl` in the row
(`row` in the session, `db` committed) beside the triggers at the broker
(`book`). `InitialSl`, `TrailSl` and `NewSl` are `initial_sl_for` and
`compute_trailing_sl` with the rounding to ticks (halves to even) and the caps;
`TickDrift`, `TickAdopt`, `TickTrail` and `TickReread` are `drift_broker_sl`,
`adopt_external_sl`, the trailing rule and `_modify_sl_safely`. The user places,
edits and cancels stop-losses; `Crash` loses the tick's rows and not its orders.

### EntryPlacement: from a queued lead to an open trade

`run_order_placer` and `process_lead` beside the broker, the killswitch and the
deletion of leads. One action per broker call: `TickBegin` (killswitch, window),
`TickList`, `Pick` (the flush that takes the lock, `has_open_trade_for_underlying`,
and the plan, which may rule the lead out), `PlaceBuy`, `WaitForFill`,
`CheckEntry` and `CancelEntry` (`_safe_cancel_if_open`), `Protect`, `Verify`,
`Defend`, `CommitTrade`, `MarkPlaced` (the second session), `TickEnd`.
`GiveUp` is the rollback of the tick's session. Disturbances of its own are a filled
BUY without a price ("price") and a cancel that raises ("cancel").

### LeadJobs: manual scans, ticks and the Stop button

The registry of `lead_jobs.py` (`jobs`, `active`, `stop`) with the runs of
`run_lead_generator` (`run`) and the queue they fill (`queued`). `Submit`,
`RequestStop`, `Start`, `Scan` (the stop flag), `Store` (the instrument's commit),
`ScanEnd` (the logging after the loop, which may fail a cancelled run too), `Finish` (`_finish_job` with the reset of the
flag), `TickBegin`, `LeadsTaken`. Submission and stop are single steps because the
code does them under `_lock`.

`JobRegistry` is what a caller of the registry relies on: at most one job works,
a working job is known, and it ends. `LeadJobs!Promise` is the refinement mapping
(`known` is the registry's keys, `working` those whose status is "running").

### LeadConsole: the pages that follow a job

`LeadConsole` puts browser sessions on top of `JobRegistry`, which stands for the
job endpoints, so what is shown of `LeadJobs` carries over. State: `session`
(`st.session_state` with the job handle and the cached outcomes, and the tokens),
`call` (the one API call a session has in flight), `good` (refresh tokens in the
database), and counters.

| code | actions |
|---|---|
| Generate button, `_recover_in_flight_lead_job`, polling fragment (`ui/app.py`) | `Render`, `Click`, `Poll`, `GotStatus`, `GotJob`, `Generate` |
| `_raw`, its retry after a refresh (`api_client.py`) | `Refuse`, `Renewed` |
| `rotate_refresh`, two transactions (`auth.py`) | `Revoke`, `Save` |
| SSO callback and bootstrap exchange | `Login` |
| job endpoints | `ServeActive`, `ServeGenerate`, `ServeStatus` |
| network, clock, browser, process | `Lose`, `Expire`, `Reload`, `RenderLogin`, `Restart`, `JobEnds` |

### BrokerReads and BoundedReads: what a read of the broker returns

Threads read through `TTLCache` (`ReadHit`, `ReadMiss`, `Answer`, `Store`), wait
in the quote gate (`GateEnter`, `GatePass`), write (`WriteBegin`, `OrderTaken`,
`DropCache` for each cache the write drops, in the code's order, `WriteEnd`) and
raise (`Raise`). A login saves the row, swaps the token, rebuilds the client and
drops the caches one after the other (`LoginSave`, `LoginToken`, `LoginClient`,
`LoginDrop`, `LoginEnd`), a
`Logout` deletes the row and a `Restart` reads it. An answer is known by its time
and by how many of the bot's own orders it has seen. `BoundedReads` is the
abstract specification: a register whose reads are at most `MaxAge` old;
`BrokerReads!Register` is the refinement.

### AgentLoop: one detection per instrument

`Take` (a worker of the pool), `Check` (iterations and time), the client's posts
(`PostFails`, `Retry`, `PostRefused`), `ToolTurn` and `RunTool` with the duplicate
guard (off when `MaxDuplicates` is negative), `Final` and `BadFinal` (`_parse_final` over the forms a text may have, and
`validate_signals`), `ReadStats` and `WriteStats` (two sessions), `Report` (whose candidates may still
raise, which makes a detection with signals an error). A tool
call is its key; what a tool computes is not modelled.

### TradingDay, LeadScore and ContractChoice: a weekday of the lead desk

`LeadScore` (composite, tier 3, decay, calibration, rank key) and `ContractChoice`
(the walk to an affordable strike) are pure definitions over integers. `TradingDay`
uses them in a state machine: the clock and the hours, edited key by key
(`EditBegin`, `EditKey`, `EditFails`); generator runs with the calendar's sync, the
margin and the stored leads (`RunBegin`, `RunPersist`, `RunEnd`); the placer's
window, its ranking by the time the window was checked with, and its session
(`TickBegin`, `TickRank`, `TickNext`, `TickFails`); the
sessions that close trades and recount the pattern's record (`CloseLoad`,
`CloseFlush`, `CloseCommit`, `CloseFails`); the deletions (`Cleanup`,
`DeleteAllLeads`). Placing a lead and closing a trade are single steps here:
`EntryPlacement` and `TradeExit` take them apart. `lock` is SQLite's write lock.

### LeadDesk: what the desk's tables promise

`LeadDesk` is the abstract specification of leads and trades as the API and the
pages see them: `Arrive` (a scan stores a lead, or its plan rules it out),
`Decide` (a commit skips some queued leads and accepts at most one, whose trade is
opened in the same step, on an underlying without an open trade), `Close`, `Delete`.
Two modules implement it, each taking apart what the other has as one step:

- `EntryPlacement` with every broker call of a placement. `DeskStatus` shows "picked"
  and "placed" as accepted, `DeskTrade` collects the committed trades of a lead.
  `CommitTrade` and `TickEnd` decide; orders, rollbacks, crashes and the second
  commit show nothing. `DeskAsPromised` is checked by run `entry` and proved
  (`DeskRefined`).
- `TradingDay` with the ranking, the sessions that close trades and the deletions.
  The mapping stands with the proof (`DayRefined` in `TradingDay_proofs`).

`MCTradeExit`, `MCEntry`, `MCReads`, `MCAgent`, `MCConsole` and `MCDay` hold the
small sets the configurations use; StopLoss and LeadJobs are checked as they
stand. The modules that belong together through a step they both have
(EntryPlacement/TradingDay, TradeExit/TradingDay, LeadJobs/AgentLoop) are not
composed: each has the other's step as one atomic step. For the placement of a
lead that is justified by `LeadDesk`, which both sides implement.

## 3. The runs

| run | instance | shows |
|---|---|---|
| `exit_faults` | one trade, a reconciler, a killswitch request, any one disturbance | reconciliation writes off only what is gone, "stopped out" means a filled stop-loss |
| `exit_two` | two trades in one tracker session, a reconciler, two stop-loss failures | live SELL orders never exceed the units held (while reads and cancels work); no writer undoes another's close although the session's rows are committed together |
| `exit_heals` | one trade, a reconciler, any two disturbances, fairness | a fill is recorded, the session end closes, a naked trade is protected or closed |
| `stop_floor` | one trade, prices 1..9, any two disturbances, fairness | the committed floor never falls, the trailing trigger leaves room, a tighter stop-loss is taken over |
| `entry` | two leads on one underlying, 2 units in parts, any one disturbance, fairness | one open trade per underlying, trades backed by fills and stop-losses, every lead is decided, and the refinement of `LeadDesk`: decided once, in the step that opens its trade |
| `jobs` | three jobs, a tick, two instruments, cap 2, two retained, fairness | scoped stops, an unmixed list, and the refinement of `JobRegistry` with its promise that every job ends |
| `console` | two sessions, two jobs, two logins, any two of lost answers, expiries, reloads and restarts, fairness | no session costs another its login, a page shows its own job (unless its user drops the handle), Generate comes back |
| `reads` | two threads, two caches, an order, a login | reads are bounded in age (refinement of `BoundedReads`), own orders are seen unless the fetch overtook the invalidation, a quote is let through no earlier than the gate's next release, two of them an interval apart, a restart keeps the login |
| `agent` | two instruments on two workers, two tool calls, two iterations, one retry, fairness | conversations are well-formed, do not drift and end with a decision; the statistics invent nothing |
| `day` | two underlyings, two leads, three strikes, two runs, two closing sessions, one edit or deletion | entries fall into the session, the better lead is first, a plan is the nearest affordable contract, a record is the count of its trades |
| `exit_double`, `entry_orphan` | the smallest instance for each | the two findings of section 6 |

**Bounds and why they suffice.** The hazards of `TradeExit` are between two or
three actors on one row, so one trade with one of each actor meets them; the one
thing that needs two trades, the common session of a tick, has `exit_two`. Each
disturbance may strike before, in or after every step, so one disturbance reaches
every single failure and two reach a failure during the handling of another;
`MaxOrders` leaves room for the stop-loss, its replacement and the exit orders
of each actor. In `StopLoss` the prices let a loss, the activation and a further
rise happen around the roundings at 15 and 20 percent, where a percentage of a
low premium is less than a tick; nothing depends on their size. `EntryPlacement`
needs two leads to meet on an underlying and two units to be filled in part;
four BUYs allow each lead a second one after a crash. `LeadJobs` retains two of
three jobs so that the trim must choose, and two instruments with two candidates
overshoot a cap of two.

`LeadConsole` needs a second session whose token and job might be touched, two
jobs so that a page could show the earlier one, and two troubles: an answer that
is lost during the handling of an expired token is already two. `BrokerReads`
meets its races with a reader and a writer on one cache of the account and one of
quotes; four instants separate an answer, its storing, and the end of its TTL.
`AgentLoop` has every path within two iterations (the guard compares two turns),
batches of one and of two calls, and offers at the edge of the price band and
beyond it; two detections suffice to lose a statistic. `TradingDay` has a minute at the session's
start and one that lies before the seeded cutoff, and after the end of the edited hours
and of the special session; a tick that begins at the one may rank at the other. It has
two leads that meet in a ranking with one better than the other by one component, and
three strikes, so that the walk ends inside and at the end of a chain; every
assignment of costs and missing quotes is tried at every strike. A lead's age at its
ranking is 0 or 100 minutes at a half-life of 200, fresh and decaying; the floor and the
clamp of the age at eight hours are `DecayMonotone`'s, in the proofs. The two closing
sessions are symmetric, and run `day` checks no liveness.

The theorems of section 4 hold for every value of these
constants. Deadlock is not checked: outside trading hours, with no open trade or
no queued lead, and once the bounded disturbances and orders are used up, the
system really stops.

**Fairness.** The scheduler repeats the tracker and the placer every 30 s and the
reconciler every 60 s, one instance of each (`manager.py`), and every wait inside
a tick is bounded (`_wait_for_fill` polls until a deadline, broker calls have
timeouts): weak fairness of the whole tick, `WF(TrackerStep)`, `WF(PlacerStep)`,
`WF(ReconStep)`. A request thread and a job's thread run to their end:
`WF(KillStep)`, `WF(RunStep)`. The clock makes an entry older: `WF(GrowOlder)`.
The pool takes up a waiting instrument and a detection goes on, because requests,
waits and tools have timeouts: `WF(Take)`, `WF(Detect)`. The fragment polls every
two seconds and a call is answered or times out: `WF(Poll \/ CallStep)` per
session; that jobs end (`WF(JobEnds)`) is what `LeadJobs` is shown to provide.
Nothing is assumed of the broker, the market or the user: a stop-loss need never
fill, and no liveness property says it does. Disturbances are bounded, so
liveness is claimed for a world that eventually leaves the bot alone.

## 4. The proofs

All proofs are for every set of trades, leads and threads, every quantity,
price, percentage and bound, and every set of disturbances, under the
assumptions the modules name: the "none" value is not a member of its set,
quantities are positive, bounds are natural numbers, percentages are within
1..99, the entry price is at least two ticks, limits and times are natural
numbers, the instruments of a run are a finite set. Two assumptions say more:

- `CandidatesAssumption` of `TradingDay`: a strategy that hands evidence over has
  blended it into its confidence with the base weights, the pipeline `scoring.py`
  lays down (its lines 10-14). The strategy of this repository hands over
  none, which the assumption admits too. Without it no comparison of two stored
  scores means anything.
- `Worth` of `StopLoss_proofs`, a hypothesis of `RoomCorrect` alone: at the price
  where the trailing rule wakes up the option is worth more than two ticks. For a
  cheaper one the rounding may ask for the one tick that is the least trigger there
  is, and the market is not two ticks above it.

| module | theorem | argument |
|---|---|---|
| `TradeExit_proofs` | `TypeCorrect`; `CauseCorrect`, `ReconCorrect`, `StopsCorrect`, `ClosedCorrect`, `SellsAreCovered` (on a `QuietDay`) | `TypeInv` adds to the types that every order id of a row or of the tracker points into the book, without which `book[o]` means nothing; the others below |
| `StopLoss_proofs` | `StopTypeCorrect`, `FloorCorrect`, `RoomCorrect` | `Refs` (ids point into the book) and `FloorKept`: while the session's row is about the committed order, its floor is at least the committed one; a commit then never lowers it; `InitialKept`: the floor never falls below the stop-loss the trade began with, although a lost order makes the tracker start over |
| `EntryPlacement_proofs` | `EntryTypeCorrect`, `OneOpen`, `Backed`, `TradedOnce`, `DeskRefined` | below |
| `LeadJobs_proofs` | `JobsTypeCorrect`, `OneRun`, `StopScoped`, `NoStrayCancel`, `CapBounded`, `QueueFresh`, `RegistryRefined` | `Registered` (a running entry is the active one and has a live thread) and `Asked` (a run that ends cancelled was asked to) |
| `BrokerReads_proofs` | `ReadsTypeCorrect`, `ReadsRefine`, `OwnOrdersCorrect`, `LoginKept`, `GateCorrect` | `Timed` (when the answers in slots and in threads were given), `Reflected` (an answer under way that misses an own order is marked late), `Gated` (one thread sleeps in the gate, no shorter than until the next release, so that it goes at or after the time the one before it set) |
| `AgentLoop_proofs` | `AgentTypeCorrect`, `TurnsCorrect`, `NoDriftCorrect`, `PostsCorrect`, `StatsCorrect` | `Shape` (which turns are complete, by where the detection is), `Cost` (the posts the turns so far may have cost), `Credit` (a copy about to be written counts only ended detections other than its writer's) |
| `LeadConsole_proofs` | `ConsoleTypeCorrect`, `SessionsKept`, `TablesCurrent` | `Fine`, a predicate on one session and its call, and `Apart`: no two sessions own a token in common, so what one revokes is no other's |
| `TradingDay_proofs` | `CompositeStrict`, `RankStrict`, `DayTypeCorrect`, `PlansCorrect`, `EntriesCorrect`, `BestFirstCorrect`, `TallyCorrect`, `DayRefined` | below |

`TradeExit_proofs` strengthens the four properties to
`RowsOK /\ TrackerOK /\ ReconOK /\ KillOK`. None of the properties is inductive,
because three actors hold copies of a row: `RowsOK` makes each committed and each
working row consistent with the broker (closed iff it has a cause, a
reconciliation cause only for a position that is gone, a stop-loss cause only
with a filled stop-loss, `sl_order_id` only a stop-loss of the trade).
`TrackerOK` says that the rows the tracker loaded were open and that it closes
them only; `ReconOK` that what a reconciler found gone stays gone until it
commits; `KillOK` that a killswitch request which loaded a closed row can only
rewrite a closed row. The heart is `MergeGood`: the column-wise merge of such a
row into such a row is consistent again, although neither writer knew of the
other.

`SellsAreCovered` proves `SellsCovered` for every number of trades, reconcilers,
orders and failures under `QuietDay`, which is what run `exit_two` assumes: no
killswitch request, and no disturbance but stop-losses the broker refuses or drops.
Without it the property is false (`exit_double`). The invariant `CInv` names, for
every trade, the one order that may be live: that of the row in the table, of the
tracker's copy while a tick holds the trade, of the stop-loss just placed until it is
verified (`Guard`). `Owns` says no other order is live and a unit that is gone was
sold by that order. So an order is known dead, or never existed, and the unit is
still held whenever the tracker is about to place another. A commit hands the order
from the copy back to the table, and a reconciler that closes the row leaves it alone.

`EntryPlacement` rests on the lock. `BuyingOK`: from the flush of `Pick` to
`CommitTrade` the placer holds the lock, so its lead has no trade and its
underlying no open one *until the commit*, not only at the check. `LeadsOK`: the
listed leads have no trade and none is taken twice. `OrdersOK`: what the placer
has read of its BUY is at most what is filled, and the sales it placed are of that
size. `TradesOK`: a lead with a trade is off the queue, which is why a tick that
starts over cannot list it again.

`RegistryRefined` needs the registry's invariant twice: a submission finds no
job working because a running entry is the active one, and the trim forgets no
working job because it takes from the finished ones only. It is the safety half
of `JobsAsPromised`; that jobs end is TLC's.

`DeskRefined` needs more than the table's invariant: a commit decides what the
tick listed, marked or took long before, so `HeldOK` says that all of it is still
queued. The marks of the session are not visible to anybody, but from the first
of them the placer has the lock, and without it nobody can delete a lead; a lead that
is only listed may be deleted, which the next step then sees.

`TradingDay` rests on the lock as well. `DayInv`: a closing session that has
flushed holds the lock until its commit, so its count of the pattern's trades is
still the count when it is written, although the other session may have loaded
its trade before (`Counted`); a lead marked in a tick is queued and the lock the
placer's; a row's score is that of its evidence or the confidence it came with
(`Honest`); an edit writes hours that were chosen. `TallyTrue` follows for any
number of sessions, `EntriesInSession` from the window's own reading of the hours.

`BestFirst` is about arithmetic. The composite is a weighted sum rounded to four
places with a penalty for weak core evidence, and a rank multiplies it by decay
and calibration with a rounding each. `CompositeStrict` and `RankStrict` show that
no rounding and no clamp hides a difference of one percent in one component.
Sums over the features are written out, because the laws of the community modules'
folds take operators as parameters; the order itself is a member of `Ranked`, the
set of sequences that obey the keys, so no sort is reasoned about. `PlansFit` needs
that the walk reaches exactly the strikes of `Reach` and moves away from the money
at each step, so that the first it can pay for is the nearest.

`DayRefined` adds `OrderOK` (ranks are numbers, so a lead stands in an order
once, and is not there when it has been marked) and `NoneYetOK` (a queued lead has
no trade; what a session closes exists, so its commit cannot make a trade out of
nothing).

**Only model-checked.** Liveness (`FilledStopIsRecorded`, `SessionEndCloses`,
`NakedIsHealed`, `TighterIsAdopted`, `LeadsAreDecided`, `AllEnd`,
`GenerateComesBack`, the fair half of `JobsAsPromised`): the prover does not
reason about fairness and ENABLED. Every other property of a passing run is the
conclusion of a theorem, `SellsCovered` under the hypothesis run `exit_two`
satisfies, `TrailLeavesRoom` under `Worth`. `NoDoubleExit` and `NoOrphan` are false
and have only their runs.

## 5. Abstractions

- Prices are whole ticks of 0.05. Quantities are units; a trade of `TradeExit`
  has one, since its orders are always for the whole quantity.
- In `EntryPlacement` and `LeadJobs` the ranking of leads, the choice of strike
  and margin, and what a scan returns are nondeterministic: they decide which lead
  or option, not what happens to it. `TradingDay` and `AgentLoop` model them.
- Settings are constants, but for the trading hours in `TradingDay`.
- `TradeExit`, `StopLoss` and `EntryPlacement` read the broker without the caches
  of `BrokerReads`: a cached answer is the answer of a read a few seconds earlier,
  and in the models the actors may be slow. The one exception, an answer stored
  after an invalidation, is what `OwnOrdersSeen` names.
- `BrokerReads` has one slot per cache (quotes of several instrument sets have
  several, which only adds misses), one gate of three, and no table of SDK clients.
- `AgentLoop` leaves out the client without tools and `max_calls_per_run`; an
  exception in the middle of a tool turn is a request the provider refuses.
- `LeadConsole` handles a call in the step that sends it, since its session does
  nothing meanwhile; a request that is lost is one that was not sent. "Drop job
  handle" is the second failed poll. The Stop button is in `LeadJobs`; logout of
  the console, rate limits and the allowlist are left out.
- `TradingDay` is one weekday: an instrument hands over one candidate per run, all
  leads show one pattern, retention reaches leads of earlier days only, and the
  exponential of the decay is replaced by its chord, which keeps its order and its
  floor. At most one trade is open per underlying, so the sessions that race for a
  record are those closing the same trade.
- No module has a type of price, score or time that could overflow: Python's
  integers do not.
- A failed flush ends the tracker's tick (`TickBusy`). The handlers in
  `_ensure_sl_or_sqoff` and `run_trade_tracker` read `trade.id` before anything else;
  the flush has rolled back and expired the row, and a transaction that is inactive
  refuses to load it again, so the exception leaves the loop and `session_scope`
  rolls back: there is no defensive order and no next trade.
- In `TradeExit` the user's own sale moves the position and leaves no order in the book,
  so the reconciler's two labels for it (`recon_user_sl_filled`, `recon_user_exit`) are
  one. `StopLoss` places and verifies a stop-loss in one step that succeeds or ends in a
  sale; a mismatch, a failed cancel and a failed sale are `TradeExit`'s.
- `TradingDay` reads the hours for the window in one step; the code reads each key in a
  transaction of its own, so an edit may fall between two of them. An edit writes
  its keys in any order here, so a mixture of old and new keys is a state of the table too;
  a key that changes between its two readings (`trading_start` and `sqoff_time` are read
  again for the cutoff) is not modelled. The killswitch check is `EntryPlacement`'s:
  here a tick may simply not begin. A killswitch request may load a trade that has been
  closed (`CloseLoad`).
- A failed read that the code takes for an answer is modelled as what the code
  then does (`HeldOnError`, the "missing" order of `TickSync`).
- Audit rows (orders, fills, drift, scans), heartbeats and logs are left out: no
  decision reads them. Where writing one takes the lock or may fail, the step does
  so (`Flush`).
- The entry age has three values: not yet shown by the positions API, shown, and
  older than `reconciler_min_age_minutes`, which is longer than that delay.

## 6. Findings

Each violation run checks one statement of the repository that the code does
not keep; `PROJECT.json` quotes it.

- `exit_double`: `square_off` sells although the cancel lost to a fill of the
  stop-loss. The account goes short.
- `entry_orphan`: a BUY that fills between the last poll and the cancel is given
  up with its units, or the later units are left out of the trade.

Read in the code, without a run.

*Trades.*
- The killswitch squares off a trade that another actor has closed since it was
  listed: it loads the row without looking at its status
  (`killswitch_service.py:58`), and `square_off` sells, although a second order is said to be
  ignored "via idempotent close" (`trade_service.py:412`); the tracker looks
  (`trade_tracker.py:79`).
- `sync_order_status` answers None for an order book that could not be read, and
  the tracker then places a second stop-loss beside the live one
  (`trade_tracker.py:130`, against its line 9).
- The first activation of the trailing rule ignores a floor raised before it and
  lowers the trigger (`trade_service.py:694`, against `docs/design.md:372`).
- The killswitch and the window are read once per tick, at its start: BUYs of a
  running tick go on after an activation (`order_placer.py:47`, against
  `docs/design.md:67`) and after the "hard cutoff" (`market_calendar.py:49`).
- `square_off` closes the row without waiting for the exit to fill
  (`trade_service.py:489`), unlike the tracker's header (`trade_tracker.py:18-19`);
  the killswitch closes with the cause of the session end
  (`killswitch_service.py:59`, `models.py:243-244`); a fill of the bot's own
  stop-loss found by the reconciler is recorded as `recon_user_exit`
  (`recon_service.py:172-176`, against its lines 10-12).
- The tick and a manual scan are said not to overlap (`lead_jobs.py:43-45`) but
  nothing calls `acquire_generator_lock`, so a Stop also ends a concurrent tick and
  a manual reset deletes the tick's leads; the design's "max 1 trade per instrument
  per day" (`docs/design.md:17`) is checked for open trades only.

*Hours and settings.*
- "True iff the market is open AND" before the trade end
  (`market_calendar.py:99`) fails on a special session that ends before the
  default trade end: the placer opens what the tracker squares off at once. An
  evening session never opens. The premise of `EntriesInSession` excludes both.
- Hours are written key by key without validation (`config_api.py:28`); "Must be <=
  sqoff_time" (`settings.py:15`) is not enforced, and hours that end before they
  start skip the clamp, so that the placer can run while the market is closed.
- `TRADING_START`, `TRADE_END_TIME` and `SQOFF_TIME` of the environment never take
  effect: `DEFAULT_SETTINGS` seeds the same keys first (`settings.py:120-125`).
- "removes processed leads immediately" (`settings.py:34`) against a retention of
  168 hours, after which leads still marked picked go too;
  `leads.retention_hours_scans` (`settings.py:39-43`) is not read by the cleanup. A sync
  deletes holidays that were entered by hand for its year.

*Leads and scores.*
- With the margin check off, or after a failed first read, `attach_lead_plans` asks
  for the margin all the same (`lead_service.py:112-117`, against
  `lead_generator.py:434`).
- `InstrumentView` has no `iv` or `oi`, so both scores always are the default 0.7;
  `attach_market_context` has no caller, so a stored blended score counts the time
  of day as 0, and a lead whose chain cannot be read is ranked by it against the
  others' fresh scores (hence the chains that were read in `BestFirst`). The LLM
  strategy hands over no components, so none of this applies to its leads.
- A deleted lead takes its trade out of the pattern's record at the next close
  (`TallyTrue` is about the count of trades whose lead exists).
- An outcome row's `lead_id` is taken before the flush and always null; instruments
  beyond the cap get no row ("One row is written for every underlying",
  `models.py:131`); a database error while one instrument is stored ends the run.

*Reads.* "Post-trade views never read stale state for longer than the configured
TTL" (`upstox_broker.py:8-16`) holds up to the time an answer takes to be stored,
and not for a fetch an order overtook.

*The console.*
- The page drops a forgotten job on the code `http_404`; the server sends
  `lead_generation_job_not_found` (`ui/app.py:2685`), so after a restart it polls
  for ever. `GenerateComesBack` therefore excludes forgotten jobs.
- The 409's `data` is dropped by `api_client.py`, so `existing` is always None
  (`ui/app.py:2449`). "A failed POST only means the server is unreachable"
  (`api_client.py:308-309`): its answer may be lost after the job was started.
- `is_authenticated` asks an endpoint that answers 200 without a login, so an
  expired access token shows the login form although a refresh would succeed
  (`api_client.py:87-91`).

*The agent.*
- The health status is "error" for ever after the first error
  (`health.py:103-109`). The time budget is looked at between calls only.
- "Hard tool error and two iterations" (`agent.py:17`) ends nothing;
  `LLM_AGENT_MAX_DUPLICATE_TOOLS` (`config.py:99-103`) has one effect for every value
  that is not negative; `agent_iters` counts tool calls; the suffix of the last
  request offers patterns the validator drops.
- A list of signals in prose or in a code fence is read as its first signal, which
  has no `signals`: the detection counts as a success without signal
  (`agent.py:355-427`).

## 7. Not modelled, and the plan

Not to be modelled: the pages of the UI that only display, the scripts (manual
tools and a simulated broker), the read-only listings of the API, floating-point
indicators and prompt text, RSS parsing, the instrument file, migrations,
encryption and cookies, display-only health and drift pages.

What would add most, in the order of importance:

1. An abstract trade (opened, protected, closed once, for one cause), with
   `TradeExit` shown to implement it as `EntryPlacement` and `TradingDay` implement
   `LeadDesk`; the user's adopted stop-loss with quantities.
2. `LeadJobs` composed with the storing of leads in `TradingDay`, with
   de-duplication, several candidates per instrument and the expiry of queued
   leads over several days.
3. `BrokerReads` with a second account, the table of SDK clients and the other two
   gates.
