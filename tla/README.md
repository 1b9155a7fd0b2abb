# A verification development of bifrost-trade-worker

`src/src/bifrost_worker` is the trading daemon of the Bifrost stack: a Python/asyncio
process that runs as two replicas on Kubernetes, of which the one that holds a Lease
reads a broker's account through a Redis plugin, copies it into Golden Source tables,
and runs (today in simulation) a gamma-scalping hedge. This directory holds TLA+ modules
translated from that source, TLC configurations that check them, and theorems about
them that the TLA+ proof system checks. `PROJECT.json` maps every definition to the lines
it stands for.

Paths below are relative to `src/src/bifrost_worker/daemon/`.

## 1. Inventory

| component | source | state | operations | what must hold |
|---|---|---|---|---|
| Leader election | `lease.py`, `app/entry.py` | the Lease object (holder, renew time, duration, version); per pod: settings, role, last renewal | acquire, renew, step down, teardown of the service, restart | one daemon trades at a time; a pod that cannot renew stops while its lease still keeps the others out |
| Account push | `app/account_push.py` | plugin snapshot in Redis; subscription; cache of what was written; one psycopg2 connection; the tables | subscribe, sync (read, refuse, write, commit, mark), forced sync, close | what the cache calls written is in the tables; they hold what was published, and with one syncer one whole snapshot; no older snapshot over a newer; a degraded read is no flat book; the tables converge; a stop leaves no transaction open |
| Daemon lifecycle | `app/daemon_handlers.py`, `fsm/daemon_fsm.py` | DaemonFSM state; three tasks; sink and quotes reader | the state loop, its handlers, cleanup, cancellation | a stop is final and is carried out; cleanup leaves nothing behind |
| Heartbeat, control | `app/control_heartbeat.py` | the pass's position; the command stream; the suspended flag | poll commands and flag, sleep, hourly refresh, snapshot | stop commands and the flag are obeyed whatever the pass is doing; the status written is the state |
| Hedge execution FSM | `fsm/hedge_fsm.py` | state, target, shares needed, broker connection | one handler per event: targets, plans, acknowledgements, fills, timeouts, cancellation, resync, connection | a target never replaces an open one; an order on its way does not change |
| Trading FSM, guards | `fsm/trading_fsm.py`, `guards/trading_guard.py` | macro state | events on snapshots | unsafe data leads to SAFE from everywhere; a needed hedge is reached |
| Hedge pass, execution guard | `app/hedge_flow.py`, `guards/execution_guard.py`, `strategy/*` | cooldown, daily count, spread limit | intent, gates, simulated order | hedges are on good data, reduce the delta, stay within the limits and end with a suspension |
| Snapshot, classifier, store | `app/snapshot.py`, `core/state/*`, `core/store.py`, `app/ticker_redis.py` | positions, spot, spread, quote time, last hedge price | look up, refresh, classify, ticker callback | decisions are on data and positions no older than the limits say |
| GsTrading, config reload | `app/gs_trading.py` | the app's config and its copies; the file's last mtime | construct, check, reload | a change of the file is loaded, if not at the first try; a reload reaches what decides |
| Health, metrics | `app/observability.py` | time of the last pass | `/health` | a dead heartbeat is noticed |
| Greeks, pricing, logging, contract quotes | | none a decision keeps | | not modelled |

How they interact. The election starts the service of the pod that wins, and cancels it
when it loses (`run_with_leadership`). The service is one event loop: `run()` walks the
DaemonFSM and creates three tasks, the heartbeat, the push listener and the config
reload. Monitoring talks to it only through Redis (a command stream, a suspended flag).
The heartbeat forces account writes, hourly or by a command, on the same
`AccountTablesWriter` as the push listener; each write runs in a worker thread. A hedge
pass reads the snapshot, ticks the TradingFSM, asks the execution guard, and runs the
HedgeFSM from target to fill. Nothing is persisted but the tables and the status: a
restart forgets caches, counts and states.

What is hard in it: clocks, leases and slow calls; two threads in one transaction; stops,
cancellations and exceptions at every `await`; cached quotes and flags; decisions that
outlive the pass that took them. Each is a line of `PROJECT.json` "hazards".

## 2. Modules

| module | models | composes |
|---|---|---|
| `LeaderLock` | abstract: the lock that the election promises | |
| `LeaderService` | abstract: what the election may rely on about the service it starts | |
| `LeaderElection` | the elector of every pod against the Lease's compare-and-swap | refines `LeaderLock` |
| `LeaderElectionProofs` | theorems | extends `LeaderElection` |
| `AccountCopy` | abstract: the tables hold published snapshots, whole ones if one task copies | |
| `AccountPush` | the two syncers, the shared writer, its connection, and the tables | refines `AccountCopy` |
| `AccountPushProofs` | theorems | extends `AccountPush` |
| `DaemonLifecycle` | `run()`, the handlers, the heartbeat and the other tasks | refines `LeaderService` |
| `DaemonLifecycleProofs` | theorems | extends `DaemonLifecycle` |
| `HedgeDesk` | abstract: what the owner of the account may rely on | |
| `HedgeFSM` | the execution machine, as operators and as a system of its own | |
| `HedgeFSMProofs` | theorems | extends `HedgeFSM` |
| `TradingFSM` | the macro machine and its guards, as operators | |
| `HedgeFlow` | the pass: snapshot, tick, gates, simulated order; reload, restart | extends `HedgeFSM`, `TradingFSM`; refines `HedgeDesk` |
| `HedgeFlowProofs` | theorems | extends `HedgeFlow` |
| `MC*` | values, pods' settings and symmetry for TLC | |

### LeaderElection
An attempt of `try_acquire_or_renew` is three steps, because the Lease and the clock may
change between them: `BeginAttempt` (the clock is read), `GetFails` / `GetHeldByOther` /
`GetClaimable`, and `PutSucceeds` / `PutConflicts` / `PutFails`. The Lease has a version,
which stands for the resourceVersion; a write against another version is a conflict.
`PutFails` covers both a write that was not applied and one that was, with its answer
lost. `Failed` is `LeaseAttempt.FAILED`: a leader goes on until the deadline, which it
checks *after* the attempt. `ServiceEnds`, `Exit`, `StandbyStops`, `Crash` and `Restart`
are the process around it.

Time is an integer. Each pod reads `now + offset[p]`, with offsets up to `MaxSkew`. `due`
is the latest time of a pod's next step, and `Tick` does not pass it. `LeaseDuration`,
`RenewDeadline` and `RetryPeriod` are functions of the pod, because each process reads
them from its own config. The Lease carries the duration of the last writer, in whole
seconds (`Rounded`, half to even), and an expiry goes by that. The code
bounds neither an API call nor the teardown; `MaxDelay` and `Drain` name these bounds, and

    TimingSafe ==  for every pod:
        max(RenewDeadline, 2 MaxDelay) + RetryPeriod + 3 MaxDelay
        + Drain + MaxSkew  <=  Rounded(LeaseDuration)

is what the safety of the election turns out to need. The settings of *other* pods do not
matter, so a rolling change of them is safe if the old and the new settings are. The code
checks no part of it. (A duration that rounds to 0 is outside the model: the API server
refuses it, and a read of 0 is taken for the default.)

### AccountPush
`listener` is the position of `run_push_listener`; `thread[s]` that of `sync_once` for the
listener ("push") and the heartbeat ("force"). `Read`, `Filter`, `Connect`, `Open`, `Setup`, `Execute`,
`Commit`, `Rollback`, `Mark` are the steps between which the other thread, the plugin or
the server may act. `session[c]` is the server's side of connection `c`: the
pending write, whether the transaction has failed (a COMMIT then rolls back silently, as
PostgreSQL does), and whether it is alive. Two threads on one connection share its
transaction; two that find none may both open one (`Connect`, `Open`, `Setup`), and each
goes on with whatever the writer holds by then. `sync_accounts_snapshot_to_tables` writes an
account in several statements: `Execute` is one of them, `stmt` the next one and `row[p]` the
snapshot whose part `p` the tables hold, so that the other thread may commit or roll back
between two statements. An orderly stop is `StopPush` (the
listener is cancelled), then `CloseWriter` (the connection is closed, and the heartbeat
cancelled), then `Exit` when the threads are done: a forced write may begin before
`CloseWriter` and open a connection after it. `Crash` is a kill. One account is followed:
accounts meet only in the transaction.

`AccountCopy` is what a reader of the tables may rely on. A task takes what is published at
that moment, stores it, and drops it; every part of the tables is that of a snapshot with a
NAV that some task had in hand, and no part is emptied again. If only one task copies
(`Whole`), a snapshot is stored as a whole, in one step. With two this is not so, and TLC
refutes it without any fault: the COMMIT of the one's SETs stores the first statement of the
other. `Copy` maps a thread's snapshot to the task's hand from the read on.

### DaemonLifecycle
An action is the code between two awaits of one coroutine, where an await is one of
something outside the daemon's own code: a task, a thread, a sleep, Redis, `bifrost_core`.
`main` is the await at which `run()` is, `hb` that of the heartbeat, with `sync` in a refresh of
the accounts, which awaits three (the accounts, and in `sync_once` two threads); `push` and
`reload` are the other tasks. There is no clock: whether a refresh is due is a choice. What the
push listener awaits before its cancellation is in `AccountPush`; after it, it may have its
Redis client to close (`PushClosed`).
`Signal`, `LoseLeadership`, `CancelService`, a "stop" command and `ProbeKills` are the ways
to be stopped. `StartRaises`, `ConnectedRaises`, `RefreshedRaises` and `HbRaises` are exceptions. A heartbeat that has died is
restarted by nobody; only `/health`, 600 seconds later, and the pod's livenessProbe end
the process (`ProbeKills`). `status` is the daemon_state last written to Redis: by
`handle_connected`, `handle_running`, a refresh command and the end of every pass.

`file`, `seen` and `loaded` are the config file, the mtime the reload loop has recorded and
the config in use, as versions. `FirstCheck` only records; `Reload` loads, opens the quotes
reader anew and then records; `ReloadFails` stops before the config is taken over, or after
that with the reader closed, and records nothing, so that the next check tries again.

`LeaderService` is the daemon as `run_with_leadership` sees it, which counts it as live until
it returns: workers that start once and together, a stop that follows the loss of the Lease
and is never taken back, and an end with no worker left. `Stage` maps `main` to it, and
`Alive` the tasks. `Remaining` counts the awaits that `run()` and the tasks have before them, from
wherever a stop finds them, the one they are at included. The longest way, fifteen, is that of
a stop that finds `run()` in its loop and the heartbeat in a refresh commanded while it slept:
four of `run()`, eight of the heartbeat (the refresh, the hourly refresh, the positions for
the status and for `eval_hedge`), two of the listener and one of the reload loop. A stop that
comes before the tasks exist has at most nine before it.

### HedgeFSM, TradingFSM, HedgeFlow
`HedgeFSM` and `TradingFSM` translate the handlers as operators on a machine (or a state
and a snapshot). `HedgeFSM` also has a specification of its own in which events arrive in
any order, from a broker that acknowledges, fills partly, rejects, times out and
disconnects. `HedgeFlow` has one action per kind of pass: `Refresh` (mock hedging or suspended: the snapshot
only), `EvalNothing` (no symbol or no spot), `EvalOnly` (a gate stopped it), `EvalHedge` (a
hedge, and the two places where `write_snapshot` may raise and leave the heartbeat dead).

What a pass knows of the account is `held`, the positions in the store, which are None until
the first lookup. Whoever builds a snapshot, the bootstrap, the status or `eval_hedge`, looks
them up if they are `Due`, that is if `RefreshInterval` (an hour) has passed since the last
time, `refreshed`; `BeginLookUp` starts that and `LookUp` ends it. What `bifrost_core` then puts into
the store is any of `Books`, or no symbol to trade. All hedges until the next lookup are
computed from that, wherever the account has gone. While `eval_hedge` awaits a lookup (`pass`),
the flag, which it has polled before, and the market may change. `Ticker` is the callback and
`BadTicker` one whose price cannot be used, which sets the time of the data all the same;
`Reload` is the config reload, `Restart` a new process. Prices, shares and percents are small
integers; greeks are "valid" or "bad".

`HedgeDesk` is the daemon as the owner of the account sees it, over the life of one process
after the other: a desk that is shut, open, or out. It is shut until `handle_connected` has
run, open while the heartbeat lives and the strategy is neither in BOOT nor in SAFE, and out
from then on until another process takes over. Only an open desk sends; each hedge takes
the delta it knows, that of its last `Look` at the account, towards zero; a process sends no more of them than some config's daily limit, and
one at most is late for a suspension.

In production the heartbeat sets `mock_hedging` and never calls `eval_hedge`
(`control_heartbeat.py`); HedgeFlow models the code as it runs when it is called.

## 3. Runs

Passing runs (TLC explores the instance completely):

| run | shows | bounds, and why they are enough |
|---|---|---|
| `leader_election` | never two services; the live pod is the Lease's holder; step-down in time; takeovers only of expired leases; refinement of the lock | two pods with different settings (one whose duration is rounded down), skew 1, `TimingSafe` with equality for both, so that any later step-down of either breaks it; the clock runs to 13 half seconds: one acquisition, its expiry, and a takeover, by either pod |
| `account_push_single` | the listener alone: cache = tables, no older write, no flat book of a degraded read, convergence | two faults (a fault during the recovery of another), three versions, two connections, two statements (a write can be half way) |
| `account_push_live` | with the forced writes on the same connection, and any one fault or orderly stop, the tables still converge and hold only what was published (refinement of the copy), no announcement is lost, and no transaction stays open | two versions, three connections (the writer's, and one per thread that still uses an earlier one), two statements |
| `daemon_lifecycle` | stops are final and obeyed, by whoever, within fifteen awaits; the cleanup awaits only what has been told to end and leaves no task; refinement of the service; the flag, the status and the config file are followed, and a reload that failed half way stays due | two commands, one change of the flag (which is set at first or not), two exceptions, one change of the file: a stop behind a refresh, a flag set or cleared at any moment, a reload that fails twice |
| `hedge_fsm` | no target over an open one; no change of an order on its way | two targets, three positions: all 122 states |
| `hedge_flow` | good data, positions no older than an interval, reduced delta, limits, price move, a settled machine between passes; a strategy that is out stays out | six books, on each side of every threshold; three quotes; two configs with different limits; one reload; one restart; four instants with a day's end and a closed one; positions due every two, so that a hedge may be the second after a lookup |
| `hedge_flow_live` | a strategy that was started and can trade does hedge; a suspension lets at most the pass under way hedge; refinement of the desk (here, where the flag changes) | one change of the flag, positions due every two instants, two quotes, one too wide to trade at, two books, one of them flat, one restart, three instants of a day and one of the next: both pauses and NO_TRADE are entered and left |

Runs in which TLC finds a stated promise broken by what the code does. Each checks one
property, and is a finding in `PROJECT.json`:

| run | what it shows |
|---|---|
| `leader_election_defaults` | with the default 15/10/2 seconds, API calls of up to two seconds and a teardown of up to two, `TimingSafe` does not hold, and a standby takes the expired lease while the old leader's service is still being torn down |
| `account_push_shared` | a failed statement in one thread turns the other's COMMIT into a silent rollback, and the write is marked as done; the push that should retry it sees nothing changed, until the next forced write |
| `account_push_restart` | a new process takes a degraded read for a flat book: that positions were stored is remembered in memory only |
| `hedge_flow_day` | the daily count still holds yesterday's hedges: nothing gives it a date |
| `hedge_flow_spot` | as wired (nothing calls `on_ticker`), the spot remains the first quote that was read |

`account_push_single` leaves out the fault "ack" (a COMMIT applied, its answer lost): the
tables are then ahead of the cache until the retry, so `WrittenIsStored` is false for that
time and nothing is wrong; `account_push_live` has that fault. `NoLostWakeUp` is checked where
the forced writes race the listener; what may pay the debt of a sync is a sync of the
listener that reads anew, never a forced one. `NoStaleOverwrite` and
`FlatNeedsGoodRead` are claimed for the listener alone. With forced writes an older
snapshot can be written over a newer one, until the next forced write, and only `Converges`
is claimed; nor are the parts of the tables of the same snapshot then (`AccountCopy`). `HedgesWithinLimits` is about the hedges of one process, and of a day with as many
daily limits as there were processes; a reload that lowers the limit cannot recall what has
been sent, so the day is measured by a limit that some config has.

`CHECK_DEADLOCK FALSE` is set where the system may stop: in `LeaderElection*.cfg`, where
the bounded clock ends, and in `DaemonLifecycle.cfg`, where the daemon does.

### Fairness
- AccountPush: the event loop and the threads run; the plugin announces its snapshot again
  every few seconds; the heartbeat forces a write every hour; a stop goes on to close the
  writer, and a closing process exits.
  No fairness on changes of the account or on faults.
- DaemonLifecycle: a coroutine that can go on does; a cancelled task ends;
  `run_with_leadership` wakes up; the livenessProbe ends a daemon with a dead heartbeat; the
  reload loop looks at the file every 30 seconds.
  Commands, flag changes, signals, edits and exceptions need never happen. A liveness
  failure counts only under this specification.
- HedgeFlow: the heartbeat makes its passes, and the lookups they await end. Nothing is assumed of the market, and the
  passes may stop for ever once the heartbeat is dead (`alive`).

## 4. What is proved

Every theorem holds for all values of the constants, under the named ASSUMEs of the
module. The proofs are checked to the leaves; nothing is assumed otherwise.

`LeaderElectionProofs` (for any settings of each pod):
1. `TypeCorrect`: the type invariant.
2. `StepDownCorrect` (`StepsDownInTime`): for all parameters, timing-safe or not, a service
   is over `StepDownBound` after its last renewal. `StepsDownInTime` is not inductive: it
   says nothing of a leader that sleeps or is in a call. `TimeInv` adds, for each phase of
   an attempt, how late `due` and how old the attempt's clock reading may be.
3. `TakeoverCorrect` (`TakeoverOnlyOfExpired`): for all parameters. The invariant is
   `ReadsAreVersioned`: a record that an attempt has read and whose version is still
   current *is* the Lease, and was expired, absent or its own when it was read.
4. `LeaseCorrect`, `MutualExclusion` (`LiveHoldsLease`, `AtMostOneService`), assuming
   `TimingSafe`: by `LeaseInv`, the live pod's lease cannot have expired on anybody's clock,
   so no takeover can succeed against it; mutual exclusion follows, as the Lease names one
   pod.
5. `MarginSuffices`, `DefaultsSuffice` (`AtMostOneService` again, from what an operator
   configures): by `RoundedClose` the Lease's duration is within half a second of the
   setting, so that half a second of margin makes any settings timing-safe; and the
   defaults 15/10/2, which `RoundedWhole` shows to be kept as they are, leave three seconds to
   `3 MaxDelay + Drain + MaxSkew`. `leader_election_defaults` shows what eight seconds do.
6. `ImplementsLock` (`LockSpec`): with the set of live pods for `active`, each step is an
   Enter, a Leave or a stutter.

`HedgeFSMProofs`: `MachineCorrect`, `TargetCorrect` (`TargetIffBusy`) and `NeedCorrect`
(`NeedIsFixed`), for any targets, positions and order of events. Every handler is one of
two kinds of change of the machine (it moves between busy states, or it ends and clears
the target); the lemmas show both kinds to keep the invariant, and that every handler is
of one of them.

`AccountPushProofs` (for any data, connections and faults):
1. `TypeCorrect`, `NoOrphanCorrect` (`NoOrphanTransaction`): `TypeOK` is not inductive (what
   is marked as written has a NAV only because the filter has seen it), nor is
   `NoOrphanTransaction`. `Inv` adds `HandInv`, what a thread holds at each of its steps, and
   `PendingInv`: each part in an open transaction is that of a snapshot which some thread,
   between its first statement and its COMMIT or rollback, has in hand.
2. `ImplementsCopy` (`CopySpec`), for any number of statements. A COMMIT, also the one of the
   other thread's SETs, stores nothing or, by `PendingInv`, parts of what threads have in hand;
   if there is one syncer only, `WholeCopies` shows that its transaction at the COMMIT has all
   the parts of its one snapshot (`AloneInv`, below). Everything else takes, drops or stutters.
3. `OrderCorrect` (`NoStaleOverwrite`), `FlatCorrect` (`FlatNeedsGoodRead`) and `CacheCorrect`
   (`WrittenIsStored`), assuming `OneSyncer`, and the last that no answer to a COMMIT is lost:
   `AloneInv` says that a living transaction at its COMMIT holds the syncer's own snapshot,
   that this is no older than the tables, and that what `_refuse_reason` found still holds.
   The assumption is needed: with two syncers, and with a lost answer, TLC finds
   `WrittenIsStored` violated (`account_push_shared` shows the first).
4. `WakeCorrect` (`NoLostWakeUp`), for any syncers: it is the safety half of `Converges`. By
   `WakeInv` what the listener's thread has in hand is what is published, unless another sync
   is owed; the order of `subscribe` and the first `sync_once` is what makes it hold while
   the listener comes back (the mutant of `Subscribed` turns it around).

`DaemonLifecycleProofs` (for any number of commands, changes of the flag, exceptions, edits):
1. `TypeCorrect`; `StopCorrect` (`StopIsFinal`), as each way to change the FSM keeps a stop.
2. `CleanupCorrect` (`NothingOutlivesCleanup`), `WaitCorrect` (`CleanupWaitsForCancelled`), by
   `RunInv`: what the FSM is and which tasks may live at which position of `run()`. The
   invariant, and all that follows, is proved by kinds of steps (`StepKinds`): somebody asks
   for a stop (`Still`), `run()` leaves its loop (`Ends`), the heartbeat goes on (`Beats`),
   another task does (`TaskRuns`), or it is one of `run()`'s own steps.
3. `ReloadCorrect` (`FailedReloadIsDue`), by `ReloadInv`: what the reload task has looked at
   exists, the task lives as long as the daemon runs, and a closed reader belongs to a file
   newer than what counts as seen. It is the safety half of `ConfigIsFollowed`.
4. `DrainCorrect` (`DrainIsBounded`): `Remaining` is at most fifteen when a stop is requested, and
   each kind of step lowers it or leaves `run()` and its tasks where they are. With the
   weak fairness of the coroutines this is the ranking behind `StopIsObeyed`; and it is what
   `Drain` of `LeaderElection` bounds: fifteen awaits, none of which the code times.
5. `ImplementsService` (`ServiceSpec`): each kind of step maps to a step of the service or a
   stutter.

`HedgeFlowProofs` (for any configurations, quotes, positions, days and bounds):
1. `TypeCorrect`, `SettledCorrect` (`HedgeIsSettled`) and `SuspensionCorrect`
   (`SuspensionStopsHedging`). `Inv` adds to them what the process remembers: the guard's last
   hedge and the store's hedge price are those of the last hedge sent, and the guard counts
   no fewer than were sent today (its date stays None); and that a hedge has been late only
   if the pass that polled the flag before it was set is over.
2. `DataCorrect`, `ReduceCorrect`, `PriceCorrect` (`HedgesOnGoodData`, `HedgesReduceDelta`,
   `HedgesMoveWithPrice`): by `SentIsApproved`, only a pass that came through every gate
   sends a hedge, and one that has looked the positions up or found them not due; then by the
   order of the tests in `Transition`, the arithmetic of the intent, and what the store
   remembers. `ReduceCorrect` is about the positions held, as the code is: not about what the
   account has become since the lookup.
3. `LimitsCorrect` (`HedgesWithinLimits`), for any reloads. `DailyInv` bounds the day's hedges by
   the restarts and the limit of some config no lower than the current one; a reload that
   raises the limit changes which.
4. `OutCorrect` (`OutUntilRestart`): a tick finds no way out of BOOT but to SAFE, and none out
   of SAFE; with `SentIsApproved`, nothing is sent.
5. `ImplementsDesk` (`DeskSpec`): one lemma for each kind of step says which step of the desk
   it is. A lookup that ends is `Look`; a pass that hedges is `Send`, for the tick behind it has left the strategy out of
   BOOT and SAFE, `LateInv` says that nothing has been late before, and `Remembered` that this
   process has sent no more than the guard counts.

Only model-checked: all liveness (`Converges`, `StopIsObeyed`, `StopCommandIsObeyed`,
`SuspensionIsFollowed`, `StatusFollows`, `ConfigIsFollowed`, `HedgesWhenNeeded`), which is out
of this prover's reach (as are ENABLED and induction over data). Of three of them a theorem
has the safety half, above.

## 5. What is not modelled

- Election: deletion of the Lease by hand, wall clocks that jump, `run_with_leadership_sync`
  (nothing calls it), the disabled-lease path, `KubernetesLeaseBackend`'s conversion of
  times (microseconds) and names.
- Account push: `daemon_broker_writes_off`, which skips the listener; several accounts in
  one snapshot; the summary log.
- Lifecycle: what the status says but the daemon_state, configuration from the database,
  commands that only write to Redis (each delays the next command, as `refresh_accounts`
  does), the last status write of `entry.py`, the counters behind `/metrics`.
- Hedge: pricing and greeks as numbers, option leg selection, contract quotes, the market
  regime (nothing decides on it), the circuit breaker (nothing trips it), `max_net_delta`
  (never read), RISK_HALT (never raised).
- Logging, metrics, and `bifrost_core`, which is not in this repository.

### Known divergences without a run
Read in the source while modelling; each is in the model as the code has it.
- A handler that raises after a stop moves STOPPING to STOPPED without cleanup
  (`daemon_handlers.py:208-211`); the sink and the reader then stay open.
- `handle_stopping` closes the account writer before it cancels the heartbeat (`:133-136`),
  whose forced write may open a new connection, which stays open (with no transaction in
  it: `NoOrphanTransaction`) until the process ends; `entry.py:85-89` writes the last status to
  a sink that is already closed.
- Without a quote at the start, START and SYNCED are never applied and the TradingFSM stays
  in BOOT (`daemon_handlers.py:53-66`). Nothing in the daemon fires MANUAL_RESUME,
  BROKER_UP or HEDGE_FAILED, so SAFE is final until a restart (`OutUntilRestart`).
- A config reload does not reach the TradingFSM (`gs_trading.py:106-110,172`), and
  `update_config` ignores None, so that a limit cannot be removed.
- The reload loop's first check, one interval after the start, only remembers the mtime
  (`gs_trading.py:222-223`): a change before it is taken for the config already loaded, and
  is used only after the next change.
- `add_signal_handler` in `_run_gs_trading` (`entry.py:75-82`) replaces the handlers of the
  elector: while leading, a signal stops the service, and the election ends with it.
- The elector calls the Kubernetes client in the event loop: a slow call stalls the service
  too, which `MaxDelay` covers.
- A restart forgets the cooldown and the daily count.
- With two threads on one connection the tables may hold parts of two snapshots, until the
  next write: a COMMIT of the one (`account_push.py:164`, or that of the SETs, `:115`), or a
  rollback, falls between two statements of the other (`:163`).
- Positions are used for an hour (`snapshot.py:164-170`, `gs_trading.py:141`), the cooldown is
  shorter, and a hedge does not change them in the store: two hedges after one lookup may go
  past zero delta together. Orders are only simulated.
- A ticker whose price cannot be used still makes the data count as fresh
  (`ticker_redis.py:23`).
- The intent is empty at exactly the threshold, though the docstring has `>=`
  (`gamma_scalper.py:91` against 99 and 106); `HedgesReduceDelta` claims only what both have,
  that there is no hedge below it.
- `should_output_target` (`hedge_gate.py:18-34`) is never called: from NEED_HEDGE a hedge may
  go out in a market that has become wide.
- An exception of `write_snapshot` after the fill leaves the TradingFSM in HEDGING
  (`hedge_flow.py:143-147`).

## 6. Plan

Done: election with settings per pod, its refinement and proofs; account push with the
order of its shutdown, its refinement, and its wake-ups; lifecycle with heartbeat, status and
config reload, as the service that the election starts, and the length of its shutdown;
both machines; the hedge pass with its lookups and the suspended flag, as the desk that the owner
of the account relies on; the proofs of all of them.

Next: the safety halves of `StatusFollows` and `SuspensionIsFollowed`, that whoever leaves
the status or the FSM behind the flag is a task that still has a step to take.

## 7. Running

    tlc -workers 2 -config LeaderElection.cfg MCLeaderElection
    tlapm LeaderElectionProofs.tla

The module and cfg of each run are in `PROJECT.json` "runs".
