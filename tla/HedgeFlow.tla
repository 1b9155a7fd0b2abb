------------------------------ MODULE HedgeFlow ------------------------------
(***************************************************************************)
(* How the daemon hedges: each heartbeat builds a snapshot of the world,   *)
(* ticks the TradingFSM, and if that needs a hedge computes one            *)
(* (strategy/gamma_scalper.py), gates it (strategy/hedge_gate.py and       *)
(* guards/execution_guard.py), and simulates the order on the HedgeFSM     *)
(* (app/hedge_flow.py, app/snapshot.py, core/state/classifier.py).         *)
(*                                                                         *)
(* The positions are those the store holds.  They are looked up only when  *)
(* RefreshInterval has passed since the last time, and that is awaited: a  *)
(* pass has polled the suspended flag before.  The rest is one action.     *)
(***************************************************************************)
EXTENDS HedgeFSM, TradingFSM

CONSTANTS
    Configs,       \* the configurations: the first one, and what reloads bring
    Quotes,        \* [price, spread]: what the quote in Redis may be
    Books,         \* [delta, stock, option, greeks]: what the account may hold
                   \* when it is looked up
    Tickers,       \* something calls on_ticker
    DayLength,     \* instants in a day
    RefreshInterval,  \* how long the positions looked up are good for
    Closed,        \* instants outside trading hours or in an earnings blackout
    MaxTime,       \* bound of the clock
    MaxToggles,    \* bound of the changes of the suspended flag
    MaxReloads,    \* bound of the config reloads
    MaxRestarts    \* bound of the restarts

ASSUME ConfigAssumption ==
    \A c \in Configs :
        /\ {c.epsilon, c.threshold, c.maxDelta, c.maxOrder, c.minHedge,
            c.maxPosition, c.cooldown, c.maxDaily, c.movePct, c.maxLag,
            c.wideSpread, c.extremeSpread} \subseteq Nat
        /\ {c.guardSpread, c.riskSpread} \subseteq Nat \cup {None}
        /\ c.strategyEnabled \in BOOLEAN
ASSUME WorldAssumption ==
    /\ \A q \in Quotes : q.price \in Nat \ {0} /\ q.spread \in Nat \cup {None}
    /\ \A b \in Books : /\ b.delta \in Int /\ b.stock \in Int
                        /\ b.option \in BOOLEAN /\ b.greeks \in {"valid", "bad"}
ASSUME BoundsAssumption ==
    /\ Tickers \in BOOLEAN /\ DayLength \in Nat \ {0} /\ Closed \subseteq Nat
    /\ {RefreshInterval, MaxTime, MaxToggles, MaxReloads, MaxRestarts} \subseteq Nat
ASSUME NoneAssumption == None \notin Int

VARIABLES
    trading,    \* TradingFSM.state
    guard,      \* ExecutionGuard: daily count and date, last hedge, max_spread_pct
    store,      \* Store and MarketData: spot, spread, ts, last hedge price
    config,     \* the config of the app: the classifier's and the hedge's
    fsmConfig,  \* the config that the TradingFSM was made with
    held,       \* the positions in the store, or None: no symbol to trade
    refreshed,  \* when they were last looked up: _last_positions_refresh_ts
    booted,     \* handle_connected has run
    alive,      \* the heartbeat task lives
    pass,       \* what awaits a lookup: "idle", nothing; "status", the bootstrap
                \* or the status; "hedge", eval_hedge, which is "looked" after it
    suspended,  \* the suspended flag in the Redis trading state
    quote,      \* the quote in Redis, or None
    clock,
    sent,       \* history: today's hedges, of all processes and of this one;
                \* this one's last hedge: its time, price and shares; and the
                \* hedges since the suspended flag was set
    toggles, reloads, restarts

positions == <<held, refreshed>>
process == <<trading, hedge, guard, store, config, fsmConfig, positions, booted,
             alive, pass>>
world == <<suspended, quote, clock>>
bounds == <<toggles, reloads, restarts>>
vars == <<process, world, sent, bounds>>

Day(t) == t \div DayLength

TypeOK ==
    /\ trading \in TradingStates
    /\ MachineOK
    /\ guard \in [count : Nat, date : Nat \cup {None}, last : Nat \cup {None},
                  maxSpread : Nat \cup {None}]
    /\ store \in [spot : Nat \cup {None}, spread : Nat \cup {None},
                  ts : Nat \cup {None}, hedgePrice : Nat \cup {None}]
    /\ config \in Configs /\ fsmConfig \in Configs
    /\ booted \in BOOLEAN /\ alive \in BOOLEAN
    /\ held \in Books \cup {None}
    /\ refreshed \in 0 .. MaxTime \cup {None}
    /\ pass \in {"idle", "status", "hedge", "looked"}
    /\ suspended \in BOOLEAN
    /\ quote = None \/ \E q \in Quotes :
           /\ quote.price = q.price /\ quote.spread = q.spread
           /\ quote.ts \in 0 .. MaxTime
    /\ clock \in 0 .. MaxTime
    /\ sent \in [today : Nat, mine : Nat, at : Nat \cup {None},
                 price : Nat \cup {None}, shares : Int, late : Nat]
    /\ toggles \in 0 .. MaxToggles
    /\ reloads \in 0 .. MaxReloads
    /\ restarts \in 0 .. MaxRestarts

NewStore == [spot |-> None, spread |-> None, ts |-> None, hedgePrice |-> None]
NewGuard(cfg) == [count |-> 0, date |-> None, last |-> None,
                  maxSpread |-> cfg.guardSpread]
NothingSent(today, late) ==
    [today |-> today, mine |-> 0, at |-> None, price |-> None, shares |-> 0,
     late |-> late]
NewMachine == [state |-> "EXEC_IDLE", target |-> NoTarget, need |-> 0,
               connected |-> TRUE]

Init ==
    /\ config \in Configs /\ fsmConfig = config
    /\ trading = "BOOT"
    /\ hedge = NewMachine
    /\ guard = NewGuard(config)
    /\ store = NewStore
    /\ held = None /\ refreshed = None
    /\ booted = FALSE /\ alive = TRUE
    /\ pass = "idle"
    /\ suspended \in BOOLEAN
    /\ quote = None
    /\ clock = 0
    /\ sent = NothingSent(0, 0)
    /\ toggles = 0 /\ reloads = 0 /\ restarts = 0

-----------------------------------------------------------------------------
(* The snapshot *)

\* refresh_and_build_snapshot: the positions are due.
Due == IF refreshed = None THEN TRUE ELSE clock - refreshed >= RefreshInterval

\* The quote is read from Redis only with a symbol and while the store has no
\* price.  (Bid and ask lie around the last price.)
Fresh ==
    IF held # None /\ store.spot = None /\ quote # None
      THEN [store EXCEPT !.spot = quote.price, !.spread = quote.spread,
                         !.ts = quote.ts]
      ELSE store
HasSnapshot == held # None /\ Fresh.spot # None

Lag(s) == IF s.ts = None THEN None ELSE clock - s.ts

\* StateClassifier
Liquidity(spread) ==
    IF spread = None THEN "NO_QUOTE"
    ELSE IF spread >= config.extremeSpread THEN "EXTREME_WIDE"
    ELSE IF spread >= config.wideSpread THEN "WIDE" ELSE "NORMAL"

Health(s) ==
    IF held.greeks # "valid" THEN "GREEKS_BAD"
    ELSE IF Lag(s) # None /\ Lag(s) > config.maxLag THEN "DATA_LAG" ELSE "OK"

\* D3: a delta this far off skips the cooldown.
ForceHedge == held.greeks = "valid" /\ Abs(held.delta) >= config.maxDelta
                                    /\ Abs(held.delta) > config.epsilon

Snapshot(s) ==
    [lag |-> Lag(s), spot |-> s.spot, spread |-> s.spread,
     L |-> Liquidity(s.spread), E |-> ExecutionState(hedge), S |-> Health(s),
     greeks |-> held.greeks, option |-> held.option /\ held.greeks = "valid",
     delta |-> held.delta, hedgePrice |-> s.hedgePrice]

RetryAllowed == guard.count < config.maxDaily

\* apply_transition(event, snapshot) of the app's TradingFSM in `state`.
Apply(state, event, s) ==
    Transition(state, event, Snapshot(s), fsmConfig, RetryAllowed)

-----------------------------------------------------------------------------
(* The hedge and its gates *)

\* gamma_scalper_intent, for the shares of `need` = -delta.  Signed: a sale is
\* negative.  0 is no intent.
Min2(a, b) == IF a < b THEN a ELSE b
Mut_IntentIsDelta ==               \* need is the delta, and not its opposite
    CASE held.delta > config.threshold  -> Min2(held.delta, config.maxOrder)
      [] held.delta < -config.threshold -> -Min2(-held.delta, config.maxOrder)
      [] OTHER                          -> 0
Mut_IntentUncapped ==
    IF Abs(held.delta) > config.threshold THEN -held.delta ELSE 0
Intent ==
    LET need == -held.delta IN
    CASE need > config.threshold  -> Min2(need, config.maxOrder)
      [] need < -config.threshold -> -Min2(-need, config.maxOrder)
      [] OTHER                    -> 0

\* compute_target_position
Target == held.stock - held.delta

\* _reset_daily_if_new_day: only for a count that has a date.
ResetDaily(g) ==
    IF g.date # None /\ g.date # Day(clock)
      THEN [g EXCEPT !.count = 0, !.date = Day(clock)]
      ELSE g

\* allow_hedge
AllowHedge(g, s) ==
    /\ clock \notin Closed
    /\ ~ForceHedge /\ g.last # None => clock - g.last >= config.cooldown
    /\ g.count < config.maxDaily
    /\ Abs(held.stock + Intent) <= config.maxPosition
    /\ g.maxSpread # None /\ s.spread # None => s.spread <= g.maxSpread
    /\ PriceMoved(s.spot, s.hedgePrice, config.movePct)

\* The pass gets to the ExecutionGuard, which may reset its count.
Asked(state) ==
    /\ state = "NEED_HEDGE"
    /\ Intent # 0
    /\ Abs(Intent) >= config.minHedge

Approved(state, s) ==
    /\ Asked(state)
    /\ AllowHedge(ResetDaily(guard), s)
    /\ CanPlaceOrder(hedge)

\* record_hedge_sent
Mut_RecordNoTime(g) == [ResetDaily(g) EXCEPT !.count = @ + 1]
Mut_RecordBackdated(g) ==
    [ResetDaily(g) EXCEPT !.count = @ + 1, !.last = clock - config.cooldown]
RecordHedgeSent(g) ==
    LET r == ResetDaily(g) IN [r EXCEPT !.count = @ + 1, !.last = clock]

\* hedge(): the machine from the target to the simulated fill.
Mut_NeverFilled(m) ==
    OnAckOk(OnOrderPlaced(OnPlanDecide(OnTarget(m, Target, held.stock), TRUE)))
Simulated(m) ==
    LET planned == OnPlanDecide(OnTarget(m, Target, held.stock),
                                Abs(Intent) >= config.minHedge)
    IN  OnFullFill(OnAckOk(OnOrderPlaced(planned)))

-----------------------------------------------------------------------------
(* The passes *)

\* refresh_and_build_snapshot finds the positions due and awaits the lookup: for
\* the bootstrap or a heartbeat's status, or for eval_hedge, which has found the
\* flag clear.  What it counts from is the time before the lookup.
BeginLookUp ==
    /\ alive /\ pass = "idle"
    /\ Due
    /\ pass' \in {"status", "hedge"}
    /\ pass' = "hedge" => booted /\ ~suspended
    /\ refreshed' = clock
    /\ UNCHANGED <<trading, hedge, guard, store, config, fsmConfig, held, booted,
                   alive, world, sent, bounds>>

\* It is over: the store holds what the account holds by then, or what it held.
LookUp ==
    /\ pass \in {"status", "hedge"}
    /\ held' \in Books \cup {None}
    /\ pass' = IF pass = "hedge" THEN "looked" ELSE "idle"
    /\ UNCHANGED <<trading, hedge, guard, store, config, fsmConfig, refreshed,
                   booted, alive, world, sent, bounds>>

\* handle_connected: the TradingFSM is started if there is a snapshot.
Bootstrap ==
    /\ ~booted
    /\ pass = "idle" /\ ~Due
    /\ booted' = TRUE
    /\ store' = Fresh
    /\ trading' = IF HasSnapshot
                    THEN Apply(Apply(trading, "START", Fresh), "SYNCED", Fresh)
                    ELSE trading
    /\ UNCHANGED <<hedge, guard, config, fsmConfig, positions, alive, pass, world,
                   sent, bounds>>

\* A heartbeat that does not hedge: the snapshot for the status.
Refresh ==
    /\ booted /\ alive
    /\ pass = "idle" /\ ~Due
    /\ store' = Fresh
    /\ UNCHANGED <<trading, hedge, guard, config, fsmConfig, positions, booted,
                   alive, pass, world, sent, bounds>>

\* eval_hedge goes on after its lookup, whatever the flag is by then; without one
\* it has just polled the flag.
Mut_MayEval == booted /\ alive /\ (pass = "looked" \/ (pass = "idle" /\ ~Due))
MayEval ==
    /\ booted /\ alive
    /\ \/ pass = "looked"
       \/ pass = "idle" /\ ~suspended /\ ~Due

\* There is no symbol or no spot: the pass ends.
EvalNothing ==
    /\ MayEval
    /\ ~HasSnapshot
    /\ pass' = "idle"
    /\ store' = Fresh
    /\ UNCHANGED <<trading, hedge, guard, config, fsmConfig, positions, booted,
                   alive, world, sent, bounds>>

\* eval_hedge, with a snapshot, up to the hedge or to the gate that stops it.
Ticked == Apply(trading, "TICK", Fresh)

EvalOnly ==
    /\ MayEval
    /\ HasSnapshot
    /\ ~Approved(Ticked, Fresh)
    /\ store' = Fresh
    /\ trading' = Ticked
    /\ guard' = IF Asked(Ticked) THEN ResetDaily(guard) ELSE guard
    /\ pass' = "idle"
    /\ UNCHANGED <<hedge, config, fsmConfig, positions, booted, alive, world, sent,
                   bounds>>

\* eval_hedge with a hedge: TARGET_EMITTED, hedge(), HEDGE_DONE.  If a write of
\* the snapshot raises, the task of the heartbeat dies there: before the target
\* is emitted, or after the fill and before HEDGE_DONE.
Emitted == Apply(Ticked, "TARGET_EMITTED", Fresh)

Mut_HedgedNoPrice ==
    /\ hedge' = Simulated(hedge)
    /\ guard' = RecordHedgeSent(guard)
    /\ store' = Fresh
    /\ sent' = [today |-> sent.today + 1, mine |-> sent.mine + 1,
                at |-> clock, price |-> Fresh.spot, shares |-> Intent,
                late |-> IF suspended THEN sent.late + 1 ELSE 0]
Hedged ==
    /\ hedge' = Simulated(hedge)
    /\ guard' = RecordHedgeSent(guard)
    /\ store' = [Fresh EXCEPT !.hedgePrice = Fresh.spot]
    /\ sent' = [today |-> sent.today + 1, mine |-> sent.mine + 1,
                at |-> clock, price |-> Fresh.spot, shares |-> Intent,
                late |-> IF suspended THEN sent.late + 1 ELSE 0]

EvalHedge ==
    /\ MayEval
    /\ HasSnapshot
    /\ Approved(Ticked, Fresh)
    /\ \/ /\ Hedged
          /\ trading' = Apply(Emitted, "HEDGE_DONE", Fresh)
          /\ UNCHANGED alive
       \/ /\ Hedged
          /\ trading' = Emitted
          /\ alive' = FALSE
       \/ /\ store' = Fresh
          /\ trading' = Ticked
          /\ guard' = ResetDaily(guard)
          /\ alive' = FALSE
          /\ UNCHANGED <<hedge, sent>>
    /\ pass' = "idle"
    /\ UNCHANGED <<config, fsmConfig, positions, booted, world, bounds>>

\* on_ticker_for_symbol, for the symbol traded; a ticker whose price cannot be
\* used leaves nothing but its time.
Tickered(newStore) ==
    /\ Tickers /\ booted
    /\ store' = newStore
    /\ UNCHANGED <<trading, hedge, guard, config, fsmConfig, positions, booted,
                   alive, pass, world, sent, bounds>>
Ticker(q) ==
    Tickered([store EXCEPT !.spot = q.price, !.ts = clock,
                           !.spread = IF q.spread = None THEN @ ELSE q.spread])
BadTicker == Tickered([store EXCEPT !.ts = clock])

\* _reload_config: the app's config and the guard's limits, of which None ones
\* are left as they were; the TradingFSM keeps the config it was made with.
Reload(cfg) ==
    /\ booted
    /\ reloads < MaxReloads
    /\ reloads' = reloads + 1
    /\ config' = cfg
    /\ guard' = IF cfg.guardSpread = None THEN guard
                  ELSE [guard EXCEPT !.maxSpread = cfg.guardSpread]
    /\ UNCHANGED <<trading, hedge, store, fsmConfig, positions, booted, alive, pass,
                   world, sent, toggles, restarts>>

\* The pod dies, or loses the Lease, and a new process leads: it knows nothing.
Restart ==
    /\ restarts < MaxRestarts
    /\ restarts' = restarts + 1
    /\ trading' = "BOOT"
    /\ hedge' = NewMachine
    /\ guard' = NewGuard(config)
    /\ store' = NewStore
    /\ fsmConfig' = config
    /\ held' = None /\ refreshed' = None
    /\ booted' = FALSE /\ alive' = TRUE
    /\ pass' = "idle"
    /\ sent' = NothingSent(sent.today, sent.late)
    /\ UNCHANGED <<config, world, toggles, reloads>>

-----------------------------------------------------------------------------
(* The world *)

Publish(q) ==
    /\ quote' = [price |-> q.price, spread |-> q.spread, ts |-> clock]
    /\ UNCHANGED <<process, suspended, clock, sent, bounds>>

\* Monitoring suspends trading or resumes it.
Toggle ==
    /\ toggles < MaxToggles
    /\ toggles' = toggles + 1
    /\ suspended' = ~suspended
    /\ sent' = [sent EXCEPT !.late = 0]
    /\ UNCHANGED <<process, quote, clock, reloads, restarts>>

Tick ==
    /\ clock < MaxTime
    /\ clock' = clock + 1
    /\ sent' = IF Day(clock') = Day(clock) THEN sent
                 ELSE [sent EXCEPT !.today = 0, !.mine = 0]
    /\ UNCHANGED <<process, suspended, quote, bounds>>

Eval == EvalNothing \/ EvalOnly \/ EvalHedge

Next ==
    \/ BeginLookUp \/ LookUp \/ Bootstrap \/ Refresh \/ Eval
    \/ BadTicker \/ \E q \in Quotes : Ticker(q) \/ Publish(q)
    \/ \E cfg \in Configs : Reload(cfg)
    \/ Restart
    \/ Toggle \/ Tick

Spec == Init /\ [][Next]_vars

\* The heartbeat keeps passing, with or without a hedge to send, and the lookups
\* it awaits end.
Fairness ==
    /\ WF_vars(BeginLookUp) /\ WF_vars(LookUp)
    /\ WF_vars(Bootstrap) /\ WF_vars(Refresh) /\ WF_vars(Eval)

FairSpec == Spec /\ Fairness

-----------------------------------------------------------------------------
(* Properties.  Sent is a step that simulates an order; the state before it  *)
(* is what the pass saw of the positions held, the clock and the             *)
(* configuration.                                                            *)

Sent == sent'.today > sent.today

\* A hedge goes out only on data that is valid, quoted, and by its time fresh
\* (the time of the last ticker, whether its price could be used or not), by the
\* thresholds of the TradingFSM, even though the pass that decided to need one
\* may be many passes back.
HedgesOnGoodData ==
    [][Sent => /\ DataOk(Snapshot(Fresh), fsmConfig)
              /\ ~GreeksBad(Snapshot(Fresh))
              /\ ~BrokerDown(Snapshot(Fresh))]_vars

\* A hedge is for positions that this process has looked up, in the pass that
\* sends it or within RefreshInterval before.  It brings their delta closer to
\* zero and never past it, is no larger and no smaller than an order may be, and
\* there is none below the threshold.  (The account may have moved since the
\* lookup, and two hedges after one lookup may go past zero together.)
HedgesReduceDelta ==
    [][Sent =>
        LET after == held.delta + sent'.shares IN
        /\ held # None
        /\ pass = "looked" \/ clock - refreshed < RefreshInterval
        /\ Abs(held.delta) >= config.threshold
        /\ Abs(after) < Abs(held.delta)
        /\ held.delta * after >= 0
        /\ Abs(sent'.shares) \in config.minHedge .. config.maxOrder]_vars

\* No hedge goes out while the market is closed, takes the stock position held out
\* of its limit, is one more than this process may send, or follows the last
\* one of this process within the cooldown unless the delta is at its limit.
\* A restart forgets the count: it costs one daily limit more and no more, of
\* the highest limit there was if reloads change it.
HedgesWithinLimits ==
    [][Sent =>
        /\ clock \notin Closed
        /\ Abs(held.stock + sent'.shares) <= config.maxPosition
        /\ sent'.mine <= config.maxDaily
        /\ \E c \in Configs : sent'.today <= c.maxDaily * (restarts + 1)
        /\ sent.at # None /\ clock - sent.at < config.cooldown
               => Abs(held.delta) >= config.maxDelta]_vars

\* No hedge goes out at the price of this process's last one.
HedgesMoveWithPrice ==
    [][Sent /\ sent.price # None
        => PriceMoved(Fresh.spot, sent.price, config.movePct)]_vars

\* A strategy that has gone to SAFE, or that was not started because there was no
\* price, is out for the life of its process: no tick, quote, reload or resumed
\* flag brings it back, and it sends nothing.
Out == booted /\ trading \in {"BOOT", "SAFE"}
OutUntilRestart ==
    [][Out => ~Sent /\ (Out' \/ restarts' > restarts)]_vars

\* A flag that is set stops hedging, but for the pass that has polled it before:
\* at most one more hedge goes out until it is cleared.
SuspensionStopsHedging == suspended => sent.late <= 1

\* Taken together: the daemon is a desk, which sends while it is open only, and
\* is out with a strategy that is, or with a heartbeat that has died.
Desk ==
    CASE ~booted -> "shut"
      [] booted /\ alive /\ trading \notin {"BOOT", "SAFE"} -> "open"
      [] OTHER -> "out"
Trader == INSTANCE HedgeDesk
              WITH Limits <- {c.maxDaily : c \in Configs},
                   desk <- Desk, order <- sent.shares,
                   known <- IF held = None THEN 0 ELSE held.delta,
                   mine <- sent.mine, today <- sent.today,
                   flag <- suspended, late <- sent.late
DeskSpec == Trader!Spec

\* Between passes the hedge is settled: the HedgeFSM takes the next target, and
\* the TradingFSM has left HEDGING, unless the pass died on the way.
HedgeIsSettled ==
    /\ CanPlaceOrder(hedge)
    /\ trading = "HEDGING" => ~alive

\* The market, the account and the gates let a first hedge through.
Tradable ==
    /\ alive /\ ~suspended
    /\ trading \notin {"BOOT", "SAFE"}
    /\ config = fsmConfig /\ config.threshold >= config.epsilon
    /\ HasSnapshot /\ ~Unsafe(Snapshot(Fresh), config)
    /\ Snapshot(Fresh).option
    /\ CostOk(Snapshot(Fresh), config) /\ LiquidityOk(Snapshot(Fresh), config)
    /\ Asked("NEED_HEDGE")
    /\ AllowHedge(guard, Fresh)

\* A strategy that was started, and that could trade from some moment on, does
\* send a hedge: from every state of the TradingFSM but BOOT and SAFE the ticks
\* lead to NEED_HEDGE.
HedgesWhenNeeded == <>[](Tradable \/ guard.count > 0) => <>[](guard.count > 0)

-----------------------------------------------------------------------------
(* What the code's comments and tests say, and the code does not do *)

\* execution_guard.py: max daily hedges; the count is that of the current day.
CountIsOfToday == guard.count <= sent.mine

\* snapshot.py: positions and spot are refreshed.
SpotFollowsQuote ==
    \A q \in Quotes :
        <>[](quote # None /\ quote.price = q.price /\ booted /\ alive /\ held # None)
            => <>[](store.spot = q.price)
=============================================================================
