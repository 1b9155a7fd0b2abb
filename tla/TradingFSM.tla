----------------------------- MODULE TradingFSM -----------------------------
(***************************************************************************)
(* The macro state machine of the strategy (daemon/fsm/trading_fsm.py) and *)
(* the guards it evaluates (daemon/guards/trading_guard.py) on a snapshot  *)
(* of the world: BOOT, SYNC, IDLE, ARMED, MONITOR and so on to NEED_HEDGE, *)
(* HEDGING and back.  Pure operators: HedgeFlow holds the state.           *)
(*                                                                         *)
(* A snapshot has the fields lag, spot, spread, L, E, S, greeks, option,   *)
(* delta and hedgePrice; a configuration those of Config in HedgeFlow.     *)
(* Shares, prices and percents are integers.                               *)
(***************************************************************************)
EXTENDS Integers

CONSTANT None    \* a value the code holds as None

TradingStates == {"BOOT", "SYNC", "IDLE", "ARMED", "MONITOR", "NO_TRADE",
                  "PAUSE_COST", "PAUSE_LIQ", "NEED_HEDGE", "HEDGING", "SAFE"}

Abs(n) == IF n < 0 THEN -n ELSE n

-----------------------------------------------------------------------------
(* TradingGuard *)

DataOk(snap, cfg) ==
    /\ snap.lag # None => snap.lag <= cfg.maxLag
    /\ snap.L # "NO_QUOTE"
    /\ snap.spot # None

GreeksBad(snap) == snap.greeks # "valid"

BrokerDown(snap) == snap.E \in {"DISCONNECTED", "BROKER_ERROR"}

\* The price has moved by movePct percent since the last hedge, if any.
PriceMoved(spot, hedgePrice, movePct) ==
    movePct > 0 /\ spot # None /\ hedgePrice # None =>
        100 * Abs(spot - hedgePrice) >= movePct * hedgePrice

CostOk(snap, cfg) ==
    /\ snap.spread # None => snap.spread < cfg.extremeSpread
    /\ PriceMoved(snap.spot, snap.hedgePrice, cfg.movePct)

LiquidityOk(snap, cfg) ==
    /\ snap.L \notin {"NO_QUOTE", "EXTREME_WIDE"}
    /\ cfg.riskSpread # None /\ snap.spread # None => snap.spread <= cfg.riskSpread

InNoTradeBand(snap, cfg) == Abs(snap.delta) <= cfg.epsilon

DeltaBandReady(snap, cfg) == ~GreeksBad(snap) /\ cfg.threshold >= cfg.epsilon

PositionsOk(snap, cfg) == DataOk(snap, cfg) /\ snap.S # "RISK_HALT"

-----------------------------------------------------------------------------
(* TradingFSM *)

\* Any state -> SAFE (broker_down and exec_fault are the same test).
Mut_UnsafeButStale(snap, cfg) == BrokerDown(snap) \/ GreeksBad(snap)
Unsafe(snap, cfg) == BrokerDown(snap) \/ ~DataOk(snap, cfg) \/ GreeksBad(snap)

HandleSync(snap, cfg) ==
    IF PositionsOk(snap, cfg) THEN "IDLE"
    ELSE IF ~DataOk(snap, cfg) \/ BrokerDown(snap) THEN "SAFE" ELSE "SYNC"

HandleIdle(snap, cfg) ==
    IF Unsafe(snap, cfg) THEN "SAFE"
    ELSE IF snap.option /\ cfg.strategyEnabled THEN "ARMED" ELSE "IDLE"

HandleArmed(snap, cfg) == IF DeltaBandReady(snap, cfg) THEN "MONITOR" ELSE "ARMED"

\* MONITOR and NO_TRADE: where the delta, the cost and the liquidity lead.
HandleMonitor(snap, cfg) ==
    IF InNoTradeBand(snap, cfg) THEN "NO_TRADE"
    ELSE IF ~CostOk(snap, cfg) THEN "PAUSE_COST"
    ELSE IF ~LiquidityOk(snap, cfg) THEN "PAUSE_LIQ" ELSE "NEED_HEDGE"

\* A pause stays the pause it is until the delta, or both tests, end it.
Mut_PauseStays(state, snap, cfg) ==
    IF InNoTradeBand(snap, cfg) THEN "NO_TRADE" ELSE state
HandlePause(state, snap, cfg) ==
    IF InNoTradeBand(snap, cfg) THEN "NO_TRADE"
    ELSE IF CostOk(snap, cfg) /\ LiquidityOk(snap, cfg) THEN "NEED_HEDGE"
    ELSE state

\* NEED_HEDGE, HEDGING, BOOT and SAFE have no row for a tick.
Mut_TickRecovers(state, snap, cfg) ==      \* SAFE ends with what led there
    CASE state \in {"SYNC", "SAFE"}            -> HandleSync(snap, cfg)
      [] state = "IDLE"                       -> HandleIdle(snap, cfg)
      [] state = "ARMED"                      -> HandleArmed(snap, cfg)
      [] state \in {"MONITOR", "NO_TRADE"}    -> HandleMonitor(snap, cfg)
      [] state \in {"PAUSE_COST", "PAUSE_LIQ"} -> HandlePause(state, snap, cfg)
      [] OTHER                                -> state
HandleTick(state, snap, cfg) ==
    CASE state = "SYNC"                       -> HandleSync(snap, cfg)
      [] state = "IDLE"                       -> HandleIdle(snap, cfg)
      [] state = "ARMED"                      -> HandleArmed(snap, cfg)
      [] state \in {"MONITOR", "NO_TRADE"}    -> HandleMonitor(snap, cfg)
      [] state \in {"PAUSE_COST", "PAUSE_LIQ"} -> HandlePause(state, snap, cfg)
      [] OTHER                                -> state

TickEvents == {"SYNCED", "QUOTE", "TICK", "GREEKS_UPDATE"}

\* apply_transition: the state after an event.  retry is retry_allowed.
Transition(state, event, snap, cfg, retry) ==
    IF Unsafe(snap, cfg) THEN "SAFE"
    ELSE
    CASE event = "SHUTDOWN"                                 -> state
      [] event = "START" /\ state = "BOOT"                  -> "SYNC"
      [] event \in TickEvents                               -> HandleTick(state, snap, cfg)
      [] event = "TARGET_EMITTED" /\ state = "NEED_HEDGE"   -> "HEDGING"
      [] event = "HEDGE_DONE" /\ state = "HEDGING"          -> "MONITOR"
      [] event = "HEDGE_FAILED" /\ state = "HEDGING"        ->
             IF retry THEN "NEED_HEDGE" ELSE "SAFE"
      [] event \in {"MANUAL_RESUME", "BROKER_UP"} /\ state = "SAFE" -> "SYNC"
      [] OTHER                                              -> state
=============================================================================
