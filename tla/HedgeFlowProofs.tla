-------------------------- MODULE HedgeFlowProofs --------------------------
(***************************************************************************)
(* Proofs about HedgeFlow, for any configurations, quotes, positions, days *)
(* and bounds.                                                             *)
(*                                                                         *)
(*   Inv        TypeOK, with what the process remembers of its hedges      *)
(*              (Remembered), what the suspended flag has let through      *)
(*              (LateInv), and HedgeIsSettled.                             *)
(*   DailyInv   the hedges of the day are bounded by the restarts and the  *)
(*              highest daily limit that reloads have brought.             *)
(*                                                                         *)
(* Everything about a hedge starts from SentIsApproved: only a pass that   *)
(* has come through every gate sends one.  ImplementsDesk puts the results *)
(* together: every step is a step of the HedgeDesk, or none of its.        *)
(***************************************************************************)
EXTENDS HedgeFlow, TLAPS

Stores == [spot : Nat \cup {None}, spread : Nat \cup {None},
           ts : Nat \cup {None}, hedgePrice : Nat \cup {None}]
Guards == [count : Nat, date : Nat \cup {None}, last : Nat \cup {None},
           maxSpread : Nat \cup {None}]
SentType == [today : Nat, mine : Nat, at : Nat \cup {None},
             price : Nat \cup {None}, shares : Int, late : Nat]
QuoteOK == quote = None \/ \E q \in Quotes :
               /\ quote.price = q.price /\ quote.spread = q.spread
               /\ quote.ts \in 0 .. MaxTime

\* The guard and the store know the last hedge of this process, and the guard
\* counts no fewer than it has sent today.
Remembered ==
    /\ guard.date = None
    /\ sent.mine <= guard.count
    /\ sent.at = guard.last
    /\ sent.price = store.hedgePrice

\* One hedge is late only when the pass that polled the flag is over.
LateInv == suspended => /\ sent.late <= 1
                        /\ pass \in {"hedge", "looked"} => sent.late = 0

Inv == TypeOK /\ Remembered /\ LateInv /\ HedgeIsSettled

-----------------------------------------------------------------------------
(* Operators *)

LEMMA ConfigType ==
    ASSUME NEW c \in Configs
    PROVE  /\ c.threshold \in Nat /\ c.maxOrder \in Nat /\ c.minHedge \in Nat
           /\ c.maxDaily \in Nat /\ c.cooldown \in Nat /\ c.maxDelta \in Nat
           /\ c.guardSpread \in Nat \cup {None}
BY ConfigAssumption

LEMMA FreshType ==
    ASSUME TypeOK
    PROVE  Fresh \in Stores /\ Fresh.hedgePrice = store.hedgePrice
<1>1. store \in Stores /\ QuoteOK
  BY DEF TypeOK, Stores, QuoteOK
<1>2. CASE held # None /\ store.spot = None /\ quote # None
  <2>1. quote.price \in Nat /\ quote.spread \in Nat \cup {None} /\ quote.ts \in Nat
    BY <1>1, <1>2, WorldAssumption, BoundsAssumption DEF QuoteOK
  <2>2. QED  BY <1>1, <1>2, <2>1 DEF Fresh, Stores
<1>3. CASE ~(held # None /\ store.spot = None /\ quote # None)
  BY <1>1, <1>3 DEF Fresh
<1>4. QED  BY <1>2, <1>3

LEMMA TransitionType ==
    ASSUME NEW state \in TradingStates, NEW event, NEW snap, NEW cfg, NEW retry
    PROVE  Transition(state, event, snap, cfg, retry) \in TradingStates
BY DEF Transition, HandleTick, HandleSync, HandleIdle, HandleArmed, HandleMonitor,
       HandlePause, TradingStates

\* Only TARGET_EMITTED leads into HEDGING, and HEDGE_DONE out of it.
LEMMA TransitionHedging ==
    ASSUME NEW state \in TradingStates, NEW event, NEW snap, NEW cfg, NEW retry,
           Transition(state, event, snap, cfg, retry) = "HEDGING"
    PROVE  /\ event # "HEDGE_DONE"
           /\ event # "TARGET_EMITTED" => state = "HEDGING"
BY DEF Transition, HandleTick, HandleSync, HandleIdle, HandleArmed, HandleMonitor,
       HandlePause, TradingStates, TickEvents

LEMMA ApplyType ==
    ASSUME NEW state \in TradingStates, NEW event, NEW s
    PROVE  /\ Apply(state, event, s) \in TradingStates
           /\ Apply(state, event, s) = "HEDGING"
                => /\ event # "HEDGE_DONE"
                   /\ event # "TARGET_EMITTED" => state = "HEDGING"
BY TransitionType, TransitionHedging DEF Apply

LEMMA IntentType ==
    ASSUME TypeOK, held # None
    PROVE  Intent \in Int /\ Abs(Intent) \in Nat /\ held.delta \in Int
           /\ held.stock \in Int
<1>1. held.delta \in Int /\ held.stock \in Int
  BY WorldAssumption DEF TypeOK
<1>2. config.threshold \in Nat /\ config.maxOrder \in Nat
  BY ConfigType DEF TypeOK
<1>3. Intent \in Int
  BY <1>1, <1>2 DEF Intent, Min2
<1>4. QED  BY <1>1, <1>3 DEF Abs

\* The simulated order goes all the way, and leaves the machine ready.
LEMMA SimulatedType ==
    ASSUME TypeOK, held # None, CanPlaceOrder(hedge),
           Abs(Intent) >= config.minHedge
    PROVE  Simulated(hedge) \in Machine /\ CanPlaceOrder(Simulated(hedge))
<1>1. hedge.connected \in BOOLEAN
  BY DEF TypeOK, MachineOK, Machine
<1>2. Target \in Int
  BY IntentType DEF Target
<1> DEFINE At(state, target, need) ==
        [state |-> state, target |-> target, need |-> need,
         connected |-> hedge.connected]
<1>3. OnTarget(hedge, Target, held.stock) = At("PLAN", Target, Target - held.stock)
  BY DEF OnTarget, TypeOK, MachineOK, Machine
<1>4. OnPlanDecide(OnTarget(hedge, Target, held.stock),
                   Abs(Intent) >= config.minHedge)
        = At("SEND", Target, Target - held.stock)
  BY <1>3 DEF OnPlanDecide, Move
<1>5. Simulated(hedge) = At("FILLED", NoTarget, 0)
  <2>1. OnOrderPlaced(At("SEND", Target, Target - held.stock))
          = At("WAIT_ACK", Target, Target - held.stock)
    BY DEF OnOrderPlaced, Move
  <2>2. OnAckOk(At("WAIT_ACK", Target, Target - held.stock))
          = At("WORKING", Target, Target - held.stock)
    BY DEF OnAckOk, Move
  <2>3. OnFullFill(At("WORKING", Target, Target - held.stock))
          = At("FILLED", NoTarget, 0)
    BY DEF OnFullFill, Clear
  <2>4. QED  BY <1>4, <2>1, <2>2, <2>3 DEF Simulated
<1>6. QED
  BY <1>1, <1>5 DEF Machine, HedgeStates, CanPlaceOrder, Ready

LEMMA ResetDailyKeeps ==
    ASSUME Inv
    PROVE  ResetDaily(guard) = guard
BY DEF Inv, Remembered, ResetDaily

LEMMA RecordType ==
    ASSUME Inv
    PROVE  /\ RecordHedgeSent(guard) \in Guards
           /\ RecordHedgeSent(guard).date = None
           /\ RecordHedgeSent(guard).count = guard.count + 1
           /\ RecordHedgeSent(guard).last = clock
<1>1. guard \in Guards /\ guard.date = None /\ clock \in Nat
  BY BoundsAssumption DEF Inv, TypeOK, Remembered, Guards
<1>2. RecordHedgeSent(guard) = [guard EXCEPT !.count = @ + 1, !.last = clock]
  BY ResetDailyKeeps DEF RecordHedgeSent
<1>3. RecordHedgeSent(guard)
        = [count |-> guard.count + 1, date |-> None, last |-> clock,
           maxSpread |-> guard.maxSpread]
  BY <1>1, <1>2 DEF Guards
<1>4. QED  BY <1>1, <1>3 DEF Guards

-----------------------------------------------------------------------------
(* Inv is kept *)

LEMMA InitInv == Init => Inv
<1> SUFFICES ASSUME Init PROVE Inv
  OBVIOUS
<1>1. config \in Configs /\ fsmConfig = config /\ config.guardSpread \in Nat \cup {None}
  BY ConfigType DEF Init
<1>2. hedge \in Machine /\ CanPlaceOrder(hedge)
  BY DEF Init, NewMachine, Machine, HedgeStates, Ready, CanPlaceOrder
<1>3. /\ guard \in Guards /\ store \in Stores /\ sent \in SentType
      /\ guard.date = None /\ guard.last = None /\ guard.count = 0
      /\ store.hedgePrice = None
      /\ sent.at = None /\ sent.price = None /\ sent.mine = 0 /\ sent.late = 0
      /\ held = None /\ refreshed = None
  BY <1>1 DEF Init, NewGuard, NewStore, NothingSent, Guards, Stores, SentType
<1>4. booted \in BOOLEAN /\ alive \in BOOLEAN /\ suspended \in BOOLEAN
  BY DEF Init
<1>5. TypeOK
  BY <1>1, <1>2, <1>3, <1>4, BoundsAssumption
     DEF Init, TypeOK, MachineOK, Guards, Stores, SentType, TradingStates
<1>6. Remembered /\ LateInv /\ HedgeIsSettled
  BY <1>2, <1>3 DEF Init, Remembered, LateInv, HedgeIsSettled
<1>7. QED  BY <1>5, <1>6 DEF Inv

\* The passes that send nothing, the start, and the ticker: what they touch.
LEMMA QuietKeepsInv ==
    ASSUME Inv,
           \/ BeginLookUp \/ LookUp \/ Bootstrap \/ Refresh
           \/ EvalNothing \/ EvalOnly
           \/ BadTicker \/ \E q \in Quotes : Ticker(q)
    PROVE  Inv'
<1> USE DEF Inv
<1>1. UNCHANGED <<hedge, guard, config, fsmConfig, world, sent, bounds>>
  BY ResetDailyKeeps DEF BeginLookUp, LookUp, Bootstrap, Refresh, EvalNothing,
     EvalOnly, BadTicker, Ticker, Tickered
<1>2. store' \in Stores /\ store'.hedgePrice = store.hedgePrice
  <2>1. store \in Stores /\ clock \in Nat
    BY BoundsAssumption DEF TypeOK, Stores
  <2>2. CASE store' \in {store, Fresh}
    BY <2>1, <2>2, FreshType
  <2>3. ASSUME NEW q \in Quotes, Ticker(q)
        PROVE  store' \in Stores /\ store'.hedgePrice = store.hedgePrice
    <3>1. q.price \in Nat /\ q.spread \in Nat \cup {None}
      BY WorldAssumption
    <3>2. QED  BY <2>1, <2>3, <3>1 DEF Ticker, Tickered, Stores
  <2>4. CASE BadTicker
    BY <2>1, <2>4 DEF BadTicker, Tickered, Stores
  <2>5. QED
    BY <2>2, <2>3, <2>4
       DEF BeginLookUp, LookUp, Bootstrap, Refresh, EvalNothing, EvalOnly
<1>3. /\ trading' \in TradingStates
      /\ trading' = "HEDGING" => trading = "HEDGING"
  <2>1. trading \in TradingStates
    BY DEF TypeOK
  <2>2. CASE trading' = Apply(Apply(trading, "START", Fresh), "SYNCED", Fresh)
    <3>1. /\ Apply(trading, "START", Fresh) \in TradingStates
          /\ Apply(trading, "START", Fresh) = "HEDGING" => trading = "HEDGING"
      BY <2>1, ApplyType
    <3>2. QED  BY <2>2, <3>1, ApplyType
  <2>3. CASE trading' = Apply(trading, "TICK", Fresh)
    BY <2>1, <2>3, ApplyType
  <2>4. CASE trading' = trading
    BY <2>1, <2>4
  <2>5. QED
    BY <2>2, <2>3, <2>4
       DEF BeginLookUp, LookUp, Bootstrap, Refresh, EvalNothing, EvalOnly, Ticked,
           BadTicker, Ticker, Tickered
<1>4. alive' = alive /\ booted' \in BOOLEAN
  BY DEF BeginLookUp, LookUp, Bootstrap, Refresh, EvalNothing, EvalOnly,
     BadTicker, Ticker, Tickered, TypeOK
<1>5. /\ pass' \in {"idle", "status", "hedge", "looked"}
      /\ pass' \in {"hedge", "looked"} => pass = "hedge" \/ pass = "looked" \/ ~suspended
  BY DEF BeginLookUp, LookUp, Bootstrap, Refresh, EvalNothing, EvalOnly,
     BadTicker, Ticker, Tickered, TypeOK
<1>6. held' \in Books \cup {None} /\ refreshed' \in 0 .. MaxTime \cup {None}
  <2>1. CASE UNCHANGED positions
    BY <2>1 DEF positions, TypeOK
  <2>2. CASE BeginLookUp \/ LookUp
    BY <2>2 DEF BeginLookUp, LookUp, TypeOK
  <2>3. QED
    BY <2>1, <2>2
       DEF Bootstrap, Refresh, EvalNothing, EvalOnly, BadTicker, Ticker, Tickered
<1>7. TypeOK'
  BY <1>1, <1>2, <1>3, <1>4, <1>5, <1>6
     DEF TypeOK, MachineOK, Stores, world, bounds
<1>8. Remembered' /\ LateInv' /\ HedgeIsSettled'
  BY <1>1, <1>2, <1>3, <1>4, <1>5
     DEF Remembered, LateInv, HedgeIsSettled, world
<1>9. QED  BY <1>7, <1>8

\* A pass that hedges, or dies on the way.
LEMMA HedgeKeepsInv ==
    ASSUME Inv, EvalHedge
    PROVE  Inv'
<1> USE DEF Inv
<1>1. /\ UNCHANGED <<config, fsmConfig, positions, booted, world, bounds>>
      /\ pass' = "idle"
      /\ held # None /\ Fresh.spot # None
  BY DEF EvalHedge, HasSnapshot
<1>2. /\ trading' \in TradingStates /\ alive' \in BOOLEAN
      /\ trading' = "HEDGING" => ~alive'
  <2>1. Ticked \in TradingStates /\ Emitted \in TradingStates
    BY ApplyType DEF Ticked, Emitted, TypeOK
  <2>2. CASE trading' = Apply(Emitted, "HEDGE_DONE", Fresh) /\ UNCHANGED alive
    BY <2>1, <2>2, ApplyType DEF TypeOK
  <2>3. CASE trading' \in {Emitted, Ticked} /\ alive' = FALSE
    BY <2>1, <2>3
  <2>4. QED  BY <2>2, <2>3 DEF EvalHedge
<1>3. CASE Hedged
  <2>1. /\ hedge' \in Machine /\ CanPlaceOrder(hedge')
    BY <1>1, <1>3, SimulatedType DEF Hedged, EvalHedge, Approved, Asked
  <2>2. /\ guard' \in Guards /\ guard'.date = None
        /\ guard'.count = guard.count + 1 /\ guard'.last = clock
    BY <1>3, RecordType DEF Hedged
  <2>3. Fresh.spot \in Nat
    BY <1>1, FreshType DEF Stores
  <2>4. store' \in Stores /\ store'.hedgePrice = Fresh.spot
    BY <1>3, <2>3, FreshType DEF Hedged, Stores
  <2>5. /\ sent'.mine = sent.mine + 1 /\ sent'.at = clock
        /\ sent'.price = Fresh.spot
        /\ sent'.late = IF suspended THEN sent.late + 1 ELSE 0
    BY <1>3 DEF Hedged
  <2>6. sent' \in SentType
    <3>1. clock \in Nat /\ sent \in SentType
      BY BoundsAssumption DEF TypeOK, SentType
    <3>2. QED  BY <1>1, <1>3, <2>3, <3>1, IntentType DEF Hedged, SentType
  <2>7. TypeOK'
    BY <1>1, <1>2, <2>1, <2>2, <2>4, <2>6
       DEF TypeOK, MachineOK, Guards, Stores, SentType, positions, world, bounds
  <2>8. Remembered'
    <3>1. sent.mine \in Nat /\ guard.count \in Nat
      BY DEF TypeOK
    <3>2. QED  BY <2>2, <2>4, <2>5, <3>1 DEF Remembered
  <2>9. LateInv'
    BY <1>1, <2>5 DEF LateInv, EvalHedge, MayEval, world
  <2>10. QED  BY <1>2, <2>1, <2>7, <2>8, <2>9 DEF HedgeIsSettled
<1>4. CASE /\ store' = Fresh /\ guard' = ResetDaily(guard)
           /\ UNCHANGED <<hedge, sent>>
  <2>1. guard' = guard /\ Fresh \in Stores /\ Fresh.hedgePrice = store.hedgePrice
    BY <1>4, ResetDailyKeeps, FreshType
  <2>2. TypeOK'
    BY <1>1, <1>2, <1>4, <2>1
       DEF TypeOK, MachineOK, Stores, positions, world, bounds
  <2>3. Remembered' /\ LateInv' /\ HedgeIsSettled'
    BY <1>1, <1>2, <1>4, <2>1 DEF Remembered, LateInv, HedgeIsSettled, world
  <2>4. QED  BY <2>2, <2>3
<1>5. QED  BY <1>3, <1>4 DEF EvalHedge

LEMMA ReloadKeepsInv ==
    ASSUME Inv, NEW cfg \in Configs, Reload(cfg)
    PROVE  Inv'
<1> USE DEF Inv
<1>1. /\ guard' \in Guards /\ guard'.date = guard.date
      /\ guard'.last = guard.last /\ guard'.count = guard.count
  <2>1. guard \in Guards /\ cfg.guardSpread \in Nat \cup {None}
    BY ConfigType DEF TypeOK, Guards
  <2>2. QED  BY <2>1 DEF Reload, Guards
<1>2. reloads' \in 0 .. MaxReloads
  BY BoundsAssumption DEF Reload, TypeOK
<1>3. UNCHANGED <<trading, hedge, store, fsmConfig, positions, booted, alive, pass,
                  world, sent, toggles, restarts>> /\ config' = cfg
  BY DEF Reload
<1>4. TypeOK'
  BY <1>1, <1>2, <1>3 DEF TypeOK, MachineOK, Guards, positions, world
<1>5. Remembered' /\ LateInv' /\ HedgeIsSettled'
  BY <1>1, <1>3 DEF Remembered, LateInv, HedgeIsSettled, world
<1>6. QED  BY <1>4, <1>5

LEMMA RestartKeepsInv ==
    ASSUME Inv, Restart
    PROVE  Inv'
<1> USE DEF Inv
<1>1. hedge' \in Machine /\ CanPlaceOrder(hedge')
  BY DEF Restart, NewMachine, Machine, HedgeStates, Ready, CanPlaceOrder
<1>2. /\ guard' \in Guards /\ store' \in Stores /\ sent' \in SentType
      /\ guard'.date = None /\ guard'.last = None /\ guard'.count = 0
      /\ store'.hedgePrice = None
      /\ sent'.at = None /\ sent'.price = None /\ sent'.mine = 0
      /\ sent'.late = sent.late
  <2>1. config.guardSpread \in Nat \cup {None} /\ sent.today \in Nat /\ sent.late \in Nat
    BY ConfigType DEF TypeOK
  <2>2. QED
    BY <2>1 DEF Restart, NewGuard, NewStore, NothingSent, Guards, Stores, SentType
<1>3. restarts' \in 0 .. MaxRestarts
  BY BoundsAssumption DEF Restart, TypeOK
<1>4. booted' \in BOOLEAN /\ alive' \in BOOLEAN
  BY DEF Restart
<1>5. /\ UNCHANGED <<config, world, toggles, reloads>>
      /\ fsmConfig' = config /\ pass' = "idle" /\ trading' = "BOOT"
      /\ held' = None /\ refreshed' = None
  BY DEF Restart
<1>6. TypeOK'
  BY <1>1, <1>2, <1>3, <1>4, <1>5
     DEF TypeOK, MachineOK, Guards, Stores, SentType, world, TradingStates
<1>7. Remembered' /\ LateInv' /\ HedgeIsSettled'
  BY <1>1, <1>2, <1>5 DEF Remembered, LateInv, HedgeIsSettled, world, TypeOK
<1>8. QED  BY <1>6, <1>7

LEMMA WorldKeepsInv ==
    ASSUME Inv,
           \/ \E q \in Quotes : Publish(q)
           \/ Toggle \/ Tick
    PROVE  Inv'
<1> USE DEF Inv
<1>1. UNCHANGED <<process, reloads, restarts>>
  BY DEF Publish, Toggle, Tick, bounds
<1>2. QuoteOK'
  <2>1. CASE \E q \in Quotes : Publish(q)
    BY <2>1 DEF Publish, QuoteOK, TypeOK
  <2>2. CASE UNCHANGED quote
    BY <2>2 DEF QuoteOK, TypeOK
  <2>3. QED  BY <2>1, <2>2 DEF Toggle, Tick
<1>3. clock' \in 0 .. MaxTime /\ toggles' \in 0 .. MaxToggles
  BY BoundsAssumption DEF Publish, Toggle, Tick, TypeOK, bounds
<1>4. suspended' \in BOOLEAN
  BY DEF Publish, Toggle, Tick, TypeOK
<1>5. /\ sent' \in SentType
      /\ sent'.mine <= sent.mine
      /\ sent'.at = sent.at /\ sent'.price = sent.price
      /\ sent'.late \in {sent.late, 0}
      /\ suspended' # suspended => sent'.late = 0
  <2>1. sent \in SentType /\ sent.mine \in Nat
    BY DEF TypeOK, SentType
  <2>2. CASE sent' = sent /\ suspended' = suspended
    BY <2>1, <2>2
  <2>3. CASE sent' = [sent EXCEPT !.late = 0]
    <3>1. sent' \in SentType
      BY <2>1, <2>3 DEF SentType
    <3>2. QED  BY <2>1, <2>3, <3>1 DEF SentType
  <2>4. CASE sent' = [sent EXCEPT !.today = 0, !.mine = 0] /\ suspended' = suspended
    <3>1. sent' \in SentType
      BY <2>1, <2>4 DEF SentType
    <3>2. QED  BY <2>1, <2>4, <3>1 DEF SentType
  <2>5. QED  BY <2>2, <2>3, <2>4 DEF Publish, Toggle, Tick
<1>6. TypeOK'
  BY <1>1, <1>2, <1>3, <1>4, <1>5
     DEF TypeOK, QuoteOK, MachineOK, SentType, process, positions
<1>7. Remembered'
  <2>1. sent.mine \in Nat /\ sent'.mine \in Nat /\ guard.count \in Nat
    BY <1>5 DEF TypeOK, SentType
  <2>2. QED  BY <1>1, <1>5, <2>1 DEF Remembered, process
<1>8. LateInv' /\ HedgeIsSettled'
  BY <1>1, <1>5 DEF LateInv, HedgeIsSettled, process, TypeOK
<1>9. QED  BY <1>6, <1>7, <1>8

LEMMA NextKeepsInv == Inv /\ [Next]_vars => Inv'
<1> SUFFICES ASSUME Inv, [Next]_vars PROVE Inv'
  OBVIOUS
<1>1. CASE UNCHANGED vars
  BY <1>1 DEF vars, process, positions, world, bounds, Inv, TypeOK, MachineOK, Remembered,
     LateInv, HedgeIsSettled
<1>2. CASE Next
  BY <1>2, QuietKeepsInv, HedgeKeepsInv, ReloadKeepsInv, RestartKeepsInv,
     WorldKeepsInv DEF Next, Eval
<1>3. QED  BY <1>1, <1>2

LEMMA InvCorrect == Spec => []Inv
BY InitInv, NextKeepsInv, PTL DEF Spec

\* The model stays in its types: a hedge only goes out with a price, and the
\* simulated order is one of the machine's.
THEOREM TypeCorrect == Spec => []TypeOK
BY InvCorrect, PTL DEF Inv

\* Between passes the HedgeFSM takes the next target, and the TradingFSM is in
\* HEDGING only when the pass has died there.
THEOREM SettledCorrect == Spec => []HedgeIsSettled
BY InvCorrect, PTL DEF Inv

\* A flag that is set lets at most one more hedge out, whatever the quotes, the
\* account, reloads and restarts do.
THEOREM SuspensionCorrect == Spec => []SuspensionStopsHedging
<1>1. Inv => SuspensionStopsHedging
  BY DEF Inv, LateInv, SuspensionStopsHedging
<1>2. QED  BY <1>1, InvCorrect, PTL

-----------------------------------------------------------------------------
(* What goes out *)

\* Only a pass with positions and a spot that every gate has approved sends a
\* hedge, and only one that has looked the positions up or need not.
LEMMA SentIsApproved ==
    ASSUME TypeOK, [Next]_vars, Sent
    PROVE  /\ held # None
           /\ pass = "looked" \/ ~Due
           /\ Approved(Ticked, Fresh)
           /\ Hedged
           /\ UNCHANGED <<config, world, bounds>>
<1>1. sent.today \in Nat
  BY DEF TypeOK
<1>2. sent'.today # sent.today
  BY <1>1 DEF Sent
<1>3. CASE Restart
  <2>1. sent'.today = sent.today
    BY <1>3 DEF Restart, NothingSent
  <2>2. QED  BY <1>2, <2>1
<1>4. CASE Toggle
  <2>1. sent'.today = sent.today
    BY <1>4 DEF Toggle, TypeOK
  <2>2. QED  BY <1>2, <2>1
<1>5. CASE Tick
  <2>1. sent'.today \in {sent.today, 0}
    BY <1>5 DEF Tick, TypeOK
  <2>2. QED  BY <1>1, <2>1 DEF Sent
<1>6. CASE EvalHedge
  BY <1>2, <1>6 DEF EvalHedge, HasSnapshot, MayEval
<1>7. CASE UNCHANGED sent
  BY <1>2, <1>7
<1>8. QED
  BY <1>3, <1>4, <1>5, <1>6, <1>7
     DEF Next, Eval, BeginLookUp, LookUp, Bootstrap, Refresh, EvalNothing, EvalOnly,
         BadTicker, Ticker, Tickered, Publish, Reload, vars

\* What holds of every hedge: its shares are the intent, and the gates' tests
\* hold of the positions, the clock and the data of the same pass.
LEMMA SentIsGated ==
    ASSUME Inv, [Next]_vars, Sent
    PROVE  /\ sent'.shares = Intent
           /\ Intent # 0 /\ Abs(Intent) >= config.minHedge
           /\ AllowHedge(guard, Fresh)
           /\ sent'.mine = sent.mine + 1 /\ sent'.today = sent.today + 1
           /\ UNCHANGED <<config, world, bounds>>
<1>1. Approved(Ticked, Fresh) /\ Hedged /\ UNCHANGED <<config, world, bounds>>
  BY SentIsApproved DEF Inv
<1>2. ResetDaily(guard) = guard
  BY ResetDailyKeeps
<1>3. sent'.shares = Intent /\ sent'.mine = sent.mine + 1
      /\ sent'.today = sent.today + 1
  BY <1>1 DEF Hedged
<1>4. QED  BY <1>1, <1>2, <1>3 DEF Approved, Asked

\* A tick that ends in NEED_HEDGE has found nothing unsafe, also when the
\* decision is an old one.
LEMMA NeedIsSafe ==
    ASSUME NEW state, NEW s, Apply(state, "TICK", s) = "NEED_HEDGE"
    PROVE  ~Unsafe(Snapshot(s), fsmConfig)
BY DEF Apply, Transition

\* A tick finds no way out of BOOT but to SAFE, and none out of SAFE.
LEMMA TickOut ==
    ASSUME NEW state \in {"BOOT", "SAFE"}, NEW s
    PROVE  Apply(state, "TICK", s) \in {"BOOT", "SAFE"}
BY DEF Apply, Transition, HandleTick, TickEvents

\* A strategy that is out sends nothing and stays out until a new process leads.
THEOREM OutCorrect == Spec => OutUntilRestart
<1>1. TypeOK /\ [Next]_vars
        => [Out => ~Sent /\ (Out' \/ restarts' > restarts)]_vars
  <2> SUFFICES ASSUME TypeOK, [Next]_vars, Out
               PROVE  ~Sent /\ (Out' \/ restarts' > restarts)
    OBVIOUS
  <2>1. Ticked \in {"BOOT", "SAFE"}
    BY TickOut DEF Ticked, Out
  <2>2. ~Approved(Ticked, Fresh)
    BY <2>1 DEF Approved, Asked
  <2>3. ~Sent
    BY <2>2, SentIsApproved
  <2>4. CASE Restart
    <3>1. restarts \in Nat  BY BoundsAssumption DEF TypeOK
    <3>2. restarts' = restarts + 1  BY <2>4 DEF Restart
    <3>3. QED  BY <2>3, <3>1, <3>2
  <2>5. CASE EvalOnly
    <3>1. Out'  BY <2>1, <2>5 DEF EvalOnly, Out
    <3>2. QED  BY <2>3, <3>1
  <2>6. CASE UNCHANGED <<trading, booted>>
    BY <2>3, <2>6 DEF Out
  <2>7. UNCHANGED <<trading, booted>> \/ EvalOnly \/ Restart
    <3>1. ~Bootstrap  BY DEF Bootstrap, Out
    <3>2. ~EvalHedge  BY <2>2 DEF EvalHedge
    <3>3. QED
      BY <3>1, <3>2
         DEF Next, Eval, BeginLookUp, LookUp, Refresh, EvalNothing, BadTicker,
             Ticker, Tickered, Publish, Reload, Toggle, Tick, vars, process
  <2>8. QED  BY <2>4, <2>5, <2>6, <2>7
<1>2. QED  BY <1>1, TypeCorrect, PTL DEF Spec, OutUntilRestart

\* A hedge goes out only on data that is fresh, valid and quoted by the
\* TradingFSM's thresholds, however many passes ago it was decided.
THEOREM DataCorrect == Spec => HedgesOnGoodData
<1>1. TypeOK /\ [Next]_vars
        => [Sent => /\ DataOk(Snapshot(Fresh), fsmConfig)
                    /\ ~GreeksBad(Snapshot(Fresh))
                    /\ ~BrokerDown(Snapshot(Fresh))]_vars
  <2> SUFFICES ASSUME TypeOK, [Next]_vars, Sent
               PROVE  ~Unsafe(Snapshot(Fresh), fsmConfig)
    BY DEF Unsafe
  <2>1. Ticked = "NEED_HEDGE"
    BY SentIsApproved DEF Approved, Asked
  <2>2. QED  BY <2>1, NeedIsSafe DEF Ticked
<1>2. QED  BY <1>1, TypeCorrect, PTL DEF Spec, HedgesOnGoodData

\* The arithmetic of the intent: signed, capped, and never past zero delta.
LEMMA IntentReduces ==
    ASSUME TypeOK, held # None, Intent # 0
    PROVE  LET after == held.delta + Intent IN
           /\ Abs(held.delta) > config.threshold
           /\ Abs(after) < Abs(held.delta)
           /\ held.delta * after >= 0
           /\ Abs(Intent) <= config.maxOrder
<1> DEFINE after == held.delta + Intent
           T == config.threshold
           M == config.maxOrder
           d == held.delta
<1>1. d \in Int /\ Intent \in Int /\ T \in Nat /\ M \in Nat
  BY IntentType, ConfigType DEF TypeOK
<1>2. CASE -d > T
  <2>1. /\ Intent \in {-d, M} /\ 0 < Intent /\ Intent <= -d /\ Intent <= M
        /\ d < 0 /\ after <= 0 /\ after > d
    BY <1>1, <1>2 DEF Intent, Min2
  <2>2. d * after >= 0
    BY <1>1, <2>1
  <2>3. QED  BY <1>1, <1>2, <2>1, <2>2 DEF Abs
<1>3. CASE -d < -T
  <2>1. /\ Intent < 0 /\ -Intent <= d /\ -Intent <= M
        /\ d > 0 /\ after >= 0 /\ after < d
    BY <1>1, <1>3 DEF Intent, Min2
  <2>2. d * after >= 0
    BY <1>1, <2>1
  <2>3. QED  BY <1>1, <1>3, <2>1, <2>2 DEF Abs
<1>4. CASE ~(-d > T) /\ ~(-d < -T)
  BY <1>1, <1>4 DEF Intent
<1>5. QED  BY <1>2, <1>3, <1>4

\* A hedge is for positions looked up in its pass or within RefreshInterval before;
\* it brings their delta closer to zero and never past it, within the sizes an
\* order may have; there is none below the threshold.
THEOREM ReduceCorrect == Spec => HedgesReduceDelta
<1>1. Inv /\ [Next]_vars
        => [Sent =>
             LET after == held.delta + sent'.shares IN
             /\ held # None
             /\ pass = "looked" \/ clock - refreshed < RefreshInterval
             /\ Abs(held.delta) >= config.threshold
             /\ Abs(after) < Abs(held.delta)
             /\ held.delta * after >= 0
             /\ Abs(sent'.shares) \in config.minHedge .. config.maxOrder]_vars
  <2> SUFFICES ASSUME Inv, [Next]_vars, Sent
               PROVE  LET after == held.delta + sent'.shares IN
                      /\ held # None
                      /\ pass = "looked" \/ clock - refreshed < RefreshInterval
                      /\ Abs(held.delta) >= config.threshold
                      /\ Abs(after) < Abs(held.delta)
                      /\ held.delta * after >= 0
                      /\ Abs(sent'.shares) \in config.minHedge .. config.maxOrder
    OBVIOUS
  <2>1. sent'.shares = Intent /\ Intent # 0 /\ Abs(Intent) >= config.minHedge
    BY SentIsGated
  <2>2. held # None /\ (pass = "looked" \/ ~Due)
    BY SentIsApproved DEF Inv
  <2>3. pass = "looked" \/ clock - refreshed < RefreshInterval
    <3>1. refreshed = None \/ refreshed \in Int
      BY BoundsAssumption DEF Inv, TypeOK
    <3>2. clock \in Int /\ RefreshInterval \in Int
      BY BoundsAssumption DEF Inv, TypeOK
    <3>3. QED  BY <2>2, <3>1, <3>2 DEF Due
  <2>4. /\ Abs(Intent) \in Nat /\ config.minHedge \in Nat /\ config.maxOrder \in Nat
        /\ config.threshold \in Nat /\ Abs(held.delta) \in Int
    BY <2>2, IntentType, ConfigType DEF Inv, TypeOK, Abs
  <2>5. QED  BY <2>1, <2>2, <2>3, <2>4, IntentReduces DEF Inv
<1>2. QED  BY <1>1, InvCorrect, PTL DEF Spec, HedgesReduceDelta

\* No hedge goes out at the price of this process's last one.
THEOREM PriceCorrect == Spec => HedgesMoveWithPrice
<1>1. Inv /\ [Next]_vars
        => [Sent /\ sent.price # None
              => PriceMoved(Fresh.spot, sent.price, config.movePct)]_vars
  <2> SUFFICES ASSUME Inv, [Next]_vars, Sent
               PROVE  PriceMoved(Fresh.spot, sent.price, config.movePct)
    OBVIOUS
  <2>1. PriceMoved(Fresh.spot, Fresh.hedgePrice, config.movePct)
    BY SentIsGated DEF AllowHedge
  <2>2. Fresh.hedgePrice = sent.price
    BY FreshType DEF Inv, Remembered
  <2>3. QED  BY <2>1, <2>2
<1>2. QED  BY <1>1, InvCorrect, PTL DEF Spec, HedgesMoveWithPrice

-----------------------------------------------------------------------------
(* The daily limit.  A reload that lowers it cannot recall what has been     *)
(* sent, so the day's hedges are bounded by the highest limit there was.     *)

Bounds(c) ==
    /\ config.maxDaily <= c.maxDaily
    /\ sent.mine <= c.maxDaily
    /\ sent.today <= c.maxDaily * restarts + sent.mine

DailyInv == \E c \in Configs : Bounds(c)

LEMMA Product ==
    ASSUME NEW m \in Nat, NEW n \in Nat, m <= n, NEW r \in Nat
    PROVE  m * r \in Nat /\ n * r \in Nat /\ m * r <= n * r
<1>1. PICK k \in Nat : n = m + k
  <2>1. n - m \in Nat /\ n = m + (n - m)  OBVIOUS
  <2>2. QED  BY <2>1
<1>2. m * r \in Nat /\ k * r \in Nat  OBVIOUS
<1>3. (m + k) * r = m * r + k * r  OBVIOUS
<1>4. QED  BY <1>1, <1>2, <1>3

LEMMA Successor ==
    ASSUME NEW n \in Nat, NEW r \in Nat
    PROVE  n * (r + 1) = n * r + n
OBVIOUS

LEMMA DailyTypes ==
    ASSUME TypeOK, NEW c \in Configs
    PROVE  /\ config.maxDaily \in Nat /\ c.maxDaily \in Nat /\ restarts \in Nat
           /\ sent.mine \in Nat /\ sent.today \in Nat
           /\ c.maxDaily * restarts \in Nat
<1>1. config.maxDaily \in Nat /\ c.maxDaily \in Nat
  BY ConfigType DEF TypeOK
<1>2. restarts \in Nat /\ sent.mine \in Nat /\ sent.today \in Nat
  BY BoundsAssumption DEF TypeOK
<1>3. QED  BY <1>1, <1>2

\* The count of this process is below the limit when a hedge goes out.
LEMMA SentIsCounted ==
    ASSUME Inv, [Next]_vars, Sent
    PROVE  /\ sent'.mine = sent.mine + 1 /\ sent'.today = sent.today + 1
           /\ sent'.mine <= config.maxDaily
<1>1. guard.count < config.maxDaily
  BY SentIsGated DEF AllowHedge
<1>2. guard.count \in Nat /\ sent.mine <= guard.count
  BY DEF Inv, TypeOK, Remembered
<1>3. sent'.mine = sent.mine + 1 /\ sent'.today = sent.today + 1
  BY SentIsGated
<1>4. config.maxDaily \in Nat /\ sent.mine \in Nat
  BY DailyTypes DEF Inv, TypeOK
<1>5. QED  BY <1>1, <1>2, <1>3, <1>4

LEMMA InitDaily == Init => DailyInv
<1> SUFFICES ASSUME Init PROVE Bounds(config)
  BY DEF Init, DailyInv
<1>1. config.maxDaily \in Nat
  BY ConfigType DEF Init
<1>2. QED  BY <1>1 DEF Init, NothingSent, Bounds

LEMMA NextKeepsDaily ==
    ASSUME Inv, Inv', DailyInv, [Next]_vars
    PROVE  DailyInv'
<1>1. PICK c \in Configs : Bounds(c)
  BY DEF DailyInv
<1>2. /\ config.maxDaily \in Nat /\ c.maxDaily \in Nat /\ restarts \in Nat
      /\ sent.mine \in Nat /\ sent.today \in Nat /\ c.maxDaily * restarts \in Nat
  BY DailyTypes DEF Inv
<1>3. CASE Sent
  <2>1. restarts' = restarts /\ config' = config
    BY <1>3, SentIsGated DEF bounds
  <2>2. /\ sent'.mine = sent.mine + 1 /\ sent'.today = sent.today + 1
        /\ sent'.mine <= config.maxDaily
    BY <1>3, SentIsCounted
  <2>3. sent'.mine <= c.maxDaily
    BY <1>1, <1>2, <2>2 DEF Bounds
  <2>4. sent'.today <= c.maxDaily * restarts + sent'.mine
    BY <1>1, <1>2, <2>2 DEF Bounds
  <2>5. Bounds(c)'
    BY <1>1, <2>1, <2>3, <2>4 DEF Bounds
  <2>6. QED  BY <2>5 DEF DailyInv
<1>4. CASE Restart
  <2>1. /\ sent'.mine = 0 /\ sent'.today = sent.today /\ restarts' = restarts + 1
        /\ config' = config
    BY <1>4 DEF Restart, NothingSent
  <2>2. c.maxDaily * (restarts + 1) = c.maxDaily * restarts + c.maxDaily
    BY <1>2, Successor
  <2>3. Bounds(c)'
    BY <1>1, <1>2, <2>1, <2>2 DEF Bounds
  <2>4. QED  BY <2>3 DEF DailyInv
<1>5. CASE \E cfg \in Configs : Reload(cfg)
  <2>1. PICK cfg \in Configs : Reload(cfg)
    BY <1>5
  <2>2. config' = cfg /\ sent' = sent /\ restarts' = restarts
    BY <2>1 DEF Reload
  <2>3. cfg.maxDaily \in Nat
    BY ConfigType
  <2>4. CASE cfg.maxDaily <= c.maxDaily
    <3>1. Bounds(c)'  BY <1>1, <2>2, <2>4 DEF Bounds
    <3>2. QED  BY <3>1 DEF DailyInv
  <2>5. CASE c.maxDaily <= cfg.maxDaily
    <3>1. c.maxDaily * restarts <= cfg.maxDaily * restarts
          /\ cfg.maxDaily * restarts \in Nat
      BY <1>2, <2>3, <2>5, Product
    <3>2. sent.today <= cfg.maxDaily * restarts + sent.mine
      BY <1>1, <1>2, <3>1 DEF Bounds
    <3>3. sent.mine <= cfg.maxDaily
      BY <1>1, <1>2, <2>3, <2>5 DEF Bounds
    <3>4. Bounds(cfg)'
      BY <2>2, <2>3, <3>2, <3>3 DEF Bounds
    <3>5. QED  BY <3>4 DEF DailyInv
  <2>6. QED  BY <1>2, <2>3, <2>4, <2>5
<1>6. CASE ~Sent /\ ~Restart /\ ~(\E cfg \in Configs : Reload(cfg))
  <2>1. restarts' = restarts /\ config' = config
    BY <1>6 DEF Next, Eval, BeginLookUp, LookUp, Bootstrap, Refresh, EvalNothing,
       EvalOnly, EvalHedge, BadTicker, Ticker, Tickered, Publish, Toggle, Tick,
       vars, bounds, process, world
  <2>2. \/ sent'.mine = sent.mine /\ sent'.today = sent.today
        \/ sent'.mine = 0 /\ sent'.today = 0
    <3>1. CASE Toggle \/ Tick
      BY <3>1 DEF Toggle, Tick, Inv, TypeOK
    <3>2. CASE EvalHedge
      BY <1>2, <1>6, <3>2 DEF EvalHedge, Hedged, Sent
    <3>3. CASE UNCHANGED sent
      BY <3>3
    <3>4. QED
      BY <1>6, <3>1, <3>2, <3>3
         DEF Next, Eval, BeginLookUp, LookUp, Bootstrap, Refresh, EvalNothing,
             EvalOnly, BadTicker, Ticker, Tickered, Publish, vars
  <2>3. Bounds(c)'
    BY <1>1, <1>2, <2>1, <2>2 DEF Bounds
  <2>4. QED  BY <2>3 DEF DailyInv
<1>7. QED  BY <1>3, <1>4, <1>5, <1>6

LEMMA DailyCorrect == Spec => []DailyInv
<1>1. Inv /\ Inv' /\ DailyInv /\ [Next]_vars => DailyInv'
  BY NextKeepsDaily
<1>2. QED  BY <1>1, InitDaily, InvCorrect, PTL DEF Spec

\* The limits of the ExecutionGuard hold of every hedge; the daily one holds
\* of each process, so that a restart may cost one limit more, whatever reloads
\* make of it.
THEOREM LimitsCorrect == Spec => HedgesWithinLimits
<1>1. Inv /\ DailyInv /\ [Next]_vars
        => [Sent =>
             /\ clock \notin Closed
             /\ Abs(held.stock + sent'.shares) <= config.maxPosition
             /\ sent'.mine <= config.maxDaily
             /\ \E c \in Configs : sent'.today <= c.maxDaily * (restarts + 1)
             /\ sent.at # None /\ clock - sent.at < config.cooldown
                    => Abs(held.delta) >= config.maxDelta]_vars
  <2> SUFFICES ASSUME Inv, DailyInv, [Next]_vars, Sent
               PROVE  /\ clock \notin Closed
                      /\ Abs(held.stock + sent'.shares) <= config.maxPosition
                      /\ sent'.mine <= config.maxDaily
                      /\ \E c \in Configs : sent'.today <= c.maxDaily * (restarts + 1)
                      /\ sent.at # None /\ clock - sent.at < config.cooldown
                             => Abs(held.delta) >= config.maxDelta
    OBVIOUS
  <2>1. AllowHedge(guard, Fresh) /\ sent'.shares = Intent
    BY SentIsGated
  <2>2. clock \notin Closed /\ Abs(held.stock + sent'.shares) <= config.maxPosition
    BY <2>1 DEF AllowHedge
  <2>3. \E c \in Configs : sent'.today <= c.maxDaily * (restarts + 1)
    <3>1. PICK c \in Configs : Bounds(c)
      BY DEF DailyInv
    <3>2. /\ config.maxDaily \in Nat /\ c.maxDaily \in Nat /\ restarts \in Nat
          /\ sent.mine \in Nat /\ sent.today \in Nat
          /\ c.maxDaily * restarts \in Nat
      BY DailyTypes DEF Inv
    <3>3. c.maxDaily * (restarts + 1) = c.maxDaily * restarts + c.maxDaily
      BY <3>2, Successor
    <3>4. sent'.mine = sent.mine + 1 /\ sent'.today = sent.today + 1
          /\ sent'.mine <= config.maxDaily
      BY SentIsCounted
    <3>5. /\ sent.today <= c.maxDaily * restarts + sent.mine
          /\ config.maxDaily <= c.maxDaily
      BY <3>1 DEF Bounds
    <3>6. sent'.today <= c.maxDaily * restarts + c.maxDaily
      <4>1. sent'.mine <= c.maxDaily  BY <3>2, <3>4, <3>5
      <4>2. sent'.today <= c.maxDaily * restarts + sent'.mine  BY <3>2, <3>4, <3>5
      <4>3. QED  BY <3>2, <3>4, <4>1, <4>2
    <3>7. QED  BY <3>3, <3>6
  <2>4. sent.at # None /\ clock - sent.at < config.cooldown
          => Abs(held.delta) >= config.maxDelta
    <3>1. SUFFICES ASSUME sent.at # None, clock - sent.at < config.cooldown
                   PROVE  ForceHedge
      BY DEF ForceHedge
    <3>2. guard.last # None /\ clock - guard.last < config.cooldown
      BY <3>1 DEF Inv, Remembered
    <3>3. clock - guard.last \in Int /\ config.cooldown \in Nat
      BY <3>2, ConfigType, BoundsAssumption DEF Inv, TypeOK
    <3>4. QED  BY <2>1, <3>2, <3>3 DEF AllowHedge
  <2>5. QED  BY <2>2, <2>3, <2>4, SentIsCounted
<1>2. QED  BY <1>1, InvCorrect, DailyCorrect, PTL DEF Spec, HedgesWithinLimits

-----------------------------------------------------------------------------
(* The abstract desk.  One lemma for each kind of step: which step of the    *)
(* HedgeDesk it is, or that it is none.                                      *)

Known == IF held = None THEN 0 ELSE held.delta
DeskVars == <<Desk, <<Known, sent.shares>>, <<sent.mine, sent.today>>,
              <<suspended, sent.late>>>>
DeskStep == Trader!Next \/ UNCHANGED DeskVars

LEMMA DeskOpens ==
    ASSUME TypeOK, TypeOK', Bootstrap
    PROVE  Trader!Open
<1>1. Desk = "shut" /\ Desk' \in {"open", "out"}
  BY DEF Bootstrap, Desk
<1>2. UNCHANGED <<positions, world, sent>>
  BY DEF Bootstrap
<1>3. QED
  BY <1>1, <1>2
     DEF Trader!Open, Trader!account, Trader!counts, Trader!suspension, positions,
         world

\* A pass without a hedge leaves an open desk, or finds that it has to go out.
LEMMA DeskTicks ==
    ASSUME TypeOK, TypeOK', EvalOnly
    PROVE  DeskStep
<1>1. booted /\ booted' = booted /\ alive' = alive /\ trading' = Ticked
      /\ UNCHANGED <<positions, world, sent>>
  BY DEF EvalOnly, MayEval
<1>2. Desk \in {"open", "out"} /\ Desk' \in {"open", "out"}
  BY <1>1 DEF Desk
<1>3. Desk = "out" => Desk' = "out"
  <2>1. CASE trading \in {"BOOT", "SAFE"}
    <3>1. trading' \in {"BOOT", "SAFE"}
      BY <1>1, <2>1, TickOut DEF Ticked
    <3>2. QED  BY <1>1, <3>1 DEF Desk
  <2>2. CASE ~alive
    BY <1>1, <2>2 DEF Desk
  <2>3. CASE alive /\ trading \notin {"BOOT", "SAFE"}
    BY <1>1, <2>3 DEF Desk
  <2>4. QED  BY <2>1, <2>2, <2>3
<1>4. CASE Desk' = Desk
  BY <1>1, <1>4 DEF DeskStep, DeskVars, Known, positions, world
<1>5. CASE Desk = "open" /\ Desk' = "out"
  <2>1. Trader!GoOut
    BY <1>1, <1>5
       DEF Trader!GoOut, Trader!account, Trader!counts, Trader!suspension,
           positions, world
  <2>2. QED  BY <2>1 DEF DeskStep, Trader!Next
<1>6. QED  BY <1>2, <1>3, <1>4, <1>5

\* The intent takes the delta towards zero.
LEMMA IntentIsNearer ==
    ASSUME TypeOK, held # None, Intent # 0
    PROVE  Trader!Nearer(held.delta + Intent, held.delta)
<1> DEFINE T == config.threshold
           M == config.maxOrder
           d == held.delta
<1>1. d \in Int /\ Intent \in Int /\ T \in Nat /\ M \in Nat
  BY IntentType, ConfigType DEF TypeOK
<1>2. CASE -d > T
  <2>1. 0 < Intent /\ Intent <= -d
    <3>1. Intent \in {-d, M} /\ Intent <= -d
      BY <1>1, <1>2 DEF Intent, Min2
    <3>2. QED  BY <1>1, <1>2, <3>1
  <2>2. d < d + Intent /\ d + Intent <= 0
    BY <1>1, <2>1
  <2>3. QED  BY <2>2 DEF Trader!Nearer
<1>3. CASE -d < -T
  <2>1. Intent < 0 /\ -Intent <= d
    <3>1. -Intent \in {d, M} /\ -Intent <= d
      BY <1>1, <1>3 DEF Intent, Min2
    <3>2. QED  BY <1>1, <1>3, <3>1
  <2>2. 0 <= d + Intent /\ d + Intent < d
    BY <1>1, <2>1
  <2>3. QED  BY <2>2 DEF Trader!Nearer
<1>4. CASE ~(-d > T) /\ ~(-d < -T)
  BY <1>1, <1>4 DEF Intent
<1>5. QED  BY <1>2, <1>3, <1>4

\* A pass with a hedge sends it, or dies before it does.
LEMMA DeskSends ==
    ASSUME Inv, Inv', EvalHedge
    PROVE  DeskStep
<1>1. booted /\ alive /\ booted' = booted /\ UNCHANGED <<positions, world>>
      /\ held # None /\ Approved(Ticked, Fresh)
  BY DEF EvalHedge, MayEval, HasSnapshot
<1>2. Desk = "open" /\ Desk' \in {"open", "out"}
  <2>1. trading \notin {"BOOT", "SAFE"}
    BY <1>1, TickOut DEF Approved, Asked, Ticked
  <2>2. QED  BY <1>1, <2>1 DEF Desk
<1>3. CASE Hedged
  <2>1. /\ sent'.shares = Intent /\ Intent # 0
        /\ sent'.mine = sent.mine + 1 /\ sent'.today = sent.today + 1
        /\ sent'.late = IF suspended THEN sent.late + 1 ELSE 0
    BY <1>1, <1>3 DEF Hedged, Approved, Asked
  <2>2. Trader!Nearer(held.delta + sent'.shares, held.delta)
    BY <1>1, <2>1, IntentIsNearer DEF Inv
  <2>3. \E limit \in {c.maxDaily : c \in Configs} : sent.mine < limit
    <3>1. guard.count < config.maxDaily
      BY <1>1, ResetDailyKeeps DEF Approved, AllowHedge
    <3>2. sent.mine <= guard.count /\ guard.count \in Nat /\ sent.mine \in Nat
      BY DEF Inv, Remembered, TypeOK
    <3>3. config \in Configs /\ config.maxDaily \in Nat
      BY ConfigType DEF Inv, TypeOK
    <3>4. sent.mine < config.maxDaily
      BY <3>1, <3>2, <3>3
    <3>5. QED  BY <3>3, <3>4
  <2>4. suspended => sent.late = 0
    BY DEF EvalHedge, MayEval, Inv, LateInv
  <2>5. Trader!Send
    BY <1>1, <1>2, <2>1, <2>2, <2>3, <2>4
       DEF Trader!Send, positions, world
  <2>6. QED  BY <2>5 DEF DeskStep, Trader!Next
<1>4. CASE alive' = FALSE /\ UNCHANGED sent
  <2>1. Desk' = "out"
    BY <1>1, <1>4 DEF Desk
  <2>2. Trader!GoOut
    BY <1>1, <1>2, <1>4, <2>1
       DEF Trader!GoOut, Trader!account, Trader!counts, Trader!suspension,
           positions, world
  <2>3. QED  BY <2>2 DEF DeskStep, Trader!Next
<1>5. QED  BY <1>3, <1>4 DEF EvalHedge

LEMMA DeskIsTakenOver ==
    ASSUME TypeOK, Restart
    PROVE  Trader!TakeOver
<1>1. Desk' = "shut" /\ held' = None
  BY DEF Restart, Desk
<1>2. /\ sent'.shares = 0 /\ sent'.mine = 0
      /\ sent'.today = sent.today /\ sent'.late = sent.late
      /\ UNCHANGED world
  BY DEF Restart, NothingSent
<1>3. QED  BY <1>1, <1>2 DEF Trader!TakeOver, Trader!suspension, world

\* The account is what the last lookup found it to be.
LEMMA DeskLooks ==
    ASSUME TypeOK', LookUp
    PROVE  Trader!Look
<1>1. Desk' = Desk /\ UNCHANGED <<world, sent>>
  BY DEF LookUp, Desk
<1>2. Known' \in Int
  <2>1. held' = None \/ held' \in Books
    BY DEF LookUp
  <2>2. QED  BY <2>1, WorldAssumption DEF Known
<1>3. QED
  BY <1>1, <1>2 DEF Trader!Look, Trader!counts, Trader!suspension, Known, world

\* What the world does: the day and the flag.
LEMMA DeskWatches ==
    ASSUME TypeOK, TypeOK', Tick \/ Toggle
    PROVE  DeskStep
<1>1. Desk' = Desk /\ UNCHANGED positions
  BY DEF Tick, Toggle, process, Desk
<1>2. CASE Tick
  <2>1. CASE sent' = sent
    BY <1>1, <1>2, <2>1 DEF Tick, DeskStep, DeskVars, Known, positions
  <2>2. CASE sent' = [sent EXCEPT !.today = 0, !.mine = 0]
    <3>1. /\ sent'.mine = 0 /\ sent'.today = 0
          /\ sent'.shares = sent.shares /\ sent'.late = sent.late
      BY <2>2 DEF TypeOK
    <3>2. Trader!NewDay
      BY <1>1, <1>2, <3>1
         DEF Tick, Trader!NewDay, Trader!account, Trader!suspension, positions
    <3>3. QED  BY <3>2 DEF DeskStep, Trader!Next
  <2>3. QED  BY <1>2, <2>1, <2>2 DEF Tick
<1>3. CASE Toggle
  <2>1. /\ sent'.mine = sent.mine /\ sent'.today = sent.today
        /\ sent'.shares = sent.shares /\ sent'.late = 0
    BY <1>3 DEF Toggle, TypeOK
  <2>2. Trader!Suspend
    BY <1>1, <1>3, <2>1
       DEF Toggle, Trader!Suspend, Trader!account, Trader!counts, positions
  <2>3. QED  BY <2>2 DEF DeskStep, Trader!Next
<1>4. QED  BY <1>2, <1>3

LEMMA DeskStarts == Init => Trader!Init
<1> SUFFICES ASSUME Init PROVE Trader!Init
  OBVIOUS
<1>1. Desk = "shut"
  BY DEF Init, Desk
<1>2. QED  BY <1>1 DEF Init, NothingSent, Trader!Init

LEMMA DeskGoesOn ==
    ASSUME Inv, Inv', [Next]_vars
    PROVE  DeskStep
<1>1. CASE Bootstrap
  BY <1>1, DeskOpens DEF DeskStep, Trader!Next, Inv
<1>2. CASE EvalOnly
  BY <1>2, DeskTicks DEF Inv
<1>3. CASE EvalHedge
  BY <1>3, DeskSends
<1>4. CASE Restart
  BY <1>4, DeskIsTakenOver DEF DeskStep, Trader!Next, Inv
<1>5. CASE Tick \/ Toggle
  BY <1>5, DeskWatches DEF Inv
<1>6. CASE LookUp
  BY <1>6, DeskLooks DEF DeskStep, Trader!Next, Inv
<1>7. CASE UNCHANGED <<trading, booted, alive, suspended, held, sent>>
  BY <1>7 DEF DeskStep, DeskVars, Known, Desk
<1>8. QED
  BY <1>1, <1>2, <1>3, <1>4, <1>5, <1>6, <1>7
     DEF Next, Eval, BeginLookUp, Refresh, EvalNothing, BadTicker, Ticker, Tickered,
         Publish, Reload, vars, process, positions, world

\* To the owner of the account the daemon is a HedgeDesk: whatever the quotes, the
\* account, the reloads and the restarts do, it sends only while it is open, each
\* time towards zero of the delta that its last lookup found, a daily limit's worth
\* for each process, and one hedge at most against a suspension.
THEOREM ImplementsDesk == Spec => DeskSpec
<1>1. Inv /\ Inv' /\ [Next]_vars => [Trader!Next]_DeskVars
  BY DeskGoesOn DEF DeskStep
<1>2. QED
  BY <1>1, DeskStarts, InvCorrect, PTL
     DEF Spec, DeskSpec, Trader!Spec, DeskVars, Known, Trader!vars, Trader!account,
         Trader!counts, Trader!suspension
=============================================================================
