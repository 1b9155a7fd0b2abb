--------------------------- MODULE HedgeFSMProofs ---------------------------
(***************************************************************************)
(* Proofs about HedgeFSM, for every set of targets and positions and every *)
(* order of its events.  MachineOK and TargetIffBusy are inductive         *)
(* together; NeedIsFixed needs no invariant but the typing.                *)
(***************************************************************************)
EXTENDS HedgeFSM, TLAPS

\* The handlers that only move along a row of the table between two states
\* with an order out, or into one of them.
LEMMA MoveBusy ==
    ASSUME NEW m \in Machine, NEW from \in SUBSET (HedgeStates \ Ready),
           NEW to \in HedgeStates \ Ready
    PROVE  /\ Move(m, from, to) \in Machine
           /\ CanPlaceOrder(Move(m, from, to)) <=> CanPlaceOrder(m)
           /\ Move(m, from, to).target = m.target
           /\ Move(m, from, to).need = m.need
BY DEF Move, Machine, CanPlaceOrder

\* The handlers that end an order: they leave the machine alone, or leave it
\* ready and without a target.
LEMMA ClearEnds ==
    ASSUME NEW m \in Machine, NEW from \in SUBSET HedgeStates, NEW to \in Ready
    PROVE  /\ Clear(m, from, to) \in Machine
           /\ \/ Clear(m, from, to) = m
              \/ /\ CanPlaceOrder(Clear(m, from, to))
                 /\ Clear(m, from, to).target = NoTarget
<1>1. CASE m.state \notin from
  BY <1>1 DEF Clear
<1>2. CASE m.state \in from
  <2>1. Clear(m, from, to)
          = [state |-> to, target |-> NoTarget, need |-> 0, connected |-> m.connected]
    BY <1>2 DEF Clear, Machine
  <2>2. m.connected \in BOOLEAN /\ to \in HedgeStates
    BY DEF Machine, HedgeStates
  <2>3. QED  BY <2>1, <2>2 DEF Machine, CanPlaceOrder
<1>3. QED  BY <1>1, <1>2

Keeps(m, n) ==      \* an order on its way stays as it is
    ~CanPlaceOrder(m) /\ ~CanPlaceOrder(n) => n.need = m.need /\ n.target = m.target
TargetOf(m) == (m.target = NoTarget) <=> CanPlaceOrder(m)

\* What every step of the machine does to it.
GoodStep(m, n) ==
    /\ n \in Machine
    /\ TargetOf(m) => TargetOf(n)
    /\ Keeps(m, n)

LEMMA MoveIsGood ==
    ASSUME NEW m \in Machine, NEW from \in SUBSET (HedgeStates \ Ready),
           NEW to \in HedgeStates \ Ready
    PROVE  GoodStep(m, Move(m, from, to))
BY MoveBusy DEF GoodStep, TargetOf, Keeps

LEMMA ClearIsGood ==
    ASSUME NEW m \in Machine, NEW from \in SUBSET HedgeStates, NEW to \in Ready
    PROVE  GoodStep(m, Clear(m, from, to))
BY ClearEnds DEF GoodStep, TargetOf, Keeps

\* The one step of the proofs: whatever event comes, GoodStep.
LEMMA EveryStepIsGood ==
    ASSUME MachineOK, HedgeNext
    PROVE  GoodStep(hedge, hedge')
<1> USE DEF MachineOK
<1>1. CASE NewTarget
  <2>1. PICK t \in Targets, p \in Positions : hedge' = OnTarget(hedge, t, p)
    BY <1>1 DEF NewTarget
  <2>2. t \in Int /\ p \in Int /\ t # NoTarget  BY SharesAssumption
  <2>3. CASE ~CanPlaceOrder(hedge)
    BY <2>1, <2>3 DEF OnTarget, GoodStep, TargetOf, Keeps
  <2>4. CASE CanPlaceOrder(hedge)
    <3>1. hedge' = [state |-> "PLAN", target |-> t, need |-> t - p,
                    connected |-> hedge.connected]
      BY <2>1, <2>4 DEF OnTarget, Machine
    <3>2. hedge.connected \in BOOLEAN /\ t - p \in Int
      BY <2>2 DEF Machine
    <3>3. hedge' \in Machine
      BY <2>2, <3>1, <3>2 DEF Machine, HedgeStates
    <3>4. hedge'.target # NoTarget /\ ~CanPlaceOrder(hedge')
      BY <2>2, <3>1 DEF CanPlaceOrder, Ready
    <3>5. QED  BY <2>4, <3>3, <3>4 DEF GoodStep, TargetOf, Keeps
  <2>5. QED  BY <2>3, <2>4
<1>2. CASE Plan
  <2>1. PICK send \in BOOLEAN : \/ hedge' = OnPlanDecide(hedge, send)
                                \/ hedge' = OnPartialReplan(hedge, send)
    BY <1>2 DEF Plan
  <2>2. CASE hedge' = OnPlanDecide(hedge, send)
    <3>1. CASE send \/ hedge.state # "PLAN"
      BY <2>2, <3>1, MoveIsGood DEF OnPlanDecide, HedgeStates, Ready
    <3>2. CASE ~(send \/ hedge.state # "PLAN")
      BY <2>2, <3>2 DEF OnPlanDecide, GoodStep, TargetOf, Keeps, Machine,
                        CanPlaceOrder, HedgeStates, Ready
    <3>3. QED  BY <3>1, <3>2
  <2>3. CASE hedge' = OnPartialReplan(hedge, send)
    BY <2>3, MoveIsGood, ClearIsGood DEF OnPartialReplan, HedgeStates, Ready
  <2>4. QED  BY <2>1, <2>2, <2>3
<1>3. CASE Order
  BY <1>3, MoveIsGood DEF Order, OnOrderPlaced, HedgeStates, Ready
<1>4. CASE Answer
  BY <1>4, MoveIsGood, ClearIsGood
     DEF Answer, OnAckOk, OnAckReject, OnTimeoutAck, OnPartialFill, OnFullFill,
         OnTimeoutWorking, HedgeStates, Ready
<1>5. CASE CancelOrder
  BY <1>5, MoveIsGood
     DEF CancelOrder, OnManualCancel, OnRiskTrip, OnCancelSent, HedgeStates, Ready
<1>6. CASE Resync
  BY <1>6, MoveIsGood, ClearIsGood
     DEF Resync, OnPositionsResynced, OnCannotRecover, OnTryResync, HedgeStates,
         Ready
<1>7. CASE Connection
  <2>1. CASE hedge' = OnBrokerDown(hedge)
    BY <2>1 DEF OnBrokerDown, GoodStep, TargetOf, Keeps, Machine, CanPlaceOrder,
                HedgeStates, Ready
  <2>2. ASSUME NEW c \in BOOLEAN, hedge' = SetConnected(hedge, c)
        PROVE  GoodStep(hedge, hedge')
    BY <2>2 DEF SetConnected, GoodStep, TargetOf, Keeps, Machine, CanPlaceOrder
  <2>3. QED  BY <1>7, <2>1, <2>2 DEF Connection
<1>8. QED
  BY <1>1, <1>2, <1>3, <1>4, <1>5, <1>6, <1>7 DEF HedgeNext

LEMMA InitIsGood == HedgeInit => MachineOK /\ TargetIffBusy
BY DEF HedgeInit, MachineOK, TargetIffBusy, Machine, CanPlaceOrder, HedgeStates,
       Ready

\* The machine stays a machine, whatever events come.
THEOREM MachineCorrect == HedgeSpec => []MachineOK
<1>1. HedgeInit => MachineOK  BY InitIsGood
<1>2. MachineOK /\ [HedgeNext]_hedge => MachineOK'
  BY EveryStepIsGood DEF GoodStep, MachineOK
<1>3. QED  BY <1>1, <1>2, PTL DEF HedgeSpec

\* A machine holds a target exactly while it is busy with one.
THEOREM TargetCorrect == HedgeSpec => []TargetIffBusy
<1>1. HedgeInit => MachineOK /\ TargetIffBusy  BY InitIsGood
<1>2. MachineOK /\ TargetIffBusy /\ [HedgeNext]_hedge
        => (MachineOK /\ TargetIffBusy)'
  <2>1. CASE UNCHANGED hedge
    BY <2>1 DEF MachineOK, TargetIffBusy, CanPlaceOrder
  <2>2. CASE HedgeNext
    BY <2>2, EveryStepIsGood DEF GoodStep, MachineOK, TargetIffBusy, TargetOf
  <2>3. QED  BY <2>1, <2>2
<1>3. QED  BY <1>1, <1>2, PTL DEF HedgeSpec

\* No event changes what an order on its way is to trade.
THEOREM NeedCorrect == HedgeSpec => NeedIsFixed
<1>1. HedgeInit => MachineOK  BY InitIsGood
<1>2. MachineOK /\ [HedgeNext]_hedge => MachineOK'
  BY EveryStepIsGood DEF GoodStep, MachineOK
<1>3. MachineOK /\ [HedgeNext]_hedge
        => [~CanPlaceOrder(hedge) /\ ~CanPlaceOrder(hedge)'
               => hedge'.need = hedge.need /\ hedge'.target = hedge.target]_hedge
  BY EveryStepIsGood DEF GoodStep, Keeps, CanPlaceOrder
<1>4. QED  BY <1>1, <1>2, <1>3, PTL DEF HedgeSpec, NeedIsFixed
=============================================================================
