------------------------------ MODULE HedgeFSM ------------------------------
(***************************************************************************)
(* The execution state machine of one hedge (daemon/fsm/hedge_fsm.py): it  *)
(* takes a target position, decides whether to send an order, and follows  *)
(* the order to its end.  Each on_... method is an operator from the       *)
(* machine before the call to the machine after it; a call that the table  *)
(* has no row for leaves the machine as it is.  HedgeFlow drives the       *)
(* machine as the daemon does; HedgeSpec below drives it with every event  *)
(* its interface takes, in any order.                                      *)
(***************************************************************************)
EXTENDS Integers

CONSTANTS
    NoTarget,    \* what current_target is when there is none
    Targets,     \* the target positions, in shares
    Positions    \* the stock positions, in shares

ASSUME SharesAssumption ==
    Targets \subseteq Int /\ Positions \subseteq Int /\ NoTarget \notin Int

VARIABLE hedge   \* the machine: its state, target, need_shares and connected

Ready == {"EXEC_IDLE", "FILLED"}
HedgeStates == Ready \cup {"PLAN", "SEND", "WAIT_ACK", "WORKING", "PARTIAL",
                           "REPRICE", "CANCEL", "RECOVER", "FAIL"}

Machine == [state : HedgeStates, target : Int \cup {NoTarget}, need : Int,
            connected : BOOLEAN]

HedgeInit ==
    hedge = [state |-> "EXEC_IDLE", target |-> NoTarget, need |-> 0,
             connected |-> TRUE]

\* can_place_order
CanPlaceOrder(m) == m.state \in Ready

\* One row of _TRANSITIONS: the machine moves only if it is in `from`.
Move(m, from, to) == IF m.state \in from THEN [m EXCEPT !.state = to] ELSE m

\* The same for the handlers that drop the target with the move.
Mut_ClearNeedToo(m, from, to) ==
    IF m.state \in from
      THEN [m EXCEPT !.state = to, !.target = NoTarget, !.need = NoTarget]
      ELSE m
Clear(m, from, to) ==
    IF m.state \in from
      THEN [m EXCEPT !.state = to, !.target = NoTarget, !.need = 0]
      ELSE m

Mut_OnTargetEager(m, target, position) ==
    [m EXCEPT !.state = IF CanPlaceOrder(m) THEN "PLAN" ELSE @,
              !.target = target, !.need = target - position]
OnTarget(m, target, position) ==
    IF CanPlaceOrder(m)
      THEN [m EXCEPT !.state = "PLAN", !.target = target,
                     !.need = target - position]
      ELSE m

\* PLAN_SKIP drops the target and, unlike PARTIAL's, keeps need_shares.
Mut_SkipKeepsTarget(m, send) ==
    Move(m, {"PLAN"}, IF send THEN "SEND" ELSE "EXEC_IDLE")
OnPlanDecide(m, send) ==
    IF send \/ m.state # "PLAN"
      THEN Move(m, {"PLAN"}, "SEND")
      ELSE [m EXCEPT !.state = "EXEC_IDLE", !.target = NoTarget]

OnPartialReplan(m, send) ==
    IF send THEN Move(m, {"PARTIAL"}, "SEND")
            ELSE Clear(m, {"PARTIAL"}, "EXEC_IDLE")

OnOrderPlaced(m)       == Move(m, {"SEND", "REPRICE"}, "WAIT_ACK")
OnAckOk(m)             == Move(m, {"WAIT_ACK"}, "WORKING")
OnAckReject(m)         == Move(m, {"WAIT_ACK"}, "FAIL")
OnTimeoutAck(m)        == Move(m, {"WAIT_ACK"}, "FAIL")
OnPartialFill(m)       == Move(m, {"WORKING"}, "PARTIAL")
OnFullFill(m)          == Clear(m, {"WORKING"}, "FILLED")
OnTimeoutWorking(m)    == Move(m, {"WORKING"}, "REPRICE")
OnManualCancel(m)      == Move(m, {"WORKING"}, "CANCEL")
OnRiskTrip(m)          == Move(m, {"WORKING"}, "CANCEL")
OnCancelSent(m)        == Move(m, {"CANCEL"}, "RECOVER")
OnPositionsResynced(m) == Clear(m, {"RECOVER"}, "EXEC_IDLE")
OnCannotRecover(m)     == Move(m, {"RECOVER"}, "FAIL")
OnTryResync(m)         == Move(m, {"FAIL"}, "RECOVER")

\* With an order out, a lost broker moves the machine; otherwise it is marked
\* as disconnected.
OnBrokerDown(m) ==
    CASE m.state = "WAIT_ACK" -> [m EXCEPT !.state = "FAIL"]
      [] m.state = "WORKING"  -> [m EXCEPT !.state = "CANCEL"]
      [] OTHER                -> [m EXCEPT !.connected = FALSE]

SetConnected(m, connected) == [m EXCEPT !.connected = connected]

\* _to_execution_state: what the classifier sees of the machine.
ExecutionState(m) ==
    IF ~m.connected THEN "DISCONNECTED"
    ELSE
    CASE m.state = "FAIL"      -> "BROKER_ERROR"
      [] m.state \in Ready     -> "IDLE"
      [] m.state = "PARTIAL"   -> "PARTIAL_FILL"
      [] OTHER                 -> "ORDER_WORKING"

-----------------------------------------------------------------------------
(* Every event in any order *)

NewTarget ==
    \E t \in Targets, p \in Positions : hedge' = OnTarget(hedge, t, p)

Plan ==
    \E send \in BOOLEAN :
        \/ hedge' = OnPlanDecide(hedge, send)
        \/ hedge' = OnPartialReplan(hedge, send)

Order == hedge' = OnOrderPlaced(hedge)

\* What the broker answers, or does not answer in time.
Answer ==
    \/ hedge' = OnAckOk(hedge)
    \/ hedge' = OnAckReject(hedge)
    \/ hedge' = OnTimeoutAck(hedge)
    \/ hedge' = OnPartialFill(hedge)
    \/ hedge' = OnFullFill(hedge)
    \/ hedge' = OnTimeoutWorking(hedge)

CancelOrder ==
    \/ hedge' = OnManualCancel(hedge)
    \/ hedge' = OnRiskTrip(hedge)
    \/ hedge' = OnCancelSent(hedge)

Resync ==
    \/ hedge' = OnPositionsResynced(hedge)
    \/ hedge' = OnCannotRecover(hedge)
    \/ hedge' = OnTryResync(hedge)

Connection ==
    \/ hedge' = OnBrokerDown(hedge)
    \/ \E c \in BOOLEAN : hedge' = SetConnected(hedge, c)

HedgeNext ==
    NewTarget \/ Plan \/ Order \/ Answer \/ CancelOrder \/ Resync \/ Connection

HedgeSpec == HedgeInit /\ [][HedgeNext]_hedge

-----------------------------------------------------------------------------
(* Properties *)

MachineOK == hedge \in Machine

\* Whatever ends an order (a fill, a skipped plan, a recovery), the machine
\* that takes a new target holds no old one, and a machine that is busy still
\* knows what it is working for.
TargetIffBusy == (hedge.target = NoTarget) <=> CanPlaceOrder(hedge)

\* While an order is on its way, no event, and no target that comes in then,
\* changes what is to be traded.
NeedIsFixed ==
    [][~CanPlaceOrder(hedge) /\ ~CanPlaceOrder(hedge)'
          => hedge'.need = hedge.need /\ hedge'.target = hedge.target]_hedge
=============================================================================
