----------------------- MODULE DaemonLifecycleProofs -----------------------
(***************************************************************************)
(* Proofs about DaemonLifecycle, for any number of commands, changes of    *)
(* the flag, exceptions and edits of the config file.                      *)
(*                                                                         *)
(*   Typing    TypeOK is inductive by itself.                              *)
(*   Stop      no step leads from STOPPING or STOPPED to another state.    *)
(*   Run       RunInv says what the FSM and the tasks are at which         *)
(*             position of run(); it yields NothingOutlivesCleanup and     *)
(*             CleanupWaitsForCancelled.                                   *)
(*   Reload    ReloadInv says what a failed reload leaves behind; it       *)
(*             yields FailedReloadIsDue.                                   *)
(*   Drain     once a stop is requested each step of the daemon lowers     *)
(*             Remaining, by the kinds of steps there are (StepKinds).     *)
(*   Service   by the same kinds, the daemon implements LeaderService.     *)
(***************************************************************************)
EXTENDS DaemonLifecycle, SequenceTheorems, TLAPS

Phases == {"none", "top", "topRefresh", "sleep", "sleepRefresh", "hourly",
           "work", "hedge", "done", "dead"}
Syncs == {"accounts", "read", "write"}
Starting == {"start", "connected", "positions", "refresh"}
USE DEF Starting

-----------------------------------------------------------------------------
(* The state machine *)

\* Every way to change the FSM stays among its states, and keeps a stop.
LEMMA AfterType ==
    ASSUME NEW from \in States, NEW to \in States
    PROVE  /\ After(from, to) \in States
           /\ from \in {"STOPPING", "STOPPED"}
                => After(from, to) \in {"STOPPING", "STOPPED"}
BY DEF After, Allowed, States

LEMMA StopRequestedType ==
    ASSUME NEW from \in States
    PROVE  /\ StopRequested(from) \in States
           /\ from \in {"STOPPING", "STOPPED"}
                => StopRequested(from) \in {"STOPPING", "STOPPED"}
BY DEF StopRequested, States

LEMMA PolledType ==
    ASSUME NEW from \in States
    PROVE  /\ Polled(from) \in States
           /\ from \in {"STOPPING", "STOPPED"} => Polled(from) = from
BY DEF Polled, States

LEMMA RaisedType ==
    ASSUME NEW from \in States
    PROVE  /\ Raised(from) \in States
           /\ from \in {"STOPPING", "STOPPED"} => Raised(from) = "STOPPED"
BY DEF Raised, After, Allowed, States

-----------------------------------------------------------------------------
(* Effects of the operators that several actions share, on the FSM (which    *)
(* keeps a stop), and on what they prime besides.                            *)

FsmStep == fsm' \in States /\ (IsStopping => IsStopping')

LEMMA FinallyEffect ==
    ASSUME TypeOK, NEW state \in States,
           fsm \in {"STOPPING", "STOPPED"} => state \in {"STOPPING", "STOPPED"},
           Finally(state)
    PROVE  /\ FsmStep
           /\ main' \in {"stopPush", "ended"}
           /\ pushCancel' \in BOOLEAN
<1>1. CASE state = "STOPPED"
  BY <1>1 DEF Finally, TypeOK, FsmStep, IsStopping, States
<1>2. CASE state # "STOPPED"
  <2>1. fsm' = After(state, "STOPPING") /\ BeginStopping
    BY <1>2 DEF Finally
  <2>2. "STOPPING" \in States  BY DEF States
  <2>3. FsmStep
    BY <2>1, <2>2, AfterType DEF FsmStep, IsStopping
  <2>4. QED  BY <2>1, <2>3 DEF BeginStopping
<1>3. QED  BY <1>1, <1>2

LEMMA ConsumeEffect ==
    ASSUME TypeOK, NEW refresh \in Phases, NEW state \in States, NEW next \in Phases,
           IsStopping => state \in {"STOPPING", "STOPPED"},
           Consume(refresh, state, next)
    PROVE  /\ FsmStep
           /\ hb' \in Phases
           /\ commands' \in Seq(Commands)
<1>1. commands' \in Seq(Commands)
  BY DEF Consume, TypeOK
<1>2. hb' \in Phases
  BY DEF Consume, Phases
<1>3. FsmStep
  BY StopRequestedType DEF Consume, TypeOK, FsmStep, IsStopping
<1>4. QED  BY <1>1, <1>2, <1>3

-----------------------------------------------------------------------------
(* Typing, and the finality of a stop: one step per action *)

GoodStep == TypeOK' /\ (IsStopping => IsStopping')

LEMMA TypeInit == Init => TypeOK
<1>1. 0 \in 0 .. MaxEdits /\ 0 \in 0 .. MaxCommands /\ 0 \in 0 .. MaxToggles
      /\ 0 \in 0 .. MaxFaults
  BY BoundsAssumption
<1>2. <<>> \in Seq(Commands)  OBVIOUS
<1>3. QED  BY <1>1, <1>2, Zenon DEF Init, TypeOK, States

LEMMA FaultType ==
    ASSUME TypeOK, Fault
    PROVE  faults' \in 0 .. MaxFaults
BY BoundsAssumption DEF TypeOK, Fault

LEMMA HandlerRaisesStep ==
    ASSUME TypeOK, NEW written \in States \cup {None}, HandlerRaises(written)
    PROVE  GoodStep
<1>1. FsmStep /\ main' \in {"stopPush", "ended"} /\ pushCancel' \in BOOLEAN
  BY RaisedType, FinallyEffect DEF HandlerRaises, TypeOK
<1>2. faults' \in 0 .. MaxFaults  BY FaultType DEF HandlerRaises
<1>3. status' \in States \cup {None}  BY DEF HandlerRaises, TypeOK
<1>4. QED
  BY <1>1, <1>2, <1>3
     DEF HandlerRaises, TypeOK, GoodStep, FsmStep, tasks, resources, config

LEMMA StopperStep ==
    ASSUME TypeOK, Signal \/ LoseLeadership \/ CancelService \/ ProbeKills
    PROVE  GoodStep
<1>1. fsm' = fsm \/ fsm' = StopRequested(fsm)
  BY DEF Signal, LoseLeadership, CancelService, ProbeKills
<1>2. fsm' \in States /\ (IsStopping => IsStopping')
  BY <1>1, StopRequestedType DEF TypeOK, IsStopping
<1>3. QED
  BY <1>2 DEF Signal, LoseLeadership, CancelService, ProbeKills, GoodStep,
              TypeOK, tasks, cancels, resources, redis, config, counters

LEMMA MainStep ==
    ASSUME TypeOK, Main
    PROVE  GoodStep
<1> USE DEF tasks, cancels, resources, redis, config, counters
<1>1. CASE Start
  <2>1. {"CONNECTING", "CONNECTED"} \subseteq States  BY DEF States
  <2>2. fsm' \in States /\ (IsStopping => IsStopping')
    BY <1>1, <2>1, AfterType DEF Start, TypeOK, IsStopping
  <2>3. QED  BY <1>1, <2>2 DEF Start, TypeOK, GoodStep
<1>2. CASE Connected
  <2>1. CASE fsm = "CONNECTED"
    BY <1>2, <2>1 DEF Connected, TypeOK, GoodStep, IsStopping, States
  <2>2. CASE fsm # "CONNECTED"
    <3>1. FsmStep /\ main' \in {"stopPush", "ended"} /\ pushCancel' \in BOOLEAN
      BY <1>2, <2>2, FinallyEffect DEF Connected, TypeOK
    <3>2. QED  BY <1>2, <3>1 DEF Connected, TypeOK, GoodStep, FsmStep
  <2>3. QED  BY <2>1, <2>2
<1>3. CASE Refreshed
  <2>1. fsm' \in States /\ (IsStopping => IsStopping')
    BY <1>3, PolledType DEF Refreshed, TypeOK, IsStopping
  <2>2. QED  BY <1>3, <2>1 DEF Refreshed, TypeOK, GoodStep
<1>4. CASE LeaveLoop
  <2>1. "STOPPING" \in States  BY DEF States
  <2>2. FsmStep /\ main' \in {"stopPush", "ended"} /\ pushCancel' \in BOOLEAN
    BY <1>4, <2>1, AfterType, FinallyEffect DEF LeaveLoop, TypeOK
  <2>3. cancelled' \in BOOLEAN  BY <1>4 DEF LeaveLoop
  <2>4. QED  BY <1>4, <2>2, <2>3, SMTT(30) DEF LeaveLoop, TypeOK, GoodStep, FsmStep
<1>5. CASE CancelHandler
  <2>1. FsmStep /\ main' \in {"stopPush", "ended"} /\ pushCancel' \in BOOLEAN
    BY <1>5, FinallyEffect DEF CancelHandler, TypeOK
  <2>2. cancelled' \in BOOLEAN  BY <1>5 DEF CancelHandler
  <2>3. QED
    BY <1>5, <2>1, <2>2, SMTT(30) DEF CancelHandler, TypeOK, GoodStep, FsmStep
<1>6. CASE AccountsRead \/ PushStopped \/ HbStopped
  BY <1>6 DEF AccountsRead, PushStopped, HbStopped, TypeOK, GoodStep, IsStopping
<1>7. CASE ReloadStopped
  <2>1. "STOPPED" \in States  BY DEF States
  <2>2. fsm' \in States /\ (IsStopping => IsStopping')
    BY <1>7, <2>1, AfterType DEF ReloadStopped, TypeOK, IsStopping
  <2>3. cancelled' \in BOOLEAN  BY <1>7 DEF ReloadStopped
  <2>4. QED  BY <1>7, <2>2, <2>3, SMTT(30) DEF ReloadStopped, TypeOK, GoodStep
<1>8. QED  BY <1>1, <1>2, <1>3, <1>4, <1>5, <1>6, <1>7 DEF Main

LEMMA BeginPassEffect ==
    ASSUME TypeOK, BeginPass
    PROVE  FsmStep /\ hb' \in Phases /\ commands' \in Seq(Commands)
<1>1. CASE IsRunning
  <2>1. Polled(fsm) \in States /\ (IsStopping => Polled(fsm) = fsm)
    BY PolledType DEF TypeOK, IsStopping
  <2>2. Consume("topRefresh", Polled(fsm), "sleep")  BY <1>1 DEF BeginPass
  <2>3. QED  BY <2>1, <2>2, ConsumeEffect DEF Phases, IsStopping
<1>2. CASE ~IsRunning
  BY <1>2 DEF BeginPass, TypeOK, Phases, FsmStep, IsStopping
<1>3. QED  BY <1>1, <1>2

LEMMA HeartbeatStep ==
    ASSUME TypeOK, Heartbeat \/ HbRaises
    PROVE  GoodStep
<1> USE DEF cancels, resources, config
<1>1. ASSUME HbOnly, FsmStep, hb' \in Phases, sync' \in Syncs,
             commands' \in Seq(Commands),
             status' \in States \cup {None}, faults' \in 0 .. MaxFaults
      PROVE  GoodStep
  BY <1>1 DEF HbOnly, TypeOK, GoodStep, FsmStep, Phases, Syncs
<1>2. CASE HbTop \/ HbHedgeDone
  <2>1. FsmStep /\ hb' \in Phases /\ commands' \in Seq(Commands)
    BY <1>2, BeginPassEffect DEF HbTop, HbHedgeDone
  <2>2. HbOnly /\ UNCHANGED <<sync, status, faults>>
    BY <1>2 DEF HbTop, HbHedgeDone
  <2>3. QED  BY <1>1, <2>1, <2>2 DEF TypeOK, Syncs
<1>3. CASE HbSlice
  <2>1. CASE IsRunning
    <3>1. PICK next \in AfterSlice : Consume("sleepRefresh", Slept(next), next)
      BY <1>3, <2>1 DEF HbSlice
    <3>2. Slept(next) \in States /\ (IsStopping => Slept(next) = fsm)
      BY PolledType DEF Slept, TypeOK, IsStopping
    <3>3. FsmStep /\ hb' \in Phases /\ commands' \in Seq(Commands)
      BY <3>1, <3>2, ConsumeEffect DEF AfterSlice, Phases, IsStopping
    <3>4. QED  BY <1>1, <1>3, <3>3 DEF HbSlice, TypeOK, Syncs
  <2>2. CASE ~IsRunning
    BY <1>1, <1>3, <2>2 DEF HbSlice, TypeOK, Phases, Syncs, FsmStep, IsStopping
  <2>3. QED  BY <2>1, <2>2
<1>4. CASE HbTopRefreshed
  BY <1>1, <1>4, PolledType
     DEF HbTopRefreshed, Synced, TypeOK, Phases, Syncs, FsmStep, IsStopping
<1>5. CASE HbSliceRefreshed
  BY <1>1, <1>5, PolledType
     DEF HbSliceRefreshed, Synced, AfterSlice, Slept, TypeOK, Phases, Syncs, FsmStep,
         IsStopping
<1>6. CASE HbSyncs \/ HbHourlyDone \/ HbCancelled
  BY <1>1, <1>6
     DEF HbSyncs, HbHourlyDone, HbCancelled, Synced, TypeOK, Phases, Syncs, FsmStep,
         IsStopping
<1>7. CASE HbWorkDone
  <2>1. FsmStep /\ hb' \in Phases /\ commands' \in Seq(Commands)
    <3>1. CASE hb' = "hedge" /\ UNCHANGED <<fsm, commands>>
      BY <3>1 DEF TypeOK, FsmStep, IsStopping, Phases
    <3>2. QED  BY <1>7, <3>1, BeginPassEffect DEF HbWorkDone
  <2>2. HbOnly /\ UNCHANGED <<sync, faults>> /\ status' = fsm
    BY <1>7 DEF HbWorkDone
  <2>3. QED  BY <1>1, <2>1, <2>2 DEF TypeOK, Syncs
<1>8. CASE HbRaises
  BY <1>1, <1>8, FaultType DEF HbRaises, TypeOK, Phases, Syncs, FsmStep, IsStopping
<1>9. QED  BY <1>2, <1>3, <1>4, <1>5, <1>6, <1>7, <1>8 DEF Heartbeat

\* The tasks beside the heartbeat, and the world: none of them moves the FSM.
LEMMA OtherStep ==
    ASSUME TypeOK,
           \/ PushCancelled \/ PushClosed
           \/ ReloadEnds \/ FirstCheck \/ Reload \/ ReloadFails
           \/ \E c \in Commands : Send(c)
           \/ Toggle \/ Edit \/ UNCHANGED vars
    PROVE  GoodStep
<1> USE DEF tasks, cancels, resources, redis, config, counters
<1>1. CASE PushCancelled \/ PushClosed \/ ReloadEnds
  BY <1>1 DEF PushCancelled, PushClosed, PushOnly, ReloadEnds, ReloadOnly, TypeOK,
              GoodStep, IsStopping
<1>2. CASE FirstCheck \/ Reload
  BY <1>2 DEF FirstCheck, Reload, MayReload, ReloadOnly, TypeOK, GoodStep, IsStopping
<1>3. CASE ReloadFails
  BY <1>3, FaultType
     DEF ReloadFails, MayReload, ReloadOnly, TypeOK, GoodStep, IsStopping
<1>4. CASE \E c \in Commands : Send(c)
  BY <1>4, BoundsAssumption DEF Send, TypeOK, GoodStep, IsStopping
<1>5. CASE Toggle
  BY <1>5, BoundsAssumption DEF Toggle, TypeOK, GoodStep, IsStopping
<1>6. CASE Edit
  BY <1>6, BoundsAssumption DEF Edit, TypeOK, GoodStep, IsStopping
<1>7. CASE UNCHANGED vars
  BY <1>7 DEF vars, TypeOK, GoodStep, IsStopping
<1>8. QED  BY <1>1, <1>2, <1>3, <1>4, <1>5, <1>6, <1>7

LEMMA EveryStep == TypeOK /\ [Next]_vars => GoodStep
<1> SUFFICES ASSUME TypeOK, [Next]_vars PROVE GoodStep
  OBVIOUS
<1>1. CASE StartRaises \/ ConnectedRaises \/ RefreshedRaises
  BY <1>1, HandlerRaisesStep, PolledType
     DEF StartRaises, ConnectedRaises, RefreshedRaises, TypeOK
<1>2. QED
  BY <1>1, StopperStep, MainStep, HeartbeatStep, OtherStep DEF Next

\* Every variable keeps its type.
THEOREM TypeCorrect == Spec => []TypeOK
<1>1. TypeOK /\ [Next]_vars => TypeOK'  BY EveryStep DEF GoodStep
<1>2. QED  BY <1>1, TypeInit, PTL DEF Spec

\* A stop is final: no handler, poll or exception leads out of it.
THEOREM StopCorrect == Spec => StopIsFinal
<1>1. TypeOK /\ [Next]_vars => [IsStopping => IsStopping']_vars
  BY EveryStep DEF GoodStep
<1>2. QED  BY <1>1, TypeCorrect, PTL DEF Spec, StopIsFinal

-----------------------------------------------------------------------------
(* What run() and its tasks are when *)

\* The FSM goes with the position of run(): it is IDLE at the start and STOPPED
\* at the end only, and STOPPING all through handle_stopping.  There are tasks
\* between handle_running and the end only; handle_stopping cancels, waits for
\* what it has cancelled and goes on when that is over; its last step closes the sink.
RunInv ==
    /\ main = "start" <=> fsm = "IDLE"
    /\ main = "ended" <=> fsm = "STOPPED"
    /\ main \in {"stopPush", "stopHb", "stopReload"} => fsm = "STOPPING"
    /\ main \in Starting \cup {"ended"}
         => Over(hb) /\ Over(push) /\ Over(reload)
    /\ pushCancel \/ push = "closing" => main \notin Starting \cup {"loop"}
    /\ main \in {"stopHb", "stopReload"} => Over(push)
    /\ main = "stopReload" => Over(hb)
    /\ CleanupWaitsForCancelled
    /\ sink = "closed" => main = "ended" /\ reader = "closed"

LEMMA RunInit == Init => RunInv
BY DEF Init, RunInv, Over, CleanupWaitsForCancelled

\* Every step is of one of these kinds, or one of run()'s own steps.

\* Somebody asks for a stop, or something happens outside.
Still ==
    /\ UNCHANGED <<main, tasks, cancels, resources>>
    /\ \/ UNCHANGED <<fsm, leadership>>
       \/ fsm' = StopRequested(fsm) /\ main \notin {"start", "ended"}
          /\ UNCHANGED leadership
       \/ fsm' = StopRequested(fsm) /\ main \notin {"start", "ended"}
          /\ leadership = "held" /\ leadership' = "lost"
       \/ leadership = "lost" /\ leadership' = "released" /\ UNCHANGED fsm

\* run() leaves its loop, to clean up or, with no task there, for good.
Ends ==
    /\ UNCHANGED <<leadership, tasks, resources, hbCancel, reloadCancel>>
    /\ \/ /\ main \in Starting \cup {"loop"}
          /\ main' = "stopPush" /\ fsm' = "STOPPING"
          /\ pushCancel' = (push = "run")
       \/ /\ main \in Starting
          /\ main' = "ended" /\ fsm' = "STOPPED"
          /\ UNCHANGED pushCancel

\* The heartbeat goes on or ends; while the daemon stops it gets nearer its end.
Beats ==
    /\ UNCHANGED <<main, leadership, push, reload, cancels, resources>>
    /\ ~Over(hb)
    /\ fsm' \in {fsm, StopRequested(fsm), Polled(fsm)}
    /\ hb' \in Phases \ {"none"}
    /\ IsStopping => HbLeft' < HbLeft

\* The push or the reload task goes on or ends.
TaskRuns ==
    /\ UNCHANGED <<fsm, main, leadership, hb, sync, cancels, sink>>
    /\ \/ push \in {"run", "closing"} /\ push' \in {"closing", "done"}
          /\ push # push' /\ (push = "run" => pushCancel)
          /\ UNCHANGED <<reload, reader>>
       \/ reload = "run" /\ reload' \in {"run", "done"} /\ UNCHANGED push
          /\ (IsStopping => reload' = "done")

LEMMA FinallyEnds ==
    ASSUME TypeOK, RunInv, NEW state \in States, Finally(state),
           UNCHANGED <<leadership, tasks, resources, hbCancel, reloadCancel>>,
           main \in Starting \cup {"loop"},
           state # "IDLE",
           state = "STOPPED" => main # "loop"
    PROVE  Ends
<1>1. CASE state = "STOPPED"
  BY <1>1 DEF Finally, Ends
<1>2. CASE state # "STOPPED"
  <2>1. After(state, "STOPPING") = "STOPPING"
    BY <1>2 DEF After, Allowed, States
  <2>2. fsm' = "STOPPING" /\ BeginStopping
    BY <1>2, <2>1 DEF Finally
  <2>3. QED  BY <2>2 DEF BeginStopping, Ends
<1>3. QED  BY <1>1, <1>2

LEMMA RaisesEnds ==
    ASSUME TypeOK, RunInv, NEW written, HandlerRaises(written),
           main \in Starting
    PROVE  Ends
<1>1. Raised(fsm) \in States /\ Raised(fsm) # "IDLE"
  BY RaisedType DEF TypeOK, Raised, After, Allowed, States
<1>2. Finally(Raised(fsm))
      /\ UNCHANGED <<leadership, tasks, resources, hbCancel, reloadCancel>>
  BY DEF HandlerRaises
<1>3. QED  BY <1>1, <1>2, FinallyEnds

LEMMA ConsumeBeats ==
    ASSUME NEW refresh, NEW state, NEW next, Consume(refresh, state, next)
    PROVE  /\ fsm' \in {fsm, StopRequested(fsm), state}
           /\ hb' \in {"done", refresh, next}
BY DEF Consume

LEMMA SyncLeftType == TypeOK => SyncLeft \in 1 .. 3
BY DEF TypeOK, SyncLeft

LEMMA BeginPassBeats ==
    ASSUME BeginPass
    PROVE  /\ fsm' \in {fsm, StopRequested(fsm), Polled(fsm)}
           /\ hb' \in {"done", "topRefresh", "sleep"}
           /\ IsStopping => hb' = "done"
<1>1. CASE IsRunning
  <2>1. Consume("topRefresh", Polled(fsm), "sleep")
    BY <1>1 DEF BeginPass
  <2>2. QED  BY <1>1, <2>1, ConsumeBeats DEF IsRunning, IsStopping
<1>2. CASE ~IsRunning
  BY <1>2 DEF BeginPass
<1>3. QED  BY <1>1, <1>2

\* While the daemon stops, a pass or a sleep only ends.
LEMMA HeartbeatBeats ==
    ASSUME TypeOK, Heartbeat \/ HbRaises
    PROVE  Beats
<1>1. HbOnly /\ ~Over(hb)
  BY DEF Heartbeat, HbRaises, HbTop, HbTopRefreshed, HbSlice, HbSliceRefreshed,
         HbSyncs, Refreshing, HbHourlyDone, HbWorkDone, HbHedgeDone, HbCancelled, Over
<1>2. IsRunning => ~IsStopping
  BY DEF IsRunning, IsStopping
<1>3. /\ fsm' \in {fsm, StopRequested(fsm), Polled(fsm)}
      /\ hb' \in Phases \ {"none"}
      /\ IsStopping => HbLeft' < HbLeft
  <2>1. CASE HbTop \/ HbHedgeDone
    <3>1. BeginPass /\ hb \in {"top", "hedge"}
      BY <2>1 DEF HbTop, HbHedgeDone
    <3>2. QED  BY <3>1, BeginPassBeats DEF HbLeft, Phases
  <2>2. CASE HbSlice
    <3>1. CASE IsRunning
      <4>1. PICK next \in AfterSlice : Consume("sleepRefresh", Slept(next), next)
        BY <2>2, <3>1 DEF HbSlice
      <4>2. fsm' \in {fsm, StopRequested(fsm), Slept(next)}
            /\ hb' \in {"done", "sleepRefresh", next}
        BY <4>1, ConsumeBeats
      <4>3. QED  BY <3>1, <4>2, <1>2 DEF Phases, AfterSlice, Slept
    <3>2. CASE ~IsRunning
      BY <2>2, <3>2 DEF HbSlice, HbLeft, Phases
    <3>3. QED  BY <3>1, <3>2
  <2>3. CASE HbTopRefreshed
    BY <2>3, SyncLeftType DEF HbTopRefreshed, HbLeft, Phases
  <2>4. CASE HbSliceRefreshed
    <3>1. PICK next \in AfterSlice : hb' = next /\ fsm' = Slept(next)
      BY <2>4 DEF HbSliceRefreshed
    <3>2. hb = "sleepRefresh" /\ sync' = "accounts"
      BY <2>4 DEF HbSliceRefreshed, Synced
    <3>3. HbLeft = SyncLeft + 5 /\ SyncLeft \in 1 .. 3
      BY <3>2, SyncLeftType DEF HbLeft
    <3>4. SyncLeft' = 3
      BY <3>2 DEF SyncLeft
    <3>5. HbLeft' \in 1 .. 5
      <4>1. CASE next = "hourly"
        <5>1. HbLeft' = SyncLeft' + 2  BY <3>1, <4>1 DEF HbLeft
        <5>2. QED  BY <3>4, <5>1
      <4>2. CASE next # "hourly"
        BY <3>1, <4>2 DEF AfterSlice, HbLeft
      <4>3. QED  BY <4>1, <4>2
    <3>6. QED  BY <3>1, <3>3, <3>5 DEF AfterSlice, Slept, Phases
  <2>5. CASE HbHourlyDone
    BY <2>5, SyncLeftType DEF HbHourlyDone, HbLeft, Phases
  <2>6. CASE HbWorkDone
    <3>1. CASE hb' = "hedge" /\ UNCHANGED fsm
      BY <2>6, <3>1 DEF HbWorkDone, HbLeft, Phases
    <3>2. QED  BY <2>6, <3>1, BeginPassBeats DEF HbWorkDone, HbLeft, Phases
  <2>7. CASE HbSyncs
    <3>1. hb' = hb /\ fsm' = fsm /\ hb \in Refreshing  BY <2>7 DEF HbSyncs
    <3>2. SyncLeft \in Nat /\ SyncLeft' \in Nat /\ SyncLeft' < SyncLeft
      BY <2>7 DEF HbSyncs, SyncLeft
    <3>3. QED  BY <3>1, <3>2 DEF HbLeft, Refreshing, Phases
  <2>8. CASE HbCancelled \/ HbRaises
    <3>1. hb \in Phases \ {"none", "done", "dead"} /\ hb' \in {"done", "dead"}
      BY <2>8, <1>1 DEF HbCancelled, HbRaises, TypeOK, Phases, Over
    <3>2. fsm' = fsm  BY <2>8 DEF HbCancelled, HbRaises
    <3>3. HbLeft' = 0  BY <3>1 DEF HbLeft
    <3>4. HbLeft > 0  BY <3>1, SyncLeftType DEF HbLeft, Phases
    <3>5. QED  BY <3>1, <3>2, <3>3, <3>4 DEF Phases
  <2>9. QED  BY <2>1, <2>2, <2>3, <2>4, <2>5, <2>6, <2>7, <2>8 DEF Heartbeat
<1>4. QED  BY <1>1, <1>3 DEF Beats, HbOnly

Launches == AccountsRead \/ (Connected /\ fsm = "CONNECTED")

LEMMA StepKinds ==
    ASSUME TypeOK, RunInv, [Next]_vars
    PROVE  \/ Still \/ Ends \/ Beats \/ TaskRuns
           \/ Start \/ Launches \/ Refreshed
           \/ PushStopped \/ HbStopped \/ ReloadStopped
<1>1. CASE Signal \/ LoseLeadership \/ CancelService \/ ProbeKills
  BY <1>1 DEF Signal, LoseLeadership, CancelService, ProbeKills, Still, tasks,
              cancels, resources
<1>2. CASE Toggle \/ Edit \/ (\E c \in Commands : Send(c)) \/ UNCHANGED vars
  BY <1>2 DEF Toggle, Edit, Send, vars, Still
<1>3. CASE StartRaises \/ ConnectedRaises \/ RefreshedRaises
  BY <1>3, RaisesEnds DEF StartRaises, ConnectedRaises, RefreshedRaises
<1>4. CASE Connected
  <2>1. CASE fsm = "CONNECTED"
    BY <1>4, <2>1 DEF Launches
  <2>2. CASE fsm # "CONNECTED"
    <3>1. Finally(fsm) /\ main = "positions"
          /\ UNCHANGED <<leadership, tasks, resources, hbCancel, reloadCancel>>
      BY <1>4, <2>2 DEF Connected
    <3>2. fsm \in States /\ fsm # "IDLE"
      BY <3>1 DEF TypeOK, RunInv
    <3>3. QED  BY <3>1, <3>2, FinallyEnds
  <2>3. QED  BY <2>1, <2>2
<1>5. CASE LeaveLoop
  <2>1. Finally(After(fsm, "STOPPING")) /\ main = "loop"
        /\ UNCHANGED <<leadership, tasks, resources, hbCancel, reloadCancel>>
    BY <1>5 DEF LeaveLoop
  <2>2. After(fsm, "STOPPING") = "STOPPING"
    BY <2>1 DEF RunInv, TypeOK, After, Allowed, States
  <2>3. QED  BY <2>1, <2>2, FinallyEnds DEF States
<1>6. CASE CancelHandler
  <2>1. Finally(fsm) /\ main \in {"connected", "positions", "refresh"}
        /\ UNCHANGED <<leadership, tasks, resources, hbCancel, reloadCancel>>
    BY <1>6 DEF CancelHandler
  <2>2. fsm \in States /\ fsm # "IDLE"
    BY <2>1 DEF TypeOK, RunInv
  <2>3. QED  BY <2>1, <2>2, FinallyEnds
<1>7. CASE Heartbeat \/ HbRaises
  BY <1>7, HeartbeatBeats
<1>8. CASE PushCancelled \/ PushClosed
  BY <1>8 DEF PushCancelled, PushClosed, PushOnly, TaskRuns, resources
<1>9. CASE ReloadEnds \/ FirstCheck \/ Reload \/ ReloadFails
  BY <1>9 DEF ReloadEnds, FirstCheck, Reload, ReloadFails, MayReload, ReloadOnly,
              TaskRuns, IsRunning, IsStopping
<1>10. CASE AccountsRead
  BY <1>10 DEF Launches
<1>11. QED
  BY <1>1, <1>2, <1>3, <1>4, <1>5, <1>6, <1>7, <1>8, <1>9, <1>10 DEF Next, Main

-----------------------------------------------------------------------------
(* RunInv is inductive: one step per kind *)

\* What a stop or the flag may do to the FSM of a daemon that has started.
LEMMA Asking ==
    ASSUME TypeOK, fsm # "IDLE",
           fsm' \in {fsm, StopRequested(fsm), Polled(fsm)}
    PROVE  /\ fsm' # "IDLE"
           /\ fsm' = "STOPPED" <=> fsm = "STOPPED"
           /\ fsm = "STOPPING" => fsm' = "STOPPING"
           /\ IsStopping => fsm' = fsm
BY DEF TypeOK, StopRequested, Polled, States, IsStopping

LEMMA RunStep == TypeOK /\ RunInv /\ [Next]_vars => RunInv'
<1> SUFFICES ASSUME TypeOK, RunInv, [Next]_vars PROVE RunInv'
  OBVIOUS
<1> USE DEF tasks, cancels, resources
<1>1. CASE Still
  <2>1. fsm' = fsm \/ (fsm # "IDLE" /\ fsm' = StopRequested(fsm))
    BY <1>1 DEF Still, RunInv
  <2>2. /\ fsm' = "IDLE" <=> fsm = "IDLE"
        /\ fsm' = "STOPPED" <=> fsm = "STOPPED"
        /\ fsm = "STOPPING" => fsm' = "STOPPING"
    BY <2>1, Asking
  <2>3. QED  BY <1>1, <2>2 DEF Still, RunInv, CleanupWaitsForCancelled, Over
<1>2. CASE Ends
  <2>1. CASE main' = "stopPush" /\ fsm' = "STOPPING" /\ pushCancel' = (push = "run")
    BY <1>2, <2>1 DEF Ends, RunInv, CleanupWaitsForCancelled, Over, TypeOK
  <2>2. CASE main' = "ended" /\ fsm' = "STOPPED"
    BY <1>2, <2>2 DEF Ends, RunInv, CleanupWaitsForCancelled, Over
  <2>3. QED  BY <1>2, <2>1, <2>2 DEF Ends
<1>3. CASE Beats
  <2>1. main \in {"loop", "stopPush", "stopHb"} /\ fsm # "IDLE"
    BY <1>3 DEF Beats, RunInv, TypeOK
  <2>2. fsm' # "IDLE" /\ (fsm' = "STOPPED" <=> fsm = "STOPPED")
        /\ (fsm = "STOPPING" => fsm' = "STOPPING")
    BY <1>3, <2>1, Asking DEF Beats
  <2>3. QED  BY <1>3, <2>1, <2>2 DEF Beats, RunInv, CleanupWaitsForCancelled, Over
<1>4. CASE TaskRuns
  <2>1. CASE push \in {"run", "closing"} /\ push' \in {"closing", "done"}
             /\ (push = "run" => pushCancel) /\ UNCHANGED <<reload, reader>>
    BY <1>4, <2>1 DEF TaskRuns, RunInv, CleanupWaitsForCancelled, Over
  <2>2. CASE reload = "run" /\ reload' \in {"run", "done"} /\ UNCHANGED push
    BY <1>4, <2>2 DEF TaskRuns, RunInv, CleanupWaitsForCancelled, Over
  <2>3. QED  BY <1>4, <2>1, <2>2 DEF TaskRuns
<1>5. CASE Start
  <2>1. fsm' = "CONNECTED"
    BY <1>5 DEF Start, RunInv, After, Allowed
  <2>2. QED  BY <1>5, <2>1 DEF Start, RunInv, CleanupWaitsForCancelled, Over
<1>6. CASE Launches
  BY <1>6 DEF Launches, AccountsRead, Connected, RunInv, CleanupWaitsForCancelled, Over
<1>7. CASE Refreshed
  <2>1. fsm # "IDLE" /\ fsm' = Polled(fsm)
    BY <1>7 DEF Refreshed, RunInv
  <2>2. fsm' # "IDLE" /\ (fsm' = "STOPPED" <=> fsm = "STOPPED")
    BY <2>1, Asking
  <2>3. QED  BY <1>7, <2>2 DEF Refreshed, RunInv, CleanupWaitsForCancelled
<1>8. CASE PushStopped
  BY <1>8 DEF PushStopped, RunInv, CleanupWaitsForCancelled, Over
<1>9. CASE HbStopped
  BY <1>9 DEF HbStopped, RunInv, CleanupWaitsForCancelled, Over
<1>10. CASE ReloadStopped
  <2>1. fsm' = "STOPPED"
    BY <1>10 DEF ReloadStopped, RunInv, After, Allowed
  <2>2. QED
    BY <1>10, <2>1 DEF ReloadStopped, RunInv, CleanupWaitsForCancelled, Over
<1>11. QED
  BY <1>1, <1>2, <1>3, <1>4, <1>5, <1>6, <1>7, <1>8, <1>9, <1>10, StepKinds

LEMMA RunCorrect == Spec => []RunInv
BY RunInit, RunStep, TypeCorrect, PTL DEF Spec

\* Nothing that the cleanup closes is used or opened again, and nothing is left.
THEOREM CleanupCorrect == Spec => []NothingOutlivesCleanup
<1>1. RunInv => NothingOutlivesCleanup
  BY DEF RunInv, NothingOutlivesCleanup
<1>2. QED  BY <1>1, RunCorrect, PTL

\* The cleanup never waits for a task that has not been told to end.
THEOREM WaitCorrect == Spec => []CleanupWaitsForCancelled
<1>1. RunInv => CleanupWaitsForCancelled  BY DEF RunInv
<1>2. QED  BY <1>1, RunCorrect, PTL

-----------------------------------------------------------------------------
(* A reload that fails half way *)

\* What the reload task has looked at exists, and it is there to look again as
\* long as the daemon runs; a reader it has left closed belongs to a file that
\* is newer than what counts as seen.
ReloadInv ==
    /\ file # None => loaded <= file
    /\ seen # None => file # None /\ main \notin Starting
    /\ seen # None /\ IsRunning => reload = "run"
    /\ reloadCancel => main \in {"stopReload", "ended"}
    /\ sink = "open" /\ reader = "closed" => seen # None /\ file > seen

LEMMA ReloadInit == Init => ReloadInv
BY BoundsAssumption DEF Init, ReloadInv

\* Only the reload task touches the config, and besides it only the last step of
\* the cleanup the reader.
LEMMA ConfigKinds ==
    ASSUME [Next]_vars
    PROVE  \/ FirstCheck \/ Reload \/ ReloadFails \/ ReloadEnds \/ Edit
           \/ PushCancelled \/ PushClosed \/ ReloadStopped
           \/ UNCHANGED <<config, resources>> /\ (UNCHANGED reload \/ Refreshed)
BY DEF Next, vars, Signal, LoseLeadership, CancelService, ProbeKills, Main, Start,
       Connected, Refreshed, LeaveLoop, CancelHandler, PushStopped, HbStopped,
       StartRaises, ConnectedRaises, RefreshedRaises, HandlerRaises, Heartbeat,
       AccountsRead, HbOnly, HbTop, HbTopRefreshed, HbSlice, HbSliceRefreshed, HbSyncs,
       HbHourlyDone, HbWorkDone, HbHedgeDone, HbCancelled, HbRaises, Send, Toggle, tasks

\* A step of the others neither starts the daemon again nor ends the reload task.
LEMMA OthersKeepReload ==
    ASSUME TypeOK, RunInv, Still \/ Ends \/ Beats \/ Start \/ Launches
                           \/ Refreshed \/ PushStopped \/ HbStopped,
           UNCHANGED <<config, resources>>, ReloadInv
    PROVE  ReloadInv'
<1> USE DEF tasks, cancels, resources, config
<1>1. ASSUME reload' = reload, IsRunning' => IsRunning,
             main' \in Starting
                => main \in Starting,
             reloadCancel' => main' \in {"stopReload", "ended"}
      PROVE  ReloadInv'
  BY <1>1 DEF ReloadInv
<1>2. CASE Still
  <2>1. IsRunning' => IsRunning
    BY <1>2 DEF Still, IsRunning, StopRequested, TypeOK, States
  <2>2. QED  BY <1>1, <1>2, <2>1 DEF Still, ReloadInv
<1>3. CASE Ends
  BY <1>1, <1>3 DEF Ends, IsRunning, ReloadInv
<1>4. CASE Beats
  <2>1. IsRunning' => IsRunning
    BY <1>4 DEF Beats, IsRunning, StopRequested, Polled, TypeOK, States
  <2>2. QED  BY <1>1, <1>4, <2>1 DEF Beats, ReloadInv
<1>5. CASE Start
  BY <1>5 DEF Start, ReloadInv
<1>6. CASE Launches
  BY <1>6 DEF Launches, AccountsRead, Connected, ReloadInv
<1>7. CASE Refreshed
  BY <1>7 DEF Refreshed, ReloadInv
<1>8. CASE PushStopped
  BY <1>1, <1>8 DEF PushStopped, IsRunning, ReloadInv
<1>9. CASE HbStopped
  BY <1>1, <1>9 DEF HbStopped, IsRunning, ReloadInv
<1>10. QED  BY <1>2, <1>3, <1>4, <1>5, <1>6, <1>7, <1>8, <1>9

LEMMA ReloadStep == TypeOK /\ RunInv /\ ReloadInv /\ [Next]_vars => ReloadInv'
<1> SUFFICES ASSUME TypeOK, RunInv, ReloadInv, [Next]_vars PROVE ReloadInv'
  OBVIOUS
<1> USE DEF tasks, cancels, resources, config
<1>1. CASE FirstCheck \/ Reload \/ ReloadFails
  <2>1. main \notin Starting
    BY <1>1 DEF FirstCheck, Reload, ReloadFails, MayReload, RunInv, Over
  <2>2. file \in Nat /\ loaded \in Nat /\ seen \in Nat \cup {None} /\ None \notin Nat
    BY <1>1, BoundsAssumption
       DEF FirstCheck, Reload, ReloadFails, MayReload, TypeOK
  <2>3. CASE FirstCheck
    BY <2>1, <2>2, <2>3 DEF FirstCheck, MayReload, ReloadOnly, ReloadInv, IsRunning
  <2>4. CASE Reload
    BY <2>1, <2>2, <2>4 DEF Reload, MayReload, ReloadOnly, ReloadInv, IsRunning
  <2>5. CASE ReloadFails
    BY <2>1, <2>2, <2>5 DEF ReloadFails, MayReload, ReloadOnly, ReloadInv, IsRunning
  <2>6. QED  BY <1>1, <2>3, <2>4, <2>5
<1>2. CASE Edit
  <2>1. file \in Nat /\ loaded \in Nat /\ seen \in Nat \cup {None} /\ file' = file + 1
    BY <1>2, BoundsAssumption DEF Edit, TypeOK
  <2>2. seen # None /\ file > seen => file' > seen
    BY <2>1
  <2>3. file' # None /\ loaded <= file'
    BY <1>2, <2>1, BoundsAssumption DEF Edit, ReloadInv
  <2>4. QED  BY <1>2, <2>2, <2>3 DEF Edit, ReloadInv, IsRunning
<1>3. CASE ReloadEnds
  BY <1>3 DEF ReloadEnds, ReloadOnly, ReloadInv, RunInv, IsRunning
<1>4. CASE PushCancelled \/ PushClosed
  BY <1>4 DEF PushCancelled, PushClosed, PushOnly, ReloadInv, IsRunning
<1>5. CASE ReloadStopped
  <2>1. ~IsRunning'
    BY <1>5 DEF ReloadStopped, RunInv, After, Allowed, IsRunning
  <2>2. QED  BY <1>5, <2>1 DEF ReloadStopped, ReloadInv
<1>6. CASE TaskRuns /\ UNCHANGED <<config, resources, reload>>
  BY <1>6 DEF TaskRuns, ReloadInv, IsRunning
<1>7. QED
  <2>1. CASE UNCHANGED <<config, resources>> /\ (UNCHANGED reload \/ Refreshed)
    <3>1. CASE Refreshed
      BY <2>1, <3>1, OthersKeepReload
    <3>2. CASE UNCHANGED reload
      BY <1>5, <1>6, <2>1, <3>2, StepKinds, OthersKeepReload
    <3>3. QED  BY <2>1, <3>1, <3>2
  <2>2. QED  BY <1>1, <1>2, <1>3, <1>4, <1>5, <2>1, ConfigKinds

\* What a reload has left half done is due, and there is a task to do it.
THEOREM ReloadCorrect == Spec => []FailedReloadIsDue
<1>1. TypeOK /\ ReloadInv => FailedReloadIsDue
  <2> SUFFICES ASSUME TypeOK, ReloadInv, HalfReloaded
               PROVE  seen # None /\ file > seen /\ (IsRunning => reload = "run")
    BY DEF FailedReloadIsDue
  <2>1. CASE reader = "closed"
    BY <2>1 DEF HalfReloaded, ReloadInv
  <2>2. CASE seen # None /\ loaded > seen
    <3>1. file \in Nat /\ loaded \in Nat /\ seen \in Nat /\ loaded <= file
      BY <2>2 DEF ReloadInv, TypeOK
    <3>2. QED  BY <2>2, <3>1 DEF ReloadInv
  <2>3. QED  BY <2>1, <2>2 DEF HalfReloaded
<1>2. QED
  BY <1>1, ReloadInit, ReloadStep, TypeCorrect, RunCorrect, PTL DEF Spec

-----------------------------------------------------------------------------
(* How long a stop may take *)

LEMMA LeftType ==
    ASSUME TypeOK
    PROVE  /\ MainLeft \in Nat /\ HbLeft \in 0 .. 8
           /\ PushLeft \in 0 .. 2 /\ ReloadLeft \in 0 .. 1
<1>1. HbLeft \in 0 .. 8
  BY SyncLeftType DEF TypeOK, HbLeft
<1>2. QED  BY <1>1 DEF TypeOK, MainLeft, PushLeft, ReloadLeft

LEMMA LeftTypeThen ==
    ASSUME TypeOK'
    PROVE  /\ MainLeft' \in Nat /\ HbLeft' \in 0 .. 8
           /\ PushLeft' \in 0 .. 2 /\ ReloadLeft' \in 0 .. 1
<1>1. SyncLeft' \in 1 .. 3
  BY DEF TypeOK, SyncLeft
<1>2. HbLeft' \in 0 .. 8
  BY <1>1 DEF TypeOK, HbLeft
<1>3. QED  BY <1>2 DEF TypeOK, MainLeft, PushLeft, ReloadLeft

\* Before the tasks exist run() has less before it than with all of them.
LEMMA RemainingBound ==
    ASSUME TypeOK, RunInv, IsStopping
    PROVE  Remaining <= 15
<1>1. CASE main \in Starting
  <2>1. HbLeft = 0 /\ PushLeft = 0 /\ ReloadLeft = 0
    BY <1>1, LeftType DEF RunInv, Over, HbLeft, PushLeft, ReloadLeft, TypeOK
  <2>2. MainLeft <= 9  BY <1>1 DEF MainLeft
  <2>3. QED  BY <2>1, <2>2, LeftType DEF Remaining
<1>2. CASE main \notin Starting
  <2>1. MainLeft <= 4  BY <1>2 DEF MainLeft, TypeOK
  <2>2. QED  BY <2>1, LeftType DEF Remaining
<1>3. QED  BY <1>1, <1>2

Nearer == UNCHANGED <<main, tasks>> \/ Remaining' < Remaining

LEMMA DrainStep ==
    ASSUME TypeOK, TypeOK', RunInv, [Next]_vars, IsStopping
    PROVE  Nearer
<1> USE DEF tasks
<1> DEFINE L == MainLeft + PushLeft + ReloadLeft
<1>1. L \in Nat /\ HbLeft \in Nat /\ Remaining = L + HbLeft
      /\ L' \in Nat /\ HbLeft' \in Nat /\ Remaining' = L' + HbLeft'
  BY LeftType, LeftTypeThen DEF Remaining
<1>2. ASSUME hb' = hb, sync' = sync, L' < L
      PROVE  Nearer
  <2>1. HbLeft' = HbLeft  BY <1>2 DEF HbLeft, SyncLeft
  <2>2. QED  BY <1>1, <1>2, <2>1 DEF Nearer
<1>3. CASE Still
  BY <1>3 DEF Still, Nearer
<1>4. CASE Ends
  <2>1. hb' = hb /\ sync' = sync /\ PushLeft' = PushLeft /\ ReloadLeft' = ReloadLeft
    BY <1>4 DEF Ends, PushLeft, ReloadLeft
  <2>2. MainLeft \in Nat /\ MainLeft' \in Nat /\ MainLeft' < MainLeft
    BY <1>4 DEF Ends, MainLeft, RunInv, IsStopping
  <2>3. QED  BY <1>2, <2>1, <2>2, LeftType
<1>5. CASE Beats
  <2>1. L' = L  BY <1>5 DEF Beats, MainLeft, PushLeft, ReloadLeft
  <2>2. QED  BY <1>1, <1>5, <2>1 DEF Beats, Nearer
<1>6. CASE TaskRuns
  <2>1. hb' = hb /\ sync' = sync /\ MainLeft' = MainLeft
    BY <1>6 DEF TaskRuns, MainLeft
  <2>2. \/ PushLeft' < PushLeft /\ ReloadLeft' = ReloadLeft
        \/ PushLeft' = PushLeft /\ ReloadLeft' < ReloadLeft
    <3>1. CASE reload' = reload
      BY <1>6, <3>1 DEF TaskRuns, PushLeft, ReloadLeft
    <3>2. CASE push' = push
      BY <1>6, <3>2 DEF TaskRuns, PushLeft, ReloadLeft
    <3>3. QED  BY <1>6, <3>1, <3>2 DEF TaskRuns
  <2>3. QED  BY <1>2, <2>1, <2>2, LeftType, LeftTypeThen
<1>7. CASE Start
  BY <1>7 DEF Start, RunInv, IsStopping
<1>8. CASE Launches
  <2>1. AccountsRead
    BY <1>8 DEF Launches, IsStopping
  <2>2. hb' = hb /\ sync' = sync /\ PushLeft' = PushLeft /\ ReloadLeft' = ReloadLeft
        /\ MainLeft = 5 /\ MainLeft' = 4
    BY <2>1 DEF AccountsRead, PushLeft, ReloadLeft, MainLeft
  <2>3. QED  BY <1>2, <2>2, LeftType
<1>9. CASE Refreshed
  <2>1. MainLeft = 9 /\ MainLeft' = 4 /\ HbLeft' = 1
        /\ PushLeft' = 2 /\ ReloadLeft' = 1
    BY <1>9 DEF Refreshed, MainLeft, HbLeft, PushLeft, ReloadLeft
  <2>2. QED  BY <2>1, LeftType DEF Nearer, Remaining
<1>10. CASE PushStopped \/ HbStopped \/ ReloadStopped
  <2>1. hb' = hb /\ sync' = sync /\ PushLeft' = PushLeft /\ ReloadLeft' = ReloadLeft
    BY <1>10 DEF PushStopped, HbStopped, ReloadStopped, PushLeft, ReloadLeft
  <2>2. MainLeft \in Nat /\ MainLeft' \in Nat /\ MainLeft' < MainLeft
    BY <1>10 DEF PushStopped, HbStopped, ReloadStopped, MainLeft
  <2>3. QED  BY <1>2, <2>1, <2>2, LeftType
<1>11. QED
  BY <1>3, <1>4, <1>5, <1>6, <1>7, <1>8, <1>9, <1>10, StepKinds

\* A stop is at most fifteen awaits of the daemon's code away from its end, and
\* everything run() and its tasks still do brings it nearer.
THEOREM DrainCorrect == Spec => DrainIsBounded
<1>1. TypeOK /\ RunInv => (IsStopping => Remaining <= 15)
  BY RemainingBound
<1>2. TypeOK /\ TypeOK' /\ RunInv /\ [Next]_vars
        => [IsStopping => UNCHANGED <<main, tasks>> \/ Remaining' < Remaining]_vars
  BY DrainStep DEF Nearer
<1>3. QED  BY <1>1, <1>2, TypeCorrect, RunCorrect, PTL DEF Spec, DrainIsBounded

-----------------------------------------------------------------------------
(* The daemon implements the service the election starts *)

Held == leadership = "held"
Working == {worker \in Workers : Alive(worker)}

ServiceVars == <<Held, IsStopping, Stage, Working>>

\* A step of the daemon as the election sees it.
ServiceStep == Service!Next \/ UNCHANGED ServiceVars

\* The workers that are alive, task by task.
LEMMA WorkingIs ==
    /\ "heartbeat" \in Working <=> ~Over(hb)
    /\ "push" \in Working <=> ~Over(push)
    /\ "reload" \in Working <=> ~Over(reload)
    /\ Working \subseteq Workers
BY DEF Working, Workers, Alive

LEMMA WorkingIsThen ==
    /\ "heartbeat" \in Working' <=> ~Over(hb)'
    /\ "push" \in Working' <=> ~Over(push)'
    /\ "reload" \in Working' <=> ~Over(reload)'
    /\ Working' \subseteq Workers
BY DEF Working, Workers, Alive

LEMMA SameWorkers == UNCHANGED tasks => Working' = Working
BY DEF tasks, Working, Alive, Over

LEMMA NoWorkers ==
    ASSUME Over(hb), Over(push), Over(reload)
    PROVE  Working = {}
BY DEF Working, Workers, Alive

\* Workers end while somebody may ask for a stop.
LEMMA Retiring ==
    ASSUME TypeOK, RunInv, main # "ended", UNCHANGED <<main, leadership>>,
           IsStopping => IsStopping',
           Over(hb) => Over(hb)', Over(push) => Over(push)',
           Over(reload) => Over(reload)'
    PROVE  ServiceStep
<1>1. Working' \subseteq Working
  BY WorkingIs, WorkingIsThen DEF Workers
<1>2. PICK S : S = Working \ Working'  OBVIOUS
<1>3. S \in SUBSET Workers /\ Working' = Working \ S
  BY <1>1, <1>2, WorkingIs
<1>4. Stage' = Stage /\ Held' = Held /\ Stage # "over"
  BY DEF Stage, Held, TypeOK
<1>5. IsStopping' \in {IsStopping, TRUE}
  <2>1. CASE IsStopping'
    <3>1. IsStopping' = TRUE  BY <2>1 DEF IsStopping
    <3>2. QED  BY <3>1
  <2>2. CASE ~IsStopping'
    <3>1. IsStopping' = IsStopping  BY <2>2 DEF IsStopping
    <3>2. QED  BY <3>1
  <2>3. QED  BY <2>1, <2>2
<1>6. Service!Retire(S)
  BY <1>3, <1>4, <1>5 DEF Service!Retire, Working, Held
<1>7. QED  BY <1>3, <1>6 DEF ServiceStep, Service!Next

LEMMA ServiceStarts == Init => Service!Init
<1> SUFFICES ASSUME Init PROVE Service!Init
  OBVIOUS
<1>1. Working = {}
  BY NoWorkers DEF Init, Over
<1>2. (leadership = "held") = TRUE  BY DEF Init
<1>3. IsStopping = FALSE  BY DEF Init, IsStopping
<1>4. Stage = "starting"  BY DEF Init, Stage
<1>5. QED  BY <1>1, <1>2, <1>3, <1>4 DEF Service!Init, Working

LEMMA ServiceGoesOn == TypeOK /\ RunInv /\ RunInv' /\ [Next]_vars => ServiceStep
<1> SUFFICES ASSUME TypeOK, RunInv, RunInv', [Next]_vars PROVE ServiceStep
  OBVIOUS
<1>1. IsStopping => IsStopping'
  BY EveryStep DEF GoodStep
<1>2. CASE Still
  <2>1. CASE leadership = "held" /\ leadership' = "lost"
             /\ fsm' = StopRequested(fsm)
    <3>1. IsStopping' = TRUE
      BY <2>1 DEF IsStopping, StopRequested, TypeOK, States
    <3>2. Stage' = Stage /\ Working' = Working
      BY <1>2, SameWorkers DEF Still, Stage
    <3>3. Held = TRUE /\ Held' = FALSE
      BY <2>1 DEF Held
    <3>4. Service!Lose
      BY <3>1, <3>2, <3>3 DEF Service!Lose, Held, Working
    <3>5. QED  BY <3>4 DEF ServiceStep, Service!Next
  <2>2. CASE UNCHANGED leadership /\ main # "ended"
    BY <1>1, <1>2, <2>2, Retiring DEF Still, tasks, Over
  <2>3. CASE UNCHANGED fsm /\ Held' = Held
    <3>1. Stage' = Stage /\ Working' = Working /\ IsStopping' = IsStopping
      BY <1>2, <2>3, SameWorkers DEF Still, Stage, IsStopping
    <3>2. QED  BY <2>3, <3>1 DEF ServiceStep, ServiceVars
  <2>4. QED  BY <1>2, <2>1, <2>2, <2>3 DEF Still, Held
<1>3. CASE Ends
  <2>1. Working' = Working /\ Held' = Held
    BY <1>3, SameWorkers DEF Ends, Held
  <2>2. IsStopping' = TRUE
    BY <1>3 DEF Ends, IsStopping
  <2>3. CASE main \in Starting \cup {"loop"} /\ main' = "stopPush"
    <3>1. Stage \in {"starting", "working"} /\ Stage' = "ending"
      BY <2>3 DEF Stage
    <3>2. Service!WindDown
      BY <2>1, <2>2, <3>1 DEF Service!WindDown, Held, Working
    <3>3. QED  BY <3>2 DEF ServiceStep, Service!Next
  <2>4. CASE main \in Starting /\ main' = "ended"
    <3>1. Stage = "starting" /\ Stage' = "over"
      BY <2>4 DEF Stage
    <3>2. Working = {}
      BY <2>4, NoWorkers DEF RunInv
    <3>3. Service!End
      BY <2>1, <2>2, <3>1, <3>2 DEF Service!End, Held, Working
    <3>4. QED  BY <3>3 DEF ServiceStep, Service!Next
  <2>5. QED  BY <1>3, <2>3, <2>4 DEF Ends
<1>4. CASE Beats
  <2>1. main # "ended"  BY <1>4 DEF Beats, RunInv
  <2>2. ~Over(hb)  BY <1>4 DEF Beats
  <2>3. QED  BY <1>1, <1>4, <2>1, <2>2, Retiring DEF Beats, Over
<1>5. CASE TaskRuns
  <2>1. main # "ended"  BY <1>5 DEF TaskRuns, RunInv, Over
  <2>2. QED  BY <1>1, <1>5, <2>1, Retiring DEF TaskRuns, Over
<1>6. CASE Start
  <2>1. IsStopping' = IsStopping
    BY <1>6 DEF Start, RunInv, IsStopping, After, Allowed
  <2>2. Working' = Working /\ Held' = Held /\ Stage' = Stage
    BY <1>6, SameWorkers DEF Start, Held, Stage
  <2>3. QED  BY <2>1, <2>2 DEF ServiceStep, ServiceVars
<1>7. CASE Launches
  <2>1. IsStopping' = IsStopping
    BY <1>7 DEF Launches, AccountsRead, Connected, IsStopping
  <2>2. Working' = Working /\ Held' = Held /\ Stage' = Stage
    BY <1>7, SameWorkers DEF Launches, AccountsRead, Connected, Held, Stage
  <2>3. QED  BY <2>1, <2>2 DEF ServiceStep, ServiceVars
<1>8. CASE Refreshed
  <2>1. Stage = "starting" /\ Stage' = "working" /\ Held' = Held
    BY <1>8 DEF Refreshed, Stage, Held
  <2>2. Working' = Workers
    BY <1>8, WorkingIsThen DEF Refreshed, Over, Workers
  <2>3. IsStopping' = IsStopping
    BY <1>8 DEF Refreshed, Polled, TypeOK, States, IsStopping
  <2>4. Service!Launch
    BY <2>1, <2>2, <2>3 DEF Service!Launch, Held, Working
  <2>5. QED  BY <2>4 DEF ServiceStep, Service!Next
<1>9. CASE PushStopped \/ HbStopped
  <2>1. main # "ended"  BY <1>9 DEF PushStopped, HbStopped
  <2>2. Stage' = Stage /\ Held' = Held /\ Working' = Working
    BY <1>9, SameWorkers DEF PushStopped, HbStopped, Stage, Held
  <2>3. IsStopping' = IsStopping
    BY <1>9 DEF PushStopped, HbStopped, IsStopping
  <2>4. QED  BY <2>2, <2>3 DEF ServiceStep, ServiceVars
<1>10. CASE ReloadStopped
  <2>1. Stage = "ending" /\ Stage' = "over" /\ Held' = Held /\ Working' = Working
    BY <1>10, SameWorkers DEF ReloadStopped, Stage, Held
  <2>2. Working = {}
    BY <1>10, NoWorkers DEF ReloadStopped, RunInv
  <2>3. IsStopping' = TRUE
    BY <1>10 DEF ReloadStopped, RunInv, After, Allowed, IsStopping
  <2>4. Service!End
    BY <2>1, <2>2, <2>3 DEF Service!End, Held, Working
  <2>5. QED  BY <2>4 DEF ServiceStep, Service!Next
<1>11. QED
  BY <1>2, <1>3, <1>4, <1>5, <1>6, <1>7, <1>8, <1>9, <1>10, StepKinds

\* To run_with_leadership the daemon is a service: whoever stops it and whatever
\* fails in it, its tasks start once, it stops when the Lease is lost, and once
\* it is over nothing of it is left to act beside the next leader.
THEOREM ImplementsService == Spec => ServiceSpec
<1>1. Init => Service!Init  BY ServiceStarts
<1>2. TypeOK /\ RunInv /\ RunInv' /\ [Next]_vars
        => [Service!Next]_<<Held, IsStopping, Stage, Working>>
  BY ServiceGoesOn DEF ServiceStep, ServiceVars
<1>3. QED
  BY <1>1, <1>2, TypeCorrect, RunCorrect, PTL
     DEF Spec, ServiceSpec, Service!Spec, Held, Working
=============================================================================
