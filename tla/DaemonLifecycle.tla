--------------------------- MODULE DaemonLifecycle ---------------------------
(***************************************************************************)
(* The life of one daemon process that leads: the state loop run() and its *)
(* handlers (daemon/app/daemon_handlers.py), the DaemonFSM                 *)
(* (daemon/fsm/daemon_fsm.py), the heartbeat task with its control         *)
(* commands (daemon/app/control_heartbeat.py), the push and config-reload  *)
(* tasks, and what stops it: a signal, a stop command in Redis, or the     *)
(* loss of the Lease (daemon/app/entry.py, daemon/lease.py).               *)
(*                                                                         *)
(* Everything runs on one event loop, so an action is the code between two *)
(* awaits.  main, hb with sync, push and reload say at which await of its  *)
(* code each coroutine is.  Whether a refresh is due, and whether an await *)
(* that may return at once does, is a choice: there is no clock.  What the *)
(* push listener awaits until it is cancelled is in AccountPush.           *)
(***************************************************************************)
EXTENDS Naturals, Sequences

CONSTANTS
    MaxCommands,     \* bound of the control commands sent
    MaxToggles,      \* bound of the changes of the Redis suspended flag
    MaxFaults,       \* bound of the exceptions
    MaxEdits,        \* bound of the changes of the config file
    None             \* no file, no check of it yet

ASSUME BoundsAssumption ==
    /\ MaxCommands \in Nat /\ MaxToggles \in Nat
    /\ MaxFaults \in Nat /\ MaxEdits \in Nat
    /\ None \notin Nat

VARIABLES
    fsm,         \* DaemonFSM.current
    main,        \* run() and the handler in it
    cancelled,   \* service_task.cancel() was called
    leadership,  \* run_with_leadership: "held", "lost", or "released"
    hb,          \* the heartbeat task
    sync,        \* in a refresh of the accounts: which await of it
    push,        \* the push listener task
    reload,      \* the config reload task
    hbCancel, pushCancel, reloadCancel,  \* cancel() was called on the task
    sink,        \* the status sink: "open" or "closed"
    reader,      \* the Redis quotes reader: "open" or "closed"
    suspended,   \* the suspended flag in the Redis trading state
    status,      \* the daemon_state last written to Redis, for Monitoring
    commands,    \* the Redis stream of control commands
    file,        \* the version of the config file, in the order of its mtime
    seen,        \* _last_config_mtime
    loaded,      \* the version of the config the daemon runs with
    sent, toggles, faults   \* counters of what the bounds bound

tasks == <<hb, sync, push, reload>>
cancels == <<hbCancel, pushCancel, reloadCancel>>
resources == <<sink, reader>>
redis == <<suspended, status>>
config == <<file, seen, loaded>>
counters == <<sent, toggles, faults>>
vars == <<fsm, main, cancelled, leadership, tasks, cancels, resources,
          redis, commands, config, counters>>

States == {"IDLE", "CONNECTING", "CONNECTED", "RUNNING", "RUNNING_SUSPENDED",
           "STOPPING", "STOPPED"}

\* The control commands that do something to the daemon; refresh_replay, which
\* awaits one coroutine and changes nothing here, is a refresh_accounts, and the
\* others do not suspend the task.
Commands == {"stop", "refresh"}

TypeOK ==
    /\ fsm \in States
    /\ main \in {"start", "connected", "positions", "refresh", "loop",
                 "stopPush", "stopHb", "stopReload", "ended"}
    /\ cancelled \in BOOLEAN
    /\ leadership \in {"held", "lost", "released"}
    /\ hb \in {"none", "top", "topRefresh", "sleep", "sleepRefresh", "hourly",
               "work", "hedge", "done", "dead"}
    /\ sync \in {"accounts", "read", "write"}
    /\ push \in {"none", "run", "closing", "done"}
    /\ reload \in {"none", "run", "done"}
    /\ hbCancel \in BOOLEAN /\ pushCancel \in BOOLEAN /\ reloadCancel \in BOOLEAN
    /\ sink \in {"open", "closed"}
    /\ reader \in {"open", "closed"}
    /\ suspended \in BOOLEAN
    /\ status \in States \cup {None}
    /\ commands \in Seq(Commands)
    /\ file \in 0 .. MaxEdits \cup {None}
    /\ seen \in 0 .. MaxEdits \cup {None}
    /\ loaded \in 0 .. MaxEdits
    /\ sent \in 0 .. MaxCommands
    /\ toggles \in 0 .. MaxToggles
    /\ faults \in 0 .. MaxFaults

Init ==
    /\ fsm = "IDLE"
    /\ main = "start"
    /\ cancelled = FALSE
    /\ leadership = "held"
    /\ hb = "none" /\ sync = "accounts" /\ push = "none" /\ reload = "none"
    /\ hbCancel = FALSE /\ pushCancel = FALSE /\ reloadCancel = FALSE
    /\ sink = "open" /\ reader = "open"
    /\ suspended \in BOOLEAN
    /\ status = None
    /\ commands = <<>>
    /\ file \in {0, None} /\ seen = None /\ loaded = 0
    /\ sent = 0 /\ toggles = 0 /\ faults = 0

Fault == faults < MaxFaults /\ faults' = faults + 1

-----------------------------------------------------------------------------
(* DaemonFSM *)

\* _TRANSITIONS
Allowed(from) ==
    CASE from = "IDLE"              -> {"CONNECTING", "STOPPED"}
      [] from = "CONNECTING"        -> {"CONNECTED", "STOPPING"}
      [] from = "CONNECTED"         -> {"RUNNING", "STOPPING"}
      [] from = "RUNNING"           -> {"STOPPING", "RUNNING_SUSPENDED"}
      [] from = "RUNNING_SUSPENDED" -> {"RUNNING", "STOPPING"}
      [] from = "STOPPING"          -> {"STOPPED"}
      [] from = "STOPPED"           -> {}

\* transition(to): the state after it, whether it was valid or not.
After(from, to) == IF to \in Allowed(from) THEN to ELSE from

IsRunning == fsm \in {"RUNNING", "RUNNING_SUSPENDED"}

\* request_stop
StopRequested(from) ==
    CASE from = "IDLE" -> "STOPPED"
      [] from \in {"CONNECTING", "CONNECTED", "RUNNING", "RUNNING_SUSPENDED"}
           -> "STOPPING"
      [] OTHER -> from

\* apply_run_status_transition: only between RUNNING and RUNNING_SUSPENDED.
Mut_PolledName(from) == IF suspended THEN "SUSPENDED" ELSE from
Mut_PolledBlindly(from) == IF suspended THEN "RUNNING_SUSPENDED" ELSE "RUNNING"
Mut_PolledOneWay(from) ==
    IF suspended /\ from = "RUNNING" THEN "RUNNING_SUSPENDED" ELSE from
Polled(from) ==
    CASE suspended /\ from = "RUNNING" -> "RUNNING_SUSPENDED"
      [] ~suspended /\ from = "RUNNING_SUSPENDED" -> "RUNNING"
      [] OTHER -> from

\* run(): the state after a handler has raised.
Raised(from) ==
    IF "STOPPING" \in Allowed(from) THEN "STOPPING" ELSE After(from, "STOPPED")

-----------------------------------------------------------------------------
(* What stops the daemon *)

\* SIGTERM or SIGINT: app.stop() in the event loop.
Signal ==
    /\ main # "ended"
    /\ main # "start"
    /\ fsm' = StopRequested(fsm)
    /\ UNCHANGED <<main, cancelled, leadership, tasks, cancels, resources,
                   redis, commands, config, counters>>

\* renew_until_lost returns: _on_leadership_lost has called app.stop().
Mut_LoseLeadershipUnnoticed ==    \* the callback is not wired
    /\ leadership = "held"
    /\ main \notin {"start", "ended"}
    /\ leadership' = "lost"
    /\ UNCHANGED <<fsm, main, cancelled, tasks, cancels, resources, redis,
                   commands, config, counters>>
LoseLeadership ==
    /\ leadership = "held"
    /\ main \notin {"start", "ended"}
    /\ leadership' = "lost"
    /\ fsm' = StopRequested(fsm)
    /\ UNCHANGED <<main, cancelled, tasks, cancels, resources, redis,
                   commands, config, counters>>

\* run_with_leadership wakes up and cancels the service if it still runs.
CancelService ==
    /\ leadership = "lost"
    /\ leadership' = "released"
    /\ cancelled' = (main # "ended")
    /\ UNCHANGED <<fsm, main, tasks, cancels, resources, redis, commands,
                   config, counters>>

\* /health answers 503 once no heartbeat pass has started for 600 s; the
\* livenessProbe then has the container stopped with SIGTERM.
Mut_ProbeOfFirstBeat == hb = "none" /\ IsRunning /\ Signal
ProbeKills ==
    /\ hb = "dead"
    /\ IsRunning
    /\ Signal

-----------------------------------------------------------------------------
(* run() and the handlers *)

\* IDLE and CONNECTING have no await: run() gets to the first
\* await of handle_connected in one go.
Start ==
    /\ main = "start"
    /\ fsm' = After(After(fsm, "CONNECTING"), "CONNECTED")
    /\ main' = "connected"
    /\ UNCHANGED <<cancelled, leadership, tasks, cancels, resources, redis,
                   commands, config, counters>>

\* handle_stopping begins: cancel the push task and wait for it.
BeginStopping ==
    /\ main' = "stopPush"
    /\ pushCancel' = (push = "run")

\* The finally of run(): cleanup, unless the FSM is STOPPED already.
Finally(state) ==
    IF state = "STOPPED"
      THEN /\ fsm' = "STOPPED"
           /\ main' = "ended"
           /\ UNCHANGED pushCancel
      ELSE /\ fsm' = After(state, "STOPPING")
           /\ BeginStopping

\* A handler raised, having written the status or not: the loop goes on with the
\* state that leaves, which is STOPPING (its handler is next) or STOPPED.
HandlerRaises(written) ==
    /\ Fault
    /\ status' \in {status, written}
    /\ Finally(Raised(fsm))
    /\ UNCHANGED <<cancelled, leadership, tasks, hbCancel, reloadCancel,
                   resources, suspended, commands, config, sent, toggles>>

\* Polling the flag in handle_idle raises: IDLE has no way to STOPPING.
StartRaises == main = "start" /\ HandlerRaises(status)

\* handle_connected has the accounts and goes on to the positions, stop or not.
AccountsRead ==
    /\ main = "connected"
    /\ ~cancelled
    /\ main' = "positions"
    /\ UNCHANGED <<fsm, cancelled, leadership, tasks, cancels, resources, redis,
                   commands, config, counters>>

\* handle_connected writes its status and returns RUNNING, and run() enters
\* handle_running up to its first await; if a stop came in between, RUNNING is
\* invalid and run() breaks.
Connected ==
    /\ main = "positions"
    /\ ~cancelled
    /\ status' = fsm
    /\ \/ /\ fsm = "CONNECTED"
          /\ fsm' = "RUNNING"
          /\ main' = "refresh"
          /\ UNCHANGED pushCancel
       \/ /\ fsm # "CONNECTED"
          /\ Finally(fsm)
    /\ UNCHANGED <<cancelled, leadership, tasks, hbCancel, reloadCancel,
                   resources, suspended, commands, config, counters>>

\* A read of handle_connected raises, or its status write.
ConnectedRaises ==
    /\ main \in {"connected", "positions"}
    /\ ~cancelled
    /\ HandlerRaises(IF main = "positions" THEN fsm ELSE status)

\* handle_running after its initial refresh: poll the suspended flag, write
\* the status, create the three tasks, whether or not a stop has come.
Refreshed ==
    /\ main = "refresh"
    /\ ~cancelled
    /\ fsm' = Polled(fsm)
    /\ status' = fsm'
    /\ main' = "loop"
    /\ hb' = "top" /\ push' = "run" /\ reload' = "run"
    /\ UNCHANGED sync
    /\ UNCHANGED <<cancelled, leadership, cancels, resources, suspended,
                   commands, config, counters>>

\* Polling the flag or writing the status raises, before any task exists.
RefreshedRaises ==
    main = "refresh" /\ ~cancelled /\ HandlerRaises(Polled(fsm))

\* The loop of handle_running wakes up and finds the FSM not running, or
\* swallows the cancellation; STOPPING then follows either way.
Mut_LeaveLoopCancelled ==
    /\ main = "loop"
    /\ cancelled
    /\ Finally(After(fsm, "STOPPING"))
    /\ cancelled' = FALSE
    /\ UNCHANGED <<leadership, tasks, hbCancel, reloadCancel, resources,
                   redis, commands, config, counters>>
LeaveLoop ==
    /\ main = "loop"
    /\ cancelled \/ ~IsRunning
    /\ Finally(After(fsm, "STOPPING"))
    /\ cancelled' = FALSE
    /\ UNCHANGED <<leadership, tasks, hbCancel, reloadCancel, resources,
                   redis, commands, config, counters>>

\* CancelledError is no Exception: it leaves run() through the finally.
CancelHandler ==
    /\ main \in {"connected", "positions", "refresh"}
    /\ cancelled
    /\ Finally(fsm)
    /\ cancelled' = FALSE
    /\ UNCHANGED <<leadership, tasks, hbCancel, reloadCancel, resources,
                   redis, commands, config, counters>>

Over(task) == task \in {"none", "done", "dead"}

\* handle_stopping, one await after the other (what closing the account tables
\* writer does is in AccountPush).  A cancellation that arrives in the middle
\* goes to the task awaited and is swallowed with its CancelledError.
PushStopped ==
    /\ main = "stopPush"
    /\ Over(push)
    /\ hbCancel' = ~Over(hb)
    /\ main' = "stopHb"
    /\ cancelled' = FALSE
    /\ UNCHANGED <<fsm, leadership, tasks, pushCancel, reloadCancel, resources,
                   redis, commands, config, counters>>

Mut_HbStoppedReloadRuns ==        \* the reload loop is trusted to end itself
    /\ main = "stopHb"
    /\ Over(hb)
    /\ main' = "stopReload"
    /\ cancelled' = FALSE
    /\ UNCHANGED <<fsm, leadership, tasks, cancels, resources, redis, commands,
                   config, counters>>
HbStopped ==
    /\ main = "stopHb"
    /\ Over(hb)
    /\ reloadCancel' = ~Over(reload)
    /\ main' = "stopReload"
    /\ cancelled' = FALSE
    /\ UNCHANGED <<fsm, leadership, tasks, hbCancel, pushCancel, resources,
                   redis, commands, config, counters>>

Mut_ReloadNotAwaited ==
    /\ main = "stopReload"
    /\ sink' = "closed"
    /\ reader' = "closed"
    /\ fsm' = After(fsm, "STOPPED")
    /\ main' = "ended"
    /\ cancelled' = FALSE
    /\ UNCHANGED <<leadership, tasks, cancels, redis, commands, config,
                   counters>>
ReloadStopped ==
    /\ main = "stopReload"
    /\ Over(reload)
    /\ sink' = "closed"
    /\ reader' = "closed"
    /\ fsm' = After(fsm, "STOPPED")
    /\ main' = "ended"
    /\ cancelled' = FALSE
    /\ UNCHANGED <<leadership, tasks, cancels, redis, commands, config,
                   counters>>

-----------------------------------------------------------------------------
(* The heartbeat task *)

HbOnly == UNCHANGED <<main, cancelled, leadership, push, reload, cancels,
                      resources, suspended, config, sent, toggles>>

\* The next command is taken off the stream and applied: stop ends the task,
\* refresh_accounts suspends it at `refresh`, and without one the pass goes
\* on: the FSM is in `state` and the task at `next`.
Consume(refresh, state, next) ==
    LET cmd == IF commands = <<>> THEN "none" ELSE Head(commands) IN
    /\ commands' = IF commands = <<>> THEN <<>> ELSE Tail(commands)
    /\ fsm' = CASE cmd = "stop"    -> StopRequested(fsm)
                [] cmd = "refresh" -> fsm
                [] OTHER           -> state
    /\ hb' = CASE cmd = "stop"    -> "done"
               [] cmd = "refresh" -> refresh
               [] OTHER           -> next

\* A pass starts: the loop ends unless the FSM runs; then a command, the
\* suspended flag, and the sleep.
BeginPass ==
    IF IsRunning
      THEN Consume("topRefresh", Polled(fsm), "sleep")
      ELSE hb' = "done" /\ UNCHANGED <<fsm, commands>>

\* The task has been created and starts.
HbTop ==
    /\ hb = "top" /\ ~hbCancel
    /\ BeginPass
    /\ UNCHANGED <<sync, status, faults>>
    /\ HbOnly

\* A refresh awaits the accounts and then sync_once, in which two threads read
\* the snapshot and write it; with nothing read, or nothing to write, there is
\* no second one.
Refreshing == {"topRefresh", "sleepRefresh", "hourly"}
HbSyncs ==
    /\ hb \in Refreshing /\ ~hbCancel
    /\ \/ sync = "accounts" /\ sync' = "read"
       \/ sync = "read" /\ sync' = "write"
    /\ UNCHANGED <<fsm, hb, status, commands, faults>>
    /\ HbOnly
Synced == sync # "accounts" /\ sync' = "accounts"

\* The command's refresh is over: its status, the flag and the sleep.
HbTopRefreshed ==
    /\ hb = "topRefresh" /\ ~hbCancel
    /\ Synced
    /\ status' = fsm
    /\ fsm' = Polled(fsm)
    /\ hb' = "sleep"
    /\ UNCHANGED <<commands, faults>>
    /\ HbOnly

\* Where the task waits after a slice of the sleep, and the FSM then: asleep
\* again, or, after the last slice, past the second poll of the flag, at the
\* hourly account refresh if it is due or else at the positions of the snapshot.
AfterSlice == {"sleep", "hourly", "work"}
Slept(next) == IF next = "sleep" THEN fsm ELSE Polled(fsm)

\* A slice of the sleep ends: the task ends unless the FSM runs; then a command.
Mut_HbSliceUnwatched ==           \* the sleep does not watch the FSM
    /\ hb = "sleep" /\ ~hbCancel
    /\ \E next \in AfterSlice : Consume("sleepRefresh", Slept(next), next)
    /\ UNCHANGED <<sync, status, faults>>
    /\ HbOnly
HbSlice ==
    /\ hb = "sleep" /\ ~hbCancel
    /\ IF IsRunning
         THEN \E next \in AfterSlice : Consume("sleepRefresh", Slept(next), next)
         ELSE hb' = "done" /\ UNCHANGED <<fsm, commands>>
    /\ UNCHANGED <<sync, status, faults>>
    /\ HbOnly

HbSliceRefreshed ==
    /\ hb = "sleepRefresh" /\ ~hbCancel
    /\ Synced
    /\ status' = fsm
    /\ \E next \in AfterSlice : hb' = next /\ fsm' = Slept(next)
    /\ UNCHANGED <<commands, faults>>
    /\ HbOnly

\* The hourly refresh and its forced account sync are over.
HbHourlyDone ==
    /\ hb = "hourly" /\ ~hbCancel
    /\ Synced
    /\ hb' = "work"
    /\ UNCHANGED <<fsm, status, commands, faults>>
    /\ HbOnly

\* The snapshot is read and the status written.  Unless the pass has found the
\* daemon suspended or hedging mocked it evaluates a hedge (HedgeFlow), which
\* may await the positions once more; then the next pass starts.
Mut_WorkDoneUnlessSuspended ==     \* no pass, no status
    /\ hb = "work" /\ ~hbCancel
    /\ status' = IF suspended THEN status ELSE fsm
    /\ \/ fsm # "RUNNING_SUSPENDED" /\ hb' = "hedge" /\ UNCHANGED <<fsm, commands>>
       \/ BeginPass
    /\ UNCHANGED <<sync, faults>>
    /\ HbOnly
HbWorkDone ==
    /\ hb = "work" /\ ~hbCancel
    /\ status' = fsm
    /\ \/ fsm # "RUNNING_SUSPENDED" /\ hb' = "hedge" /\ UNCHANGED <<fsm, commands>>
       \/ BeginPass
    /\ UNCHANGED <<sync, faults>>
    /\ HbOnly

HbHedgeDone ==
    /\ hb = "hedge" /\ ~hbCancel
    /\ BeginPass
    /\ UNCHANGED <<sync, status, faults>>
    /\ HbOnly

\* A Redis call or a status write of the pass raises: nobody awaits the task,
\* and nothing starts another one.
HbRaises ==
    /\ ~Over(hb)
    /\ ~hbCancel
    /\ Fault
    /\ hb' = "dead" /\ sync' = "accounts"
    /\ status' \in IF hb = "work" THEN {status, fsm} ELSE {status}
    /\ UNCHANGED <<fsm, commands>>
    /\ HbOnly

HbCancelled ==
    /\ hbCancel
    /\ ~Over(hb)
    /\ hb' = "done" /\ sync' = "accounts"
    /\ UNCHANGED <<fsm, status, commands, faults>>
    /\ HbOnly

-----------------------------------------------------------------------------
(* The push and the reload task *)

\* run_push_listener ends only by cancellation, and on the way out it closes
\* its Redis client, if it has one.
PushOnly == UNCHANGED <<fsm, main, cancelled, leadership, hb, sync, reload, cancels,
                        resources, redis, commands, config, counters>>

PushCancelled ==
    /\ push = "run"
    /\ pushCancel
    /\ push' \in {"closing", "done"}
    /\ PushOnly

PushClosed ==
    /\ push = "closing"
    /\ push' = "done"
    /\ PushOnly

\* What the config reload task leaves alone.
ReloadOnly == UNCHANGED <<fsm, main, cancelled, leadership, hb, sync, push,
                          cancels, sink, redis, commands, file, sent, toggles>>

\* _reload_config_loop: no config file, the FSM not running, or cancellation.
ReloadEnds ==
    /\ reload = "run"
    /\ file = None \/ ~IsRunning \/ reloadCancel
    /\ reload' = "done"
    /\ UNCHANGED <<reader, seen, loaded, faults>>
    /\ ReloadOnly

MayReload ==
    /\ reload = "run"
    /\ ~reloadCancel
    /\ IsRunning
    /\ file # None

\* The first check only remembers the file's mtime.
FirstCheck ==
    /\ MayReload
    /\ seen = None
    /\ seen' = file
    /\ UNCHANGED <<reload, reader, loaded, faults>>
    /\ ReloadOnly

\* The file is newer: read it, apply it, and open the quotes reader anew.  Only
\* then does it count as seen.
Reload ==
    /\ MayReload
    /\ seen # None /\ file > seen
    /\ loaded' = file
    /\ reader' = "open"
    /\ seen' = file
    /\ UNCHANGED <<reload, faults>>
    /\ ReloadOnly

\* The file cannot be read, or the config is taken over and the new reader then
\* fails to open.  The exception is logged, and the next check tries again.
Mut_ReloadFailsAsSeen ==
    /\ MayReload
    /\ seen # None /\ file > seen
    /\ Fault
    /\ seen' = file
    /\ UNCHANGED <<reload, loaded, reader>>
    /\ ReloadOnly
Mut_ReloadFailsHalfSeen ==        \* the mtime is noted before the reader opens
    /\ MayReload
    /\ seen # None /\ file > seen
    /\ Fault
    /\ \/ UNCHANGED <<loaded, reader, seen>>
       \/ loaded' = file /\ reader' = "closed" /\ seen' = file
    /\ UNCHANGED reload
    /\ ReloadOnly
ReloadFails ==
    /\ MayReload
    /\ seen # None /\ file > seen
    /\ Fault
    /\ \/ UNCHANGED <<loaded, reader>>
       \/ loaded' = file /\ reader' = "closed"
    /\ UNCHANGED <<reload, seen>>
    /\ ReloadOnly

\* Somebody changes the config file.
Edit ==
    /\ file # None
    /\ file < MaxEdits
    /\ file' = file + 1
    /\ UNCHANGED <<fsm, main, cancelled, leadership, tasks, cancels, resources,
                   redis, commands, seen, loaded, counters>>

-----------------------------------------------------------------------------
(* Monitoring writes to Redis *)

Send(c) ==
    /\ sent < MaxCommands
    /\ sent' = sent + 1
    /\ commands' = Append(commands, c)
    /\ UNCHANGED <<fsm, main, cancelled, leadership, tasks, cancels, resources,
                   redis, config, toggles, faults>>

Toggle ==
    /\ toggles < MaxToggles
    /\ toggles' = toggles + 1
    /\ suspended' = ~suspended
    /\ UNCHANGED <<fsm, main, cancelled, leadership, tasks, cancels, resources,
                   status, commands, config, sent, faults>>

Main ==
    \/ Start \/ AccountsRead \/ Connected \/ Refreshed \/ LeaveLoop \/ CancelHandler
    \/ PushStopped \/ HbStopped \/ ReloadStopped

Heartbeat ==
    \/ HbTop \/ HbTopRefreshed \/ HbSlice \/ HbSliceRefreshed \/ HbSyncs
    \/ HbHourlyDone \/ HbWorkDone \/ HbHedgeDone \/ HbCancelled

Next ==
    \/ Signal \/ LoseLeadership \/ CancelService \/ ProbeKills
    \/ Main \/ StartRaises \/ ConnectedRaises \/ RefreshedRaises
    \/ Heartbeat \/ HbRaises
    \/ PushCancelled \/ PushClosed
    \/ ReloadEnds \/ FirstCheck \/ Reload \/ ReloadFails
    \/ \E c \in Commands : Send(c)
    \/ Toggle \/ Edit

Spec == Init /\ [][Next]_vars

\* Every coroutine that can go on does, a cancelled task ends, the pod's probe
\* stops a daemon whose heartbeat is dead, run_with_leadership wakes up, and the
\* config file is looked at every 30 s.  Changes of it, commands, toggles,
\* signals and exceptions need not happen.
Fairness ==
    /\ WF_vars(Main)
    /\ WF_vars(Heartbeat)
    /\ WF_vars(PushCancelled \/ PushClosed)
    /\ WF_vars(ReloadEnds) /\ WF_vars(FirstCheck) /\ WF_vars(Reload)
    /\ WF_vars(CancelService)
    /\ WF_vars(ProbeKills)

FairSpec == Spec /\ Fairness

-----------------------------------------------------------------------------
(* Properties *)

\* Once run() has ended, by its cleanup or because a handler failed after a stop,
\* no task of the daemon is left; and when handle_stopping has closed the status
\* sink and the quotes reader nothing writes to the one or opens the other again
\* (the heartbeat writes status at the end of a pass that has begun before the
\* stop; a config reload opens a new reader).
NothingOutlivesCleanup ==
    /\ main = "ended" => Over(hb) /\ Over(push) /\ Over(reload)
    /\ sink = "closed" => main = "ended" /\ reader = "closed"

\* handle_stopping never waits for a task that nobody has told to end: what it
\* awaits is over, or cancelled and bound to end at its next await.
CleanupWaitsForCancelled ==
    /\ main = "stopPush"   => Over(push) \/ pushCancel
    /\ main = "stopHb"     => Over(hb) \/ hbCancel
    /\ main = "stopReload" => Over(reload) \/ reloadCancel

\* A reload that failed half way stays due: while the quotes reader is closed, or
\* the config runs ahead of the mtime that counts as seen, the file is newer than
\* that, and as long as the daemon runs there is a task that will look again.
HalfReloaded ==
    /\ sink = "open"
    /\ reader = "closed" \/ (seen # None /\ loaded > seen)
FailedReloadIsDue ==
    HalfReloaded => /\ seen # None /\ file > seen
                    /\ IsRunning => reload = "run"

IsStopping == fsm \in {"STOPPING", "STOPPED"}

\* There is no way back: what a stop has begun, neither the suspended flag read
\* by the heartbeat, nor handle_connected's or handle_running's own next state,
\* nor a failing handler turns back into a running daemon.
StopIsFinal ==
    [][IsStopping => IsStopping']_vars

\* The awaits that run() and its tasks have before them, at most, the ones they
\* are at included, when a stop has been requested: each await in the daemon's
\* code of something outside it (a task, a thread, a sleep, Redis, bifrost_core)
\* counts once, whatever that awaits in its turn, and the listener's from its
\* cancellation on.  (No stop comes at "start"; at "top" the heartbeat has not
\* begun.)
MainLeft ==
    CASE main = "refresh"             -> 9
      [] main = "connected"           -> 5
      [] main \in {"positions", "loop"} -> 4
      [] main = "stopPush"            -> 3
      [] main = "stopHb"              -> 2
      [] main = "stopReload"          -> 1
      [] main \in {"start", "ended"}  -> 0
SyncLeft ==
    CASE sync = "accounts" -> 3
      [] sync = "read"     -> 2
      [] sync = "write"    -> 1
HbLeft ==
    CASE hb = "sleepRefresh"              -> SyncLeft + 5
      [] hb = "hourly"                    -> SyncLeft + 2
      [] hb = "topRefresh"                -> SyncLeft + 1
      [] hb = "work"                      -> 2
      [] hb \in {"top", "sleep", "hedge"} -> 1
      [] hb \in {"none", "done", "dead"}  -> 0
PushLeft ==
    CASE push = "run"              -> 2
      [] push = "closing"          -> 1
      [] push \in {"none", "done"} -> 0
ReloadLeft == IF reload = "run" THEN 1 ELSE 0
Remaining == MainLeft + HbLeft + PushLeft + ReloadLeft

\* A stop is fifteen awaits of the daemon's code away from its end, at most, and
\* whatever run() or a task does brings it nearer: none of them is passed twice,
\* the heartbeat begins no new pass and takes no further command, the reload loop
\* loads nothing more, and even a stop that comes before the tasks exist is
\* followed by each only once.  (How long an await takes is Drain of
\* LeaderElection; this is what it has to cover.)
DrainIsBounded ==
    /\ [](IsStopping => Remaining <= 15)
    /\ [][IsStopping => UNCHANGED <<main, tasks>> \/ Remaining' < Remaining]_vars

\* The daemon is a service as run_with_leadership starts it: its tasks start
\* once, it stops when the Lease is lost, and nothing of it is left in the end.
Alive(worker) ==
    CASE worker = "heartbeat" -> ~Over(hb)
      [] worker = "push"      -> ~Over(push)
      [] worker = "reload"    -> ~Over(reload)
Stage ==
    CASE main \in {"start", "connected", "positions", "refresh"} -> "starting"
      [] main = "loop"                                    -> "working"
      [] main \in {"stopPush", "stopHb", "stopReload"}    -> "ending"
      [] main = "ended"                                   -> "over"
Workers == {"heartbeat", "push", "reload"}
Service == INSTANCE LeaderService
               WITH held <- leadership = "held",
                    asked <- IsStopping,
                    stage <- Stage,
                    working <- {worker \in Workers : Alive(worker)}
ServiceSpec == Service!Spec

\* A stop requested in any state, by whoever, ends run(): the loops that watch
\* the FSM see it, and the tasks that do not are cancelled.
StopIsObeyed == (fsm = "STOPPING") ~> (main = "ended")

\* A stop command that Monitoring writes to Redis stops the daemon, whatever
\* commands come before it, whether the heartbeat has started yet, and even if
\* it dies before it has read it.
StopCommandIsObeyed ==
    ("stop" \in {commands[i] : i \in DOMAIN commands}) ~> (main = "ended")

\* A suspended flag that is set for good suspends hedging for good, and one that
\* is cleared for good does not leave the daemon suspended, unless it stops.
SuspensionIsFollowed ==
    /\ <>[]suspended => <>[](fsm # "RUNNING")
    /\ <>[]~suspended => <>[](fsm # "RUNNING_SUSPENDED")

\* What Monitoring reads of the daemon is what it is, once it stays: no state is
\* entered whose status is never written.
StatusFollows ==
    \A state \in {"RUNNING", "RUNNING_SUSPENDED"} :
        <>[](fsm = state) => <>[](status = state)

\* A change of the config file after the first look at it reaches the daemon
\* and its quotes reader, even if the first try to load it fails or the file
\* changes once more, unless the daemon stops.
ConfigIsFollowed ==
    (reload = "run" /\ seen # None /\ file # seen)
        ~> (loaded = file /\ reader = "open") \/ ~IsRunning
=============================================================================
