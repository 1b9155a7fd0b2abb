----------------------------- MODULE AccountPush -----------------------------
(***************************************************************************)
(* The push-driven copy of broker accounts into the Golden Source tables:  *)
(* daemon/app/account_push.py, with the heartbeat's forced writes          *)
(* (daemon/app/control_heartbeat.py) and the writer's end of life in       *)
(* daemon/app/daemon_handlers.py.                                          *)
(*                                                                         *)
(* The IB Gateway plugin rewrites one snapshot in Redis and announces each *)
(* version.  A sync reads the snapshot and writes what changed since the   *)
(* last write, each half in a worker thread (asyncio.to_thread).  Two      *)
(* tasks sync: the push listener, and the heartbeat (hourly, or on the     *)
(* refresh_accounts command).  They share one AccountTablesWriter: one     *)
(* cache of what was written, one psycopg2 connection and so one           *)
(* transaction, and no lock.                                               *)
(*                                                                         *)
(* The model follows the rows of one account.  Accounts only meet in the   *)
(* transaction, which is modelled.                                         *)
(***************************************************************************)
EXTENDS Integers, FiniteSets

CONSTANTS
    Syncers,      \* the tasks that run: a subset of {"push", "force"}
    Summaries,    \* summaries with a NetLiquidation
    NoNav,        \* a summary that lacks it
    None,         \* no snapshot, no connection, no row
    Conns,        \* database connections: one of the writer's, and one more
                  \* for each thread that still uses an earlier one
    Statements,   \* how many statements write an account, each another part
                  \* of its rows, in the same order every time
    Faults,       \* what goes wrong: a subset of FaultKinds
    MaxFaults,    \* bound of the faults in a behaviour
    MaxVersion    \* bound of the plugin's versions

FaultKinds == {"redis", "statement", "connection", "ack", "crash"}

ASSUME SyncersAssumption == Syncers \subseteq {"push", "force"}
ASSUME DataAssumption == NoNav \notin Summaries
ASSUME ConnsAssumption ==
    None \notin Conns /\ Cardinality(Conns) > Cardinality(Syncers)
ASSUME StatementsAssumption == Statements \in Nat \ {0}
ASSUME FaultsAssumption ==
    Faults \subseteq FaultKinds /\ MaxFaults \in Nat /\ MaxVersion \in Nat

VARIABLES
    plugin,     \* the plugin's snapshot of the account; versions increase
    gateway,    \* "up", or "down": the snapshot is older than 120 s
    inbox,      \* a notification waits in the listener's subscription
    listener,   \* run_push_listener
    thread,     \* thread[s]: where sync_once of s stands
    snap,       \* snap[s]: the account it has read
    mine,       \* mine[s]: the connection its write() took
    stmt,       \* stmt[s]: the statement of the write that is next
    conn,       \* AccountTablesWriter._conn
    session,    \* session[c]: the server's side of connection c
    written,    \* _written: fingerprint of the last write
    nonempty,   \* _positions_nonempty
    row,        \* row[p]: the snapshot of which the tables hold part p
    process,    \* the daemon process: "up", "stopping" or "closing"
    faults      \* faults so far

memory == <<written, nonempty>>
source == <<plugin, gateway>>
sync == <<thread, snap, mine, stmt>>
vars == <<source, inbox, listener, sync, conn, session, memory, row, process,
          faults>>

\* A snapshot of the account: ok is its positions_ok, whether the plugin's
\* read of the positions succeeded.
SnapshotsOf(versions) ==
    [version : versions, summary : Summaries \cup {NoNav},
     positions : BOOLEAN, ok : BOOLEAN]
Snapshot == SnapshotsOf(Nat)

ASSUME NoneAssumption == None \notin Snapshot

\* _fingerprint: the summary and the positions, and nothing else.
Mut_WholeAccount(a) == a
Fingerprint(a) == [summary |-> a.summary, positions |-> a.positions]

Fingerprints == [summary : Summaries, positions : BOOLEAN]

\* The rows of the account, in the parts that one statement writes: in
\* raw_broker.account and in raw_broker.positions.
Parts == 1 .. Statements
Rows == [Parts -> Snapshot \cup {None}]
NoRows == [p \in Parts |-> None]

\* A server session: what its open transaction has written, whether a
\* statement of that transaction has failed, whether the session exists.
Sessions == [pending : Rows, failed : BOOLEAN, alive : BOOLEAN]
NewSession == [pending |-> NoRows, failed |-> FALSE, alive |-> TRUE]
NoSession == [pending |-> NoRows, failed |-> FALSE, alive |-> FALSE]

TypeOK ==
    /\ plugin \in Snapshot
    /\ gateway \in {"up", "down"}
    /\ inbox \in BOOLEAN
    /\ listener \in {"off", "sync", "listen", "pending", "backoff"}
    /\ thread \in [Syncers -> {"idle", "read", "filter", "connect", "open", "setup",
                               "execute", "commit", "rollback", "mark"}]
    /\ snap \in [Syncers -> Snapshot \cup {None}]
    /\ mine \in [Syncers -> Conns \cup {None}]
    /\ stmt \in [Syncers -> Parts]
    /\ conn \in Conns \cup {None}
    /\ session \in [Conns -> Sessions]
    /\ written \in Fingerprints \cup {None}
    /\ nonempty \in BOOLEAN
    /\ row \in Rows
    /\ process \in {"up", "stopping", "closing"}
    /\ faults \in 0 .. MaxFaults

Init ==
    /\ plugin \in SnapshotsOf({0})
    /\ gateway = "up"
    /\ inbox = FALSE
    /\ listener = "off"
    /\ thread = [s \in Syncers |-> "idle"]
    /\ snap = [s \in Syncers |-> None]
    /\ mine = [s \in Syncers |-> None]
    /\ stmt = [s \in Syncers |-> 1]
    /\ conn = None
    /\ session = [c \in Conns |-> NoSession]
    /\ written = None
    /\ nonempty = FALSE
    /\ row = NoRows
    /\ process = "up"
    /\ faults = 0

Fault(kind) ==
    /\ kind \in Faults
    /\ faults < MaxFaults
    /\ faults' = faults + 1

-----------------------------------------------------------------------------
(* The IB Gateway plugin *)

Mut_SubscribedAfterSync == listener \in {"listen", "pending"}
Subscribed == listener \in {"sync", "listen", "pending"}

\* It writes a snapshot and announces it to whoever has subscribed.
Publish(a) ==
    /\ plugin' = a
    /\ gateway' = "up"
    /\ inbox' = Subscribed
    /\ UNCHANGED <<listener, sync, conn, session, memory, row, process, faults>>

\* The account may have changed, or the read of it may have degraded.
PublishNew ==
    /\ plugin.version < MaxVersion
    /\ \E a \in SnapshotsOf({plugin.version + 1}) : Publish(a)

\* The same account again, as every couple of seconds.
PublishSame == Publish(plugin)

\* The gateway stops: its last snapshot stays behind and grows old.
GatewayStops ==
    /\ Fault("redis")
    /\ gateway' = "down"
    /\ UNCHANGED <<plugin, inbox, listener, sync, conn, session, memory, row,
                   process>>

-----------------------------------------------------------------------------
(* run_push_listener *)

\* A sync_once of s begins with the read.
Begin(s) ==
    /\ thread[s] = "idle"
    /\ thread' = [thread EXCEPT ![s] = "read"]
    /\ UNCHANGED <<snap, mine, stmt>>

\* Subscribe first, then sync once: what is published meanwhile is announced.
Subscribe ==
    /\ "push" \in Syncers
    /\ listener \in {"off", "backoff"}
    /\ process = "up"
    /\ listener' = "sync"
    /\ inbox' = FALSE
    /\ Begin("push")
    /\ UNCHANGED <<source, conn, session, memory, row, process, faults>>

\* sync_once has returned to the listener.
SyncReturns ==
    /\ listener = "sync"
    /\ thread["push"] = "idle"
    /\ listener' = "listen"
    /\ UNCHANGED <<source, inbox, sync, conn, session, memory, row, process,
                   faults>>

\* get_message: any number of notifications make one pending sync.
Receive ==
    /\ listener = "listen"
    /\ inbox
    /\ inbox' = FALSE
    /\ listener' = "pending"
    /\ UNCHANGED <<source, sync, conn, session, memory, row, process, faults>>

\* The interval since the last sync is over: pending is cleared, then the
\* sync starts, so that a notification during the sync counts again.
SyncPending ==
    /\ listener = "pending"
    /\ listener' = "sync"
    /\ Begin("push")
    /\ UNCHANGED <<source, inbox, conn, session, memory, row, process, faults>>

\* redis-ib fails: the subscription and what waits in it are gone.
ListenerFails ==
    /\ listener \in {"listen", "pending"}
    /\ Fault("redis")
    /\ listener' = "backoff"
    /\ inbox' = FALSE
    /\ UNCHANGED <<source, sync, conn, session, memory, row, process>>

\* The heartbeat: the hourly refresh or the refresh_accounts command.  It
\* goes on while the listener is being stopped.
ForceSync ==
    /\ "force" \in Syncers
    /\ process \in {"up", "stopping"}
    /\ Begin("force")
    /\ UNCHANGED <<source, inbox, listener, conn, session, memory, row, process,
                   faults>>

-----------------------------------------------------------------------------
(* sync_once and AccountTablesWriter.write, in the thread of s *)

Goto(s, step) ==
    /\ thread' = [thread EXCEPT ![s] = step]
    /\ stmt' = [stmt EXCEPT ![s] = 1]

Finish(s) ==
    /\ Goto(s, "idle")
    /\ snap' = [snap EXCEPT ![s] = None]
    /\ mine' = [mine EXCEPT ![s] = None]

\* read_plugin_snapshot and fresh_accounts: a snapshot that is too old is none.
Read(s) ==
    /\ thread[s] = "read"
    /\ \/ /\ gateway = "up"
          /\ snap' = [snap EXCEPT ![s] = plugin]
          /\ Goto(s, "filter")
          /\ UNCHANGED <<mine, faults>>
       \/ /\ gateway = "down"
          /\ Finish(s)
          /\ UNCHANGED faults
       \/ /\ Fault("redis")
          /\ Finish(s)
    /\ UNCHANGED <<source, inbox, listener, conn, session, memory, row, process>>

\* _refuse_reason: no NAV, or positions gone without a successful read.
Mut_RefusedNoNav(a) == a.summary = NoNav
Refused(a) ==
    \/ a.summary = NoNav
    \/ nonempty /\ ~a.positions /\ ~a.ok

\* Only the heartbeat forces; the listener writes what has changed.
Todo(s) == s = "force" \/ written # Fingerprint(snap[s])

Filter(s) ==
    /\ thread[s] = "filter"
    /\ \/ /\ ~Refused(snap[s]) /\ Todo(s)
          /\ Goto(s, "connect")
          /\ UNCHANGED <<snap, mine>>
       \/ /\ Refused(snap[s]) \/ ~Todo(s)
          /\ Finish(s)
    /\ UNCHANGED <<source, inbox, listener, conn, session, memory, row, process,
                   faults>>

\* _ensure_conn: take the connection there is.  If there is none, or if it is
\* known to be closed, go and open one; meanwhile the other thread may do the
\* same.  A lost session is not known before it is used.
Connect(s) ==
    /\ thread[s] = "connect"
    /\ \/ /\ conn # None
          /\ mine' = [mine EXCEPT ![s] = conn]
          /\ Goto(s, "execute")
       \/ /\ conn # None => ~session[conn].alive
          /\ Goto(s, "open")
          /\ UNCHANGED mine
    /\ UNCHANGED <<source, inbox, listener, snap, conn, session, memory, row,
                   process, faults>>

\* A name for a new connection: any that neither writer nor thread holds.
Unused == CHOOSE c \in Conns : c # conn /\ \A t \in Syncers : mine[t] # c

\* open_conn: the writer has the new connection, or none.
Open(s) ==
    /\ thread[s] = "open"
    /\ \/ /\ conn' = Unused
          /\ session' = [session EXCEPT ![Unused] = NewSession]
          /\ Goto(s, "setup")
          /\ UNCHANGED <<snap, mine, faults>>
       \/ /\ Fault("connection")
          /\ conn' = None
          /\ Finish(s)
          /\ UNCHANGED session
    /\ UNCHANGED <<source, inbox, listener, memory, row, process>>

\* The transaction's writes reach the tables.  A transaction in which a
\* statement has failed is rolled back by its COMMIT, without an error.
Store(c) ==
    row' = [p \in Parts |->
              IF session[c].failed \/ session[c].pending[p] = None
                THEN row[p] ELSE session[c].pending[p]]

\* The two SETs and their COMMIT, on whatever connection the writer has by
\* now, which may be the other thread's with its transaction, or none.
Setup(s) ==
    /\ thread[s] = "setup"
    /\ \/ /\ conn # None
          /\ session[conn].alive /\ ~session[conn].failed
          /\ Store(conn)
          /\ session' = [session EXCEPT ![conn] = NewSession]
          /\ mine' = [mine EXCEPT ![s] = conn]
          /\ Goto(s, "execute")
          /\ UNCHANGED <<snap, conn>>
       \/ /\ conn # None => ~session[conn].alive \/ session[conn].failed
          /\ conn' = None
          /\ Finish(s)
          /\ UNCHANGED <<session, row>>
    /\ UNCHANGED <<source, inbox, listener, memory, process, faults>>

Alive(s) == session[mine[s]].alive
Failed(s) == session[mine[s]].failed

\* Another transaction has written the rows of part p and is not over.
RowsLocked(s, p) ==
    \E c \in Conns \ {mine[s]} : session[c].alive /\ session[c].pending[p] # None

\* One statement of sync_accounts_snapshot_to_tables, in the open transaction,
\* which is the other thread's too: between two statements the other may end it
\* or begin it anew.  A statement waits for its rows, or fails.
Mut_ExecuteAutocommits(s) ==      \* the old rows are deleted at once
    /\ thread[s] = "execute"
    /\ row' = NoRows
    /\ session' = [session EXCEPT ![mine[s]].pending = [p \in Parts |-> snap[s]]]
    /\ Goto(s, IF Alive(s) THEN "commit" ELSE "rollback")
    /\ UNCHANGED <<source, inbox, listener, snap, mine, conn, memory, process,
                   faults>>
Execute(s) ==
    /\ thread[s] = "execute"
    /\ \/ /\ Alive(s) /\ ~Failed(s) /\ ~RowsLocked(s, stmt[s])
          /\ session' = [session EXCEPT ![mine[s]].pending[stmt[s]] = snap[s]]
          /\ IF stmt[s] = Statements
               THEN Goto(s, "commit")
               ELSE stmt' = [stmt EXCEPT ![s] = @ + 1] /\ UNCHANGED thread
          /\ UNCHANGED faults
       \/ /\ Alive(s) /\ ~Failed(s)
          /\ Fault("statement")
          /\ session' = [session EXCEPT ![mine[s]].failed = TRUE]
          /\ Goto(s, "rollback")
       \/ /\ ~Alive(s) \/ Failed(s)
          /\ Goto(s, "rollback")
          /\ UNCHANGED <<session, faults>>
    /\ UNCHANGED <<source, inbox, listener, snap, mine, conn, memory, row,
                   process>>

Mut_CommitIfUp(s) ==              \* a write gives up when the daemon stops
    /\ thread[s] = "commit"
    /\ IF process = "up"
         THEN /\ Store(mine[s])
              /\ session' = [session EXCEPT ![mine[s]] = NewSession]
              /\ Goto(s, "mark")
              /\ UNCHANGED <<snap, mine>>
         ELSE Finish(s) /\ UNCHANGED <<session, row>>
    /\ UNCHANGED <<source, inbox, listener, conn, memory, process, faults>>
Commit(s) ==
    /\ thread[s] = "commit"
    /\ \/ /\ Alive(s)
          /\ Store(mine[s])
          /\ session' = [session EXCEPT ![mine[s]] = NewSession]
          /\ Goto(s, "mark")
          /\ UNCHANGED faults
       \/ /\ ~Alive(s)
          /\ Goto(s, "rollback")
          /\ UNCHANGED <<session, row, faults>>
       \/ /\ Alive(s)               \* committed, and the answer is lost
          /\ Fault("ack")
          /\ Store(mine[s])
          /\ session' = [session EXCEPT ![mine[s]] = NoSession]
          /\ Goto(s, "rollback")
    /\ UNCHANGED <<source, inbox, listener, snap, mine, conn, memory, process>>

\* write() failed: roll back; if that fails too, forget the connection.
Mut_RollbackMarks(s) ==           \* a failed write counts as done
    /\ thread[s] = "rollback"
    /\ conn' = None
    /\ written' = Fingerprint(snap[s])
    /\ Finish(s)
    /\ UNCHANGED <<source, inbox, listener, session, nonempty, row, process,
                   faults>>
Mut_RollbackKeepsConn(s) ==       \* a lost connection is not forgotten
    /\ thread[s] = "rollback"
    /\ session' = [session EXCEPT ![mine[s]] =
                      IF Alive(s) THEN NewSession ELSE NoSession]
    /\ Finish(s)
    /\ UNCHANGED <<source, inbox, listener, conn, memory, row, process, faults>>
Rollback(s) ==
    /\ thread[s] = "rollback"
    /\ \/ /\ Alive(s)
          /\ session' = [session EXCEPT ![mine[s]] = NewSession]
          /\ UNCHANGED conn
       \/ /\ ~Alive(s)
          /\ conn' = None
          /\ UNCHANGED session
    /\ Finish(s)
    /\ UNCHANGED <<source, inbox, listener, memory, row, process, faults>>

\* The write counts as done.
Mark(s) ==
    /\ thread[s] = "mark"
    /\ written' = Fingerprint(snap[s])
    /\ nonempty' = snap[s].positions
    /\ Finish(s)
    /\ UNCHANGED <<source, inbox, listener, conn, session, row, process, faults>>

-----------------------------------------------------------------------------
(* Faults of the environment, and the end of the process *)

\* The server or the network ends a session (idle_in_transaction timeout).
SessionLost(c) ==
    /\ session[c].alive
    /\ Fault("connection")
    /\ session' = [session EXCEPT ![c] = NoSession]
    /\ UNCHANGED <<source, inbox, listener, sync, conn, memory, row, process>>

\* The task of s is cancelled.  If it waits for its read it never starts the
\* write; a write in its thread goes on.
Cancelled(s) ==
    thread' = [thread EXCEPT ![s] = IF @ = "read" THEN "idle" ELSE @]

\* handle_stopping: first the listener is stopped.
StopPush ==
    /\ process = "up"
    /\ Fault("crash")
    /\ process' = "stopping"
    /\ listener' = "off"
    /\ inbox' = FALSE
    /\ IF "push" \in Syncers THEN Cancelled("push") ELSE UNCHANGED thread
    /\ UNCHANGED <<source, snap, mine, stmt, conn, session, memory, row>>

\* Then, when the task is over, the writer is closed and the heartbeat
\* cancelled.  A write that goes on may open a connection again.
CloseWriter ==
    /\ process = "stopping"
    /\ process' = "closing"
    /\ conn' = None
    /\ session' = [c \in Conns |-> IF c = conn THEN NoSession ELSE session[c]]
    /\ IF "force" \in Syncers THEN Cancelled("force") ELSE UNCHANGED thread
    /\ UNCHANGED <<source, inbox, listener, snap, mine, stmt, memory, row,
                   faults>>

\* A new process knows nothing of what the last one wrote.
NewProcess ==
    /\ listener' = "off"
    /\ inbox' = FALSE
    /\ thread' = [s \in Syncers |-> "idle"]
    /\ snap' = [s \in Syncers |-> None]
    /\ mine' = [s \in Syncers |-> None]
    /\ stmt' = [s \in Syncers |-> 1]
    /\ conn' = None
    /\ session' = [c \in Conns |-> NoSession]
    /\ written' = None
    /\ nonempty' = FALSE
    /\ process' = "up"
    /\ UNCHANGED <<source, row>>

\* asyncio.run has waited for the threads; the container restarts.
Exit ==
    /\ process = "closing"
    /\ \A s \in Syncers : thread[s] = "idle"
    /\ NewProcess
    /\ UNCHANGED faults

\* The process is killed; open transactions are rolled back.
Crash == Fault("crash") /\ NewProcess

Step(s) ==
    \/ Read(s) \/ Filter(s) \/ Connect(s) \/ Open(s) \/ Setup(s)
    \/ Execute(s) \/ Commit(s) \/ Rollback(s) \/ Mark(s)

Next ==
    \/ PublishNew \/ PublishSame \/ GatewayStops
    \/ Subscribe \/ SyncReturns \/ Receive \/ SyncPending \/ ListenerFails
    \/ ForceSync
    \/ \E s \in Syncers : Step(s)
    \/ \E c \in Conns : SessionLost(c)
    \/ StopPush \/ CloseWriter \/ Exit \/ Crash

Spec == Init /\ [][Next]_vars

\* The event loop and the threads run, the plugin announces its snapshot again
\* and again, and the heartbeat forces a write every hour.
Fairness ==
    /\ WF_vars(PublishSame)
    /\ WF_vars(Subscribe) /\ WF_vars(SyncReturns)
    /\ WF_vars(Receive) /\ WF_vars(SyncPending)
    /\ WF_vars(ForceSync)
    /\ \A s \in Syncers : WF_vars(Step(s))
    /\ WF_vars(CloseWriter) /\ WF_vars(Exit)

FairSpec == Spec /\ Fairness

-----------------------------------------------------------------------------
(* What the copy promises *)

\* The cache tells the truth: what it would skip as unchanged is stored as it
\* is, so a write that did not reach the tables is retried on the next push
\* (between a COMMIT and its cache update the tables may be ahead).
WrittenIsStored ==
    (\A s \in Syncers : thread[s] # "mark") /\ written # None
        => \A p \in Parts : row[p] # None /\ Fingerprint(row[p]) = written

\* Each part of the tables is that of one published snapshot, with a NAV, that
\* some task has in hand, and no part is ever emptied; and with one task all
\* parts are of the same snapshot and change in one step: what AccountCopy
\* promises.  (Two tasks share a transaction, which one may commit or roll back
\* between two statements of the other: part of a snapshot is stored then.)
\* A task has a snapshot in hand from its read to the end of its write.
InHand(s) == IF thread[s] \in {"idle", "read"} THEN None ELSE snap[s]
OneSyncer == \A s, t \in Syncers : s = t
Copy == INSTANCE AccountCopy WITH
            Snapshots <- Snapshot, Whole <- OneSyncer, source <- plugin,
            copy <- row, hand <- [s \in Syncers |-> InHand(s)]
CopySpec == Copy!Spec

\* No open transaction is left behind: one that holds rows belongs to a thread
\* that is about to end it, also while the daemon stops and a forced write
\* opens a connection again after the writer was closed.
NoOrphanTransaction ==
    \A c \in Conns :
        session[c].alive /\ session[c].pending # NoRows
            => \E s \in Syncers :
                  mine[s] = c /\ thread[s] \in {"execute", "commit", "rollback"}

\* The tables never go back to an older snapshot, in any part.
NoStaleOverwrite ==
    [][\A p \in Parts :
         row[p] # None => row'[p] # None /\ row'[p].version >= row[p].version]_vars

\* Once this process has stored positions, only a successful read that finds
\* none may store a flat book.
FlatNeedsGoodRead ==
    [][\A p \in Parts :
         nonempty /\ row'[p] # row[p] => row'[p].positions \/ row'[p].ok]_vars

\* A degraded read never turns stored positions into a flat book
\* (account_push.py: "A degraded IB read must not be stored as a flat book").
NoDegradedFlatBook ==
    [][\A p \in Parts :
         row[p] # None /\ row[p].positions => row'[p].positions \/ row'[p].ok]_vars

\* No announcement is lost.  A new snapshot makes the listener owe a sync; only a
\* sync that reads the snapshot anew pays it; and a sync that ends well leaves the
\* cache at what is published by then, or another sync is owed, whatever was
\* published, forced, lost or stopped meanwhile.  (A listener that is off or
\* backs off owes the sync that follows its next subscription.)
Owed ==
    \/ inbox
    \/ listener \in {"off", "pending", "backoff"}
    \/ listener = "sync" /\ thread["push"] = "read"
Current == written = Fingerprint(plugin) \/ Refused(plugin)
Reads == thread["push"] = "read" /\ thread'["push"] # "read"
EndsWell == thread["push"] \in {"filter", "mark"} /\ thread'["push"] = "idle"

NoLostWakeUp ==
    [][ "push" \in Syncers =>
        /\ plugin' # plugin => Owed'
        /\ Owed => Owed' \/ Reads
        /\ EndsWell => Owed' \/ Current' ]_vars

\* An account that can be stored and no longer changes is stored in the end,
\* whatever was lost, raced or restarted before.
Settled == plugin.version = MaxVersion /\ gateway = "up"
Storable == plugin.summary # NoNav /\ (plugin.positions \/ plugin.ok)
Converges ==
    <>[](Settled /\ Storable)
        => <>[](\A p \in Parts :
                  row[p] # None /\ Fingerprint(row[p]) = Fingerprint(plugin))
=============================================================================
