------------------------- MODULE AccountPushProofs -------------------------
(***************************************************************************)
(* Proofs about AccountPush, for any set of syncers, data, connections and *)
(* faults.                                                                 *)
(*                                                                         *)
(*   Inv        TypeOK, with what a thread has in hand at each step        *)
(*              (HandInv) and to whom an open transaction's rows belong    *)
(*              (PendingInv).  It yields NoOrphanTransaction.              *)
(*   AloneInv   what holds besides if there is one syncer: its COMMIT      *)
(*              stores all of what it has in hand.  It yields              *)
(*              NoStaleOverwrite, FlatNeedsGoodRead and, with no COMMIT    *)
(*              whose answer is lost, WrittenIsStored.                     *)
(*   CopyStep   every step is one of AccountCopy, or a stutter: a part     *)
(*              that a COMMIT stores is of what some thread has in hand;   *)
(*              with one syncer all parts are, by AloneInv.                *)
(*   WakeInv    what the listener and its thread are doing, and that a     *)
(*              sync is owed or what it has in hand is what is published.  *)
(*              It yields NoLostWakeUp.                                    *)
(***************************************************************************)
EXTENDS AccountPush, FiniteSetTheorems, TLAPS

\* A thread has no connection before it took one, one that exists while it uses
\* it, a snapshot after the read, and one with a NAV after the filter.
Hand(s) ==
    /\ thread[s] \in {"idle", "read", "filter", "connect", "open", "setup"}
         => mine[s] = None
    /\ thread[s] \in {"execute", "commit", "rollback"} => mine[s] \in Conns
    /\ thread[s] \notin {"idle", "read"} => snap[s] \in Snapshot
    /\ thread[s] \notin {"idle", "read", "filter"} => snap[s].summary # NoNav

HandInv == \A s \in Syncers : Hand(s)

\* The rows in an open transaction are those of a thread that is to end it.
Ends(s) == thread[s] \in {"execute", "commit", "rollback"}
PendingInv ==
    \A c \in Conns, p \in Parts :
        session[c].alive /\ session[c].pending[p] # None
            => \E s \in Syncers : /\ Ends(s)
                                  /\ mine[s] = c
                                  /\ snap[s] = session[c].pending[p]

Inv == TypeOK /\ HandInv /\ PendingInv

-----------------------------------------------------------------------------
(* Shared pieces *)

LEMMA PairSize ==
    ASSUME NEW a, NEW b
    PROVE  /\ IsFiniteSet({a, b})
           /\ Cardinality({a, b}) = IF a = b THEN 1 ELSE 2
<1>1. IsFiniteSet({a}) /\ Cardinality({a}) = 1
  BY FS_Singleton, Zenon
<1>2. /\ IsFiniteSet({a} \cup {b})
      /\ Cardinality({a} \cup {b}) =
           IF b \in {a} THEN Cardinality({a}) ELSE Cardinality({a}) + 1
  BY <1>1, FS_AddElement, Zenon
<1>3. {a} \cup {b} = {a, b}
  OBVIOUS
<1>4. QED  BY <1>1, <1>2, <1>3

LEMMA PairBound ==
    ASSUME NEW a, NEW b, NEW S, S \subseteq {a, b}
    PROVE  Cardinality(S) \in Nat /\ Cardinality(S) <= IF a = b THEN 1 ELSE 2
<1>1. IsFiniteSet({a, b}) /\ Cardinality({a, b}) = IF a = b THEN 1 ELSE 2
  BY PairSize
<1>2. IsFiniteSet(S) /\ Cardinality(S) <= Cardinality({a, b})
  BY <1>1, FS_Subset, Zenon
<1>3. Cardinality(S) \in Nat
  BY <1>2, FS_CardinalityType, Zenon
<1>4. QED  BY <1>1, <1>2, <1>3

\* While s is about to open a connection there is a name left for it: the
\* writer and the one other task hold fewer names than there are.
LEMMA UnusedExists ==
    ASSUME HandInv, NEW s \in Syncers, thread[s] = "open"
    PROVE  /\ Unused \in Conns
           /\ Unused # conn
           /\ \A t \in Syncers : mine[t] # Unused
<1> DEFINE other == IF s = "push" THEN "force" ELSE "push"
           Free(c) == c # conn /\ \A t \in Syncers : mine[t] # c
<1>1. Syncers \subseteq {s, other}
  BY SyncersAssumption
<1>2. mine[s] = None
  BY DEF HandInv, Hand
<1>3. \E c \in Conns : Free(c)
  <2>1. SUFFICES ASSUME \A c \in Conns : ~Free(c)
                 PROVE  FALSE
    OBVIOUS
  <2>2. CASE other \in Syncers
    <3>1. Conns \subseteq {conn, mine[other]}
      BY <1>1, <1>2, <2>1, ConnsAssumption
    <3>2. Cardinality(Conns) \in Nat /\ Cardinality(Conns) <= 2
      BY <3>1, PairBound
    <3>3. Syncers = {s, other} /\ s # other
      BY <1>1, <2>2
    <3>4. Cardinality(Syncers) = 2
      BY <3>3, PairSize
    <3>5. QED  BY <3>2, <3>4, ConnsAssumption
  <2>3. CASE other \notin Syncers
    <3>1. Syncers = {s, s}
      BY <1>1, <2>3
    <3>2. Conns \subseteq {conn, conn}
      BY <1>2, <2>1, <3>1, ConnsAssumption
    <3>3. Cardinality(Conns) \in Nat /\ Cardinality(Conns) <= 1
      BY <3>2, PairBound
    <3>4. Cardinality(Syncers) = 1
      BY <3>1, PairSize
    <3>5. QED  BY <3>3, <3>4, ConnsAssumption
  <2>4. QED  BY <2>2, <2>3
<1>4. QED  BY <1>3 DEF Unused

LEMMA FaultType ==
    ASSUME TypeOK, NEW kind, Fault(kind)
    PROVE  faults' \in 0 .. MaxFaults
BY FaultsAssumption DEF TypeOK, Fault

LEMMA SnapshotsType ==
    ASSUME NEW v \in Nat
    PROVE  SnapshotsOf({v}) \subseteq Snapshot
BY DEF SnapshotsOf, Snapshot

\* The fingerprint of a snapshot with a NAV.
LEMMA FingerprintType ==
    ASSUME NEW a \in Snapshot, a.summary # NoNav
    PROVE  Fingerprint(a) \in Fingerprints
BY DEF Snapshot, SnapshotsOf, Fingerprint, Fingerprints

LEMMA PartsType == 1 \in Parts /\ Statements \in Parts /\ Parts \subseteq Nat
BY StatementsAssumption DEF Parts

LEMMA SessionsType ==
    /\ NewSession \in Sessions /\ NoSession \in Sessions /\ ~NoSession.alive
    /\ \A p \in Parts : ~(NewSession.pending[p] # None)
BY DEF NewSession, NoSession, Sessions, NoRows, Rows

-----------------------------------------------------------------------------
(* Inv holds at first *)

LEMMA InitInv == Init => Inv
<1> SUFFICES ASSUME Init PROVE Inv
  OBVIOUS
<1>1. plugin \in Snapshot
  BY DEF Init, SnapshotsOf, Snapshot
<1>2. TypeOK
  <2>1. inbox \in BOOLEAN /\ nonempty \in BOOLEAN
    BY DEF Init
  <2>2. session \in [Conns -> Sessions] /\ faults \in 0 .. MaxFaults
    BY SessionsType, FaultsAssumption DEF Init
  <2>4. row \in Rows /\ stmt \in [Syncers -> Parts]
    BY PartsType DEF Init, NoRows, Rows
  <2>3. QED  BY <1>1, <2>1, <2>2, <2>4 DEF Init, TypeOK
<1>3. HandInv
  BY DEF Init, HandInv, Hand
<1>4. PendingInv
  BY SessionsType DEF Init, PendingInv
<1>5. QED  BY <1>2, <1>3, <1>4 DEF Inv

-----------------------------------------------------------------------------
(* Inv is kept: the plugin, the listener and the heartbeat *)

\* Neither threads nor sessions are touched.
LEMMA PluginKeepsInv ==
    ASSUME Inv, PublishNew \/ PublishSame \/ GatewayStops
    PROVE  Inv'
<1> USE DEF Inv
<1>1. plugin' \in Snapshot
  <2>1. CASE PublishNew
    <3>1. plugin.version + 1 \in Nat
      BY DEF TypeOK, Snapshot, SnapshotsOf
    <3>2. QED  BY <2>1, <3>1, SnapshotsType DEF PublishNew, Publish
  <2>2. CASE PublishSame \/ GatewayStops
    BY <2>2 DEF PublishSame, Publish, GatewayStops, TypeOK
  <2>3. QED  BY <2>1, <2>2
<1>2. inbox' \in BOOLEAN /\ gateway' \in {"up", "down"}
  <2>1. Subscribed \in BOOLEAN
    BY DEF Subscribed
  <2>2. CASE PublishNew \/ PublishSame
    BY <2>1, <2>2 DEF PublishNew, PublishSame, Publish
  <2>3. CASE GatewayStops
    BY <2>3 DEF GatewayStops, TypeOK
  <2>4. QED  BY <2>2, <2>3
<1>3. faults' \in 0 .. MaxFaults
  BY FaultType DEF PublishNew, PublishSame, Publish, GatewayStops, TypeOK
<1>4. UNCHANGED <<listener, sync, conn, session, memory, row, process>>
  BY DEF PublishNew, PublishSame, Publish, GatewayStops
<1>5. TypeOK'
  BY <1>1, <1>2, <1>3, <1>4 DEF TypeOK, sync, memory
<1>6. HandInv'
  BY <1>4 DEF sync, HandInv, Hand
<1>7. PendingInv'
  BY <1>4 DEF sync, PendingInv, Ends
<1>8. QED  BY <1>5, <1>6, <1>7

\* At most one idle thread starts to read, or one that reads goes idle.
LEMMA TasksKeepInv ==
    ASSUME Inv,
           \/ Subscribe \/ SyncReturns \/ Receive \/ SyncPending
           \/ ListenerFails \/ ForceSync
    PROVE  Inv'
<1> USE DEF Inv
<1>1. /\ \A s \in Syncers : \/ thread'[s] = thread[s]
                            \/ thread[s] = "idle" /\ thread'[s] = "read"
      /\ thread' \in [Syncers -> {"idle", "read", "filter", "connect", "open",
                               "setup", "execute", "commit", "rollback", "mark"}]
  BY DEF Subscribe, SyncReturns, Receive, SyncPending, ListenerFails, ForceSync,
         Begin, TypeOK, sync
<1>2. inbox' \in BOOLEAN
  BY DEF Subscribe, SyncReturns, Receive, SyncPending, ListenerFails, ForceSync,
         TypeOK
<1>3. faults' \in 0 .. MaxFaults
  BY FaultType DEF Subscribe, SyncReturns, Receive, SyncPending, ListenerFails,
         ForceSync, TypeOK
<1>4. UNCHANGED <<source, snap, mine, stmt, conn, session, memory, row, process>>
  BY DEF Subscribe, SyncReturns, Receive, SyncPending, ListenerFails, ForceSync,
         Begin, sync
<1>5. listener' \in {"off", "sync", "listen", "pending", "backoff"}
  BY DEF Subscribe, SyncReturns, Receive, SyncPending, ListenerFails, ForceSync,
         TypeOK
<1>6. TypeOK'
  BY <1>1, <1>2, <1>3, <1>4, <1>5 DEF TypeOK, source, memory
<1>7. HandInv'
  BY <1>1, <1>4 DEF HandInv, Hand
<1>8. PendingInv'
  BY <1>1, <1>4 DEF PendingInv, Ends
<1>9. QED  BY <1>6, <1>7, <1>8

-----------------------------------------------------------------------------
(* Inv is kept: the thread of a sync *)

\* What is in a transaction after a step of s was in it before, for a thread that
\* is still to end it.
LEMMA PendingKept ==
    ASSUME Inv, NEW s \in Syncers,
           \A t \in Syncers \ {s} : /\ thread'[t] = thread[t]
                                   /\ mine'[t] = mine[t] /\ snap'[t] = snap[t],
           NEW c \in Conns, NEW p \in Parts,
           session[c].alive, session[c].pending[p] # None,
           session'[c].pending[p] = session[c].pending[p],
           mine[s] = c /\ Ends(s)
              => Ends(s)' /\ mine'[s] = mine[s] /\ snap'[s] = snap[s]
    PROVE  \E t \in Syncers : Ends(t)' /\ mine'[t] = c
                              /\ snap'[t] = session'[c].pending[p]
<1>1. PICK t \in Syncers : Ends(t) /\ mine[t] = c /\ snap[t] = session[c].pending[p]
  BY DEF Inv, PendingInv
<1>2. QED  BY <1>1 DEF Ends

LEMMA OthersKept ==
    ASSUME Inv, NEW s \in Syncers, Open(s) \/ Execute(s) \/ Commit(s) \/ Rollback(s)
    PROVE  \A t \in Syncers \ {s} : /\ thread'[t] = thread[t]
                                   /\ mine'[t] = mine[t] /\ snap'[t] = snap[t]
BY DEF Open, Execute, Commit, Rollback, Goto, Finish, Inv, TypeOK

\* What every step of a thread leaves alone.
LEMMA StepFrame ==
    ASSUME NEW s \in Syncers, Step(s)
    PROVE  UNCHANGED <<source, inbox, listener, process>>
BY DEF Step, Read, Filter, Connect, Open, Setup, Execute, Commit, Rollback, Mark

LEMMA ReadKeepsInv ==
    ASSUME Inv, NEW s \in Syncers, Read(s)
    PROVE  Inv'
<1> USE DEF Inv
<1>1. /\ thread' \in [Syncers -> {"idle", "read", "filter", "connect", "open",
                               "setup", "execute", "commit", "rollback", "mark"}]
      /\ snap' \in [Syncers -> Snapshot \cup {None}]
      /\ mine' \in [Syncers -> Conns \cup {None}]
      /\ stmt' \in [Syncers -> Parts]
  BY PartsType DEF Read, Goto, Finish, TypeOK
<1>2. conn' \in Conns \cup {None} /\ session' \in [Conns -> Sessions]
  BY SessionsType DEF Read, TypeOK, Sessions
<1>3. /\ written' \in Fingerprints \cup {None}
      /\ row' \in Rows
      /\ faults' \in 0 .. MaxFaults
  BY FaultType DEF Read, Store, memory, TypeOK, Sessions, Rows, HandInv, Hand
<1>4. nonempty' \in BOOLEAN
  BY DEF Read, memory, TypeOK, HandInv, Hand, Snapshot, SnapshotsOf
<1>5. TypeOK'
  BY <1>1, <1>2, <1>3, <1>4, StepFrame DEF Step, source, TypeOK
<1>6. HandInv'
  BY NoneAssumption DEF Read, Goto, Finish, TypeOK, HandInv, Hand, Refused
<1>7. PendingInv'
  BY SessionsType DEF Read, Goto, Finish, TypeOK, Sessions, HandInv, Hand,
     PendingInv, Ends, Alive, Failed
<1>8. QED  BY <1>5, <1>6, <1>7

LEMMA FilterKeepsInv ==
    ASSUME Inv, NEW s \in Syncers, Filter(s)
    PROVE  Inv'
<1> USE DEF Inv
<1>1. /\ thread' \in [Syncers -> {"idle", "read", "filter", "connect", "open",
                               "setup", "execute", "commit", "rollback", "mark"}]
      /\ snap' \in [Syncers -> Snapshot \cup {None}]
      /\ mine' \in [Syncers -> Conns \cup {None}]
      /\ stmt' \in [Syncers -> Parts]
  BY PartsType DEF Filter, Goto, Finish, TypeOK
<1>2. conn' \in Conns \cup {None} /\ session' \in [Conns -> Sessions]
  BY SessionsType DEF Filter, TypeOK, Sessions
<1>3. /\ written' \in Fingerprints \cup {None}
      /\ row' \in Rows
      /\ faults' \in 0 .. MaxFaults
  BY FaultType DEF Filter, Store, memory, TypeOK, Sessions, Rows, HandInv, Hand
<1>4. nonempty' \in BOOLEAN
  BY DEF Filter, memory, TypeOK, HandInv, Hand, Snapshot, SnapshotsOf
<1>5. TypeOK'
  BY <1>1, <1>2, <1>3, <1>4, StepFrame DEF Step, source, TypeOK
<1>6. HandInv'
  BY NoneAssumption DEF Filter, Goto, Finish, TypeOK, HandInv, Hand, Refused
<1>7. PendingInv'
  BY SessionsType DEF Filter, Goto, Finish, TypeOK, Sessions, HandInv, Hand,
     PendingInv, Ends, Alive, Failed
<1>8. QED  BY <1>5, <1>6, <1>7

LEMMA ConnectKeepsInv ==
    ASSUME Inv, NEW s \in Syncers, Connect(s)
    PROVE  Inv'
<1> USE DEF Inv
<1>1. /\ thread' \in [Syncers -> {"idle", "read", "filter", "connect", "open",
                               "setup", "execute", "commit", "rollback", "mark"}]
      /\ snap' \in [Syncers -> Snapshot \cup {None}]
      /\ mine' \in [Syncers -> Conns \cup {None}]
      /\ stmt' \in [Syncers -> Parts]
  BY PartsType DEF Connect, Goto, Finish, TypeOK
<1>2. conn' \in Conns \cup {None} /\ session' \in [Conns -> Sessions]
  BY SessionsType DEF Connect, TypeOK, Sessions
<1>3. /\ written' \in Fingerprints \cup {None}
      /\ row' \in Rows
      /\ faults' \in 0 .. MaxFaults
  BY FaultType DEF Connect, Store, memory, TypeOK, Sessions, Rows, HandInv, Hand
<1>4. nonempty' \in BOOLEAN
  BY DEF Connect, memory, TypeOK, HandInv, Hand, Snapshot, SnapshotsOf
<1>5. TypeOK'
  BY <1>1, <1>2, <1>3, <1>4, StepFrame DEF Step, source, TypeOK
<1>6. HandInv'
  BY NoneAssumption DEF Connect, Goto, Finish, TypeOK, HandInv, Hand, Refused
<1>7. PendingInv'
  BY SessionsType DEF Connect, Goto, Finish, TypeOK, Sessions, HandInv, Hand,
     PendingInv, Ends, Alive, Failed
<1>8. QED  BY <1>5, <1>6, <1>7

LEMMA OpenKeepsInv ==
    ASSUME Inv, NEW s \in Syncers, Open(s)
    PROVE  Inv'
<1> USE DEF Inv
<1>1. /\ thread' \in [Syncers -> {"idle", "read", "filter", "connect", "open",
                               "setup", "execute", "commit", "rollback", "mark"}]
      /\ snap' \in [Syncers -> Snapshot \cup {None}]
      /\ mine' \in [Syncers -> Conns \cup {None}]
      /\ stmt' \in [Syncers -> Parts]
  BY PartsType DEF Open, Goto, Finish, TypeOK
<1>2. conn' \in Conns \cup {None} /\ session' \in [Conns -> Sessions]
  <2>1. Unused \in Conns
    BY UnusedExists DEF Open
  <2>2. QED  BY <2>1, SessionsType DEF Open, TypeOK
<1>3. /\ written' \in Fingerprints \cup {None}
      /\ row' \in Rows
      /\ faults' \in 0 .. MaxFaults
  BY UnusedExists, FaultType DEF Open, Store, memory, TypeOK, Sessions, Rows, HandInv, Hand
<1>4. nonempty' \in BOOLEAN
  BY DEF Open, memory, TypeOK, HandInv, Hand, Snapshot, SnapshotsOf
<1>5. TypeOK'
  BY <1>1, <1>2, <1>3, <1>4, StepFrame DEF Step, source, TypeOK
<1>6. HandInv'
  BY NoneAssumption DEF Open, Goto, Finish, TypeOK, HandInv, Hand, Refused
<1>7. PendingInv'
  <2> SUFFICES ASSUME NEW c \in Conns, NEW p \in Parts,
                      session'[c].alive, session'[c].pending[p] # None
               PROVE  \E t \in Syncers : Ends(t)' /\ mine'[t] = c
                                         /\ snap'[t] = session'[c].pending[p]
    BY DEF PendingInv
  <2>1. session'[c] = session[c] /\ ~Ends(s)
    BY SessionsType DEF Open, TypeOK, Ends
  <2>2. QED  BY <2>1, OthersKept, PendingKept
<1>8. QED  BY <1>5, <1>6, <1>7

LEMMA SetupKeepsInv ==
    ASSUME Inv, NEW s \in Syncers, Setup(s)
    PROVE  Inv'
<1> USE DEF Inv
<1>1. /\ thread' \in [Syncers -> {"idle", "read", "filter", "connect", "open",
                               "setup", "execute", "commit", "rollback", "mark"}]
      /\ snap' \in [Syncers -> Snapshot \cup {None}]
      /\ mine' \in [Syncers -> Conns \cup {None}]
      /\ stmt' \in [Syncers -> Parts]
  BY PartsType DEF Setup, Goto, Finish, TypeOK
<1>2. conn' \in Conns \cup {None} /\ session' \in [Conns -> Sessions]
  BY SessionsType DEF Setup, TypeOK, Sessions
<1>3. /\ written' \in Fingerprints \cup {None}
      /\ row' \in Rows
      /\ faults' \in 0 .. MaxFaults
  BY FaultType DEF Setup, Store, memory, TypeOK, Sessions, Rows, HandInv, Hand
<1>4. nonempty' \in BOOLEAN
  BY DEF Setup, memory, TypeOK, HandInv, Hand, Snapshot, SnapshotsOf
<1>5. TypeOK'
  BY <1>1, <1>2, <1>3, <1>4, StepFrame DEF Step, source, TypeOK
<1>6. HandInv'
  BY NoneAssumption DEF Setup, Goto, Finish, TypeOK, HandInv, Hand, Refused
<1>7. PendingInv'
  BY SessionsType DEF Setup, Goto, Finish, TypeOK, Sessions, HandInv, Hand,
     PendingInv, Ends, Alive, Failed
<1>8. QED  BY <1>5, <1>6, <1>7

\* What a statement does to its thread and its session.
LEMMA ExecuteEffect ==
    ASSUME Inv, NEW s \in Syncers, Execute(s)
    PROVE  /\ mine[s] \in Conns /\ stmt[s] \in Parts
           /\ UNCHANGED <<mine, snap>>
           /\ Ends(s) /\ Ends(s)'
           /\ thread' = [thread EXCEPT ![s] = thread'[s]]
           /\ thread'[s] \in {"execute", "commit", "rollback"}
           /\ stmt' \in [Syncers -> Parts]
           /\ \/ session' = [session EXCEPT ![mine[s]].pending[stmt[s]] = snap[s]]
              \/ session' = [session EXCEPT ![mine[s]].failed = TRUE]
              \/ session' = session
<1> USE DEF Inv
<1>1. mine[s] \in Conns /\ stmt[s] \in Parts /\ UNCHANGED <<mine, snap>> /\ Ends(s)
  BY DEF Execute, Ends, TypeOK, HandInv, Hand
<1>2. CASE /\ session' = [session EXCEPT ![mine[s]].pending[stmt[s]] = snap[s]]
           /\ IF stmt[s] = Statements
                THEN Goto(s, "commit")
                ELSE stmt' = [stmt EXCEPT ![s] = @ + 1] /\ UNCHANGED thread
  <2>1. CASE stmt[s] = Statements
    BY <1>1, <1>2, <2>1, PartsType DEF Goto, Ends, TypeOK
  <2>2. CASE stmt[s] # Statements
    <3>1. stmt[s] + 1 \in Parts
      BY <1>1, <2>2, StatementsAssumption DEF Parts
    <3>2. thread' = thread /\ stmt' = [stmt EXCEPT ![s] = @ + 1]
      BY <1>2, <2>2
    <3>3. thread[s] = "execute"
      BY DEF Execute
    <3>4. QED  BY <1>1, <1>2, <3>1, <3>2, <3>3 DEF Ends, TypeOK
  <2>3. QED  BY <2>1, <2>2
<1>3. CASE /\ Goto(s, "rollback")
           /\ \/ session' = [session EXCEPT ![mine[s]].failed = TRUE]
              \/ session' = session
  BY <1>1, <1>3, PartsType DEF Goto, Ends, TypeOK
<1>4. QED  BY <1>2, <1>3 DEF Execute

LEMMA ExecuteKeepsInv ==
    ASSUME Inv, NEW s \in Syncers, Execute(s)
    PROVE  Inv'
<1> USE DEF Inv
<1>1. /\ thread' \in [Syncers -> {"idle", "read", "filter", "connect", "open",
                               "setup", "execute", "commit", "rollback", "mark"}]
      /\ snap' \in [Syncers -> Snapshot \cup {None}]
      /\ mine' \in [Syncers -> Conns \cup {None}]
      /\ stmt' \in [Syncers -> Parts]
  BY ExecuteEffect DEF TypeOK
<1>2. session' \in [Conns -> Sessions]
  <2> DEFINE old == session[mine[s]]
  <2>1. mine[s] \in Conns /\ old \in Sessions /\ stmt[s] \in Parts
    BY ExecuteEffect DEF TypeOK
  <2>2. CASE session' = [session EXCEPT ![mine[s]].pending[stmt[s]] = snap[s]]
    <3>1. [old.pending EXCEPT ![stmt[s]] = snap[s]] \in Rows
      BY <2>1 DEF Sessions, Rows, TypeOK
    <3>2. [old EXCEPT !.pending[stmt[s]] = snap[s]] \in Sessions
      BY <2>1, <3>1 DEF Sessions
    <3>3. QED  BY <2>1, <2>2, <3>2 DEF TypeOK
  <2>3. CASE session' = [session EXCEPT ![mine[s]].failed = TRUE]
    <3>1. [old EXCEPT !.failed = TRUE] \in Sessions
      BY <2>1 DEF Sessions
    <3>2. QED  BY <2>1, <2>3, <3>1 DEF TypeOK
  <2>4. QED  BY <2>2, <2>3, ExecuteEffect DEF TypeOK
<1>3. /\ UNCHANGED <<conn, memory, row>>
      /\ faults' \in 0 .. MaxFaults
  BY FaultType DEF Execute, TypeOK
<1>5. TypeOK'
  BY <1>1, <1>2, <1>3, StepFrame DEF Step, source, memory, TypeOK
<1>6. HandInv'
  BY ExecuteEffect DEF Ends, TypeOK, HandInv, Hand
<1>7. PendingInv'
  <2> SUFFICES ASSUME NEW c \in Conns, NEW p \in Parts,
                      session'[c].alive, session'[c].pending[p] # None
               PROVE  \E t \in Syncers : Ends(t)' /\ mine'[t] = c
                                         /\ snap'[t] = session'[c].pending[p]
    BY DEF PendingInv
  <2> DEFINE old == session[c]
             new == session'[c]
  <2>0. old \in Sessions /\ old.pending \in Rows
    BY DEF TypeOK, Sessions
  <2>4. /\ new.alive = old.alive
        /\ \/ new.pending = old.pending
           \/ mine[s] = c /\ new.pending = [old.pending EXCEPT ![stmt[s]] = snap[s]]
    <3>1. mine[s] \in Conns /\ session \in [Conns -> Sessions]
      BY ExecuteEffect DEF TypeOK
    <3>2. CASE session' = [session EXCEPT ![mine[s]].pending[stmt[s]] = snap[s]]
      <4>1. CASE mine[s] = c
        BY <2>0, <3>1, <3>2, <4>1 DEF Sessions
      <4>2. CASE mine[s] # c
        BY <3>1, <3>2, <4>2
      <4>3. QED  BY <4>1, <4>2
    <3>3. CASE session' = [session EXCEPT ![mine[s]].failed = TRUE]
      BY <2>0, <3>1, <3>3 DEF Sessions
    <3>4. QED  BY <3>2, <3>3, ExecuteEffect
  <2>1. CASE session'[c].pending[p] = session[c].pending[p]
    <3>1. session[c].alive
      BY <2>4
    <3>2. Ends(s)' /\ mine'[s] = mine[s] /\ snap'[s] = snap[s]
      BY ExecuteEffect
    <3>3. session[c].pending[p] # None
      BY <2>1
    <3>4. QED  BY <2>1, <3>1, <3>2, <3>3, OthersKept, PendingKept
  <2>2. CASE session'[c].pending[p] # session[c].pending[p]
    <3>1. mine[s] = c /\ session'[c].pending[p] = snap[s]
      BY <2>0, <2>2, <2>4 DEF Rows
    <3>2. QED  BY <3>1, ExecuteEffect
  <2>3. QED  BY <2>1, <2>2
<1>8. QED  BY <1>5, <1>6, <1>7

LEMMA CommitKeepsInv ==
    ASSUME Inv, NEW s \in Syncers, Commit(s)
    PROVE  Inv'
<1> USE DEF Inv
<1>1. /\ thread' \in [Syncers -> {"idle", "read", "filter", "connect", "open",
                               "setup", "execute", "commit", "rollback", "mark"}]
      /\ snap' \in [Syncers -> Snapshot \cup {None}]
      /\ mine' \in [Syncers -> Conns \cup {None}]
      /\ stmt' \in [Syncers -> Parts]
  BY PartsType DEF Commit, Goto, Finish, TypeOK
<1>2. conn' \in Conns \cup {None} /\ session' \in [Conns -> Sessions]
  BY SessionsType DEF Commit, TypeOK, Sessions
<1>3. /\ written' \in Fingerprints \cup {None}
      /\ row' \in Rows
      /\ faults' \in 0 .. MaxFaults
  BY FaultType DEF Commit, Store, memory, TypeOK, Sessions, Rows, HandInv, Hand
<1>4. nonempty' \in BOOLEAN
  BY DEF Commit, memory, TypeOK, HandInv, Hand, Snapshot, SnapshotsOf
<1>5. TypeOK'
  BY <1>1, <1>2, <1>3, <1>4, StepFrame DEF Step, source, TypeOK
<1>6. HandInv'
  BY NoneAssumption DEF Commit, Goto, Finish, TypeOK, HandInv, Hand, Refused
<1>7. PendingInv'
  <2> SUFFICES ASSUME NEW c \in Conns, NEW p \in Parts,
                      session'[c].alive, session'[c].pending[p] # None
               PROVE  \E t \in Syncers : Ends(t)' /\ mine'[t] = c
                                         /\ snap'[t] = session'[c].pending[p]
    BY DEF PendingInv
  <2>1. CASE mine[s] # c
    <3>1. session'[c] = session[c]
      BY <2>1 DEF Commit, TypeOK
    <3>2. QED  BY <2>1, <3>1, OthersKept, PendingKept
  <2>2. CASE mine[s] = c
    BY <2>2, SessionsType DEF Commit, TypeOK, HandInv, Hand, Alive
  <2>3. QED  BY <2>1, <2>2
<1>8. QED  BY <1>5, <1>6, <1>7

LEMMA RollbackKeepsInv ==
    ASSUME Inv, NEW s \in Syncers, Rollback(s)
    PROVE  Inv'
<1> USE DEF Inv
<1>1. /\ thread' \in [Syncers -> {"idle", "read", "filter", "connect", "open",
                               "setup", "execute", "commit", "rollback", "mark"}]
      /\ snap' \in [Syncers -> Snapshot \cup {None}]
      /\ mine' \in [Syncers -> Conns \cup {None}]
      /\ stmt' \in [Syncers -> Parts]
  BY PartsType DEF Rollback, Goto, Finish, TypeOK
<1>2. conn' \in Conns \cup {None} /\ session' \in [Conns -> Sessions]
  BY SessionsType DEF Rollback, TypeOK, Sessions
<1>3. /\ written' \in Fingerprints \cup {None}
      /\ row' \in Rows
      /\ faults' \in 0 .. MaxFaults
  BY FaultType DEF Rollback, Store, memory, TypeOK, Sessions, Rows, HandInv, Hand
<1>4. nonempty' \in BOOLEAN
  BY DEF Rollback, memory, TypeOK, HandInv, Hand, Snapshot, SnapshotsOf
<1>5. TypeOK'
  BY <1>1, <1>2, <1>3, <1>4, StepFrame DEF Step, source, TypeOK
<1>6. HandInv'
  BY NoneAssumption DEF Rollback, Goto, Finish, TypeOK, HandInv, Hand, Refused
<1>7. PendingInv'
  <2> SUFFICES ASSUME NEW c \in Conns, NEW p \in Parts,
                      session'[c].alive, session'[c].pending[p] # None
               PROVE  \E t \in Syncers : Ends(t)' /\ mine'[t] = c
                                         /\ snap'[t] = session'[c].pending[p]
    BY DEF PendingInv
  <2>1. CASE mine[s] # c
    <3>1. session'[c] = session[c]
      BY <2>1 DEF Rollback, TypeOK
    <3>2. QED  BY <2>1, <3>1, OthersKept, PendingKept
  <2>2. CASE mine[s] = c
    BY <2>2, SessionsType DEF Rollback, TypeOK, HandInv, Hand, Alive
  <2>3. QED  BY <2>1, <2>2
<1>8. QED  BY <1>5, <1>6, <1>7

LEMMA MarkKeepsInv ==
    ASSUME Inv, NEW s \in Syncers, Mark(s)
    PROVE  Inv'
<1> USE DEF Inv
<1>1. /\ thread' \in [Syncers -> {"idle", "read", "filter", "connect", "open",
                               "setup", "execute", "commit", "rollback", "mark"}]
      /\ snap' \in [Syncers -> Snapshot \cup {None}]
      /\ mine' \in [Syncers -> Conns \cup {None}]
      /\ stmt' \in [Syncers -> Parts]
  BY PartsType DEF Mark, Goto, Finish, TypeOK
<1>2. conn' \in Conns \cup {None} /\ session' \in [Conns -> Sessions]
  BY FingerprintType, SessionsType DEF Mark, TypeOK, Sessions
<1>3. /\ written' \in Fingerprints \cup {None}
      /\ row' \in Rows
      /\ faults' \in 0 .. MaxFaults
  BY FingerprintType, FaultType DEF Mark, Store, memory, TypeOK, Sessions, Rows, HandInv, Hand
<1>4. nonempty' \in BOOLEAN
  BY DEF Mark, memory, TypeOK, HandInv, Hand, Snapshot, SnapshotsOf
<1>5. TypeOK'
  BY <1>1, <1>2, <1>3, <1>4, StepFrame DEF Step, source, TypeOK
<1>6. HandInv'
  BY NoneAssumption DEF Mark, Goto, Finish, TypeOK, HandInv, Hand, Refused
<1>7. PendingInv'
  BY FingerprintType, SessionsType DEF Mark, Goto, Finish, TypeOK, Sessions, HandInv, Hand,
     PendingInv, Ends, Alive, Failed
<1>8. QED  BY <1>5, <1>6, <1>7

-----------------------------------------------------------------------------
(* Inv is kept: faults and the end of the process *)

LEMMA LossKeepsInv ==
    ASSUME Inv, NEW c \in Conns, SessionLost(c)
    PROVE  Inv'
<1> USE DEF Inv
<1>1. /\ UNCHANGED <<source, inbox, listener, sync, conn, memory, row, process>>
      /\ session' = [session EXCEPT ![c] = NoSession]
      /\ faults' \in 0 .. MaxFaults
  BY FaultType DEF SessionLost
<1>2. TypeOK'
  BY <1>1, SessionsType DEF TypeOK, source, sync, memory
<1>3. HandInv'
  BY <1>1 DEF sync, HandInv, Hand
<1>4. PendingInv'
  BY <1>1, SessionsType DEF TypeOK, sync, PendingInv, Ends
<1>5. QED  BY <1>2, <1>3, <1>4

\* A cancelled task that waits for its read is idle; no other is touched.
LEMMA StopKeepsInv ==
    ASSUME Inv, StopPush \/ CloseWriter
    PROVE  Inv'
<1> USE DEF Inv
<1>1. /\ \A s \in Syncers : \/ thread'[s] = thread[s]
                            \/ thread[s] = "read" /\ thread'[s] = "idle"
      /\ thread' \in [Syncers -> {"idle", "read", "filter", "connect", "open",
                               "setup", "execute", "commit", "rollback", "mark"}]
  BY DEF StopPush, CloseWriter, Cancelled, TypeOK
<1>2. inbox' \in BOOLEAN
  BY DEF StopPush, CloseWriter, TypeOK
<1>3. faults' \in 0 .. MaxFaults
  BY FaultType DEF StopPush, CloseWriter, TypeOK
<1>4. /\ UNCHANGED <<source, snap, mine, stmt, memory, row>>
      /\ process' \in {"up", "stopping", "closing"}
      /\ listener' \in {"off", "sync", "listen", "pending", "backoff"}
      /\ conn' \in Conns \cup {None}
  BY DEF StopPush, CloseWriter, TypeOK
<1>5. /\ session' \in [Conns -> Sessions]
      /\ \A c \in Conns : session'[c] \in {session[c], NoSession}
  BY SessionsType DEF StopPush, CloseWriter, TypeOK
<1>6. TypeOK'
  BY <1>1, <1>2, <1>3, <1>4, <1>5 DEF TypeOK, source, memory
<1>7. HandInv'
  BY <1>1, <1>4 DEF HandInv, Hand
<1>8. PendingInv'
  BY <1>1, <1>4, <1>5, SessionsType DEF PendingInv, Ends
<1>9. QED  BY <1>6, <1>7, <1>8

LEMMA NewProcessKeepsInv ==
    ASSUME Inv, Exit \/ Crash
    PROVE  Inv'
<1> USE DEF Inv
<1>1. NewProcess
  BY DEF Exit, Crash
<1>2. inbox' \in BOOLEAN /\ nonempty' \in BOOLEAN
  BY <1>1 DEF NewProcess
<1>3. faults' \in 0 .. MaxFaults
  BY FaultType DEF Exit, Crash, TypeOK
<1>4. TypeOK'
  BY <1>1, <1>2, <1>3, SessionsType, PartsType DEF NewProcess, TypeOK, source
<1>5. HandInv'
  BY <1>1 DEF NewProcess, HandInv, Hand
<1>6. PendingInv'
  BY <1>1, SessionsType DEF NewProcess, PendingInv
<1>7. QED  BY <1>4, <1>5, <1>6

LEMMA NextKeepsInv == Inv /\ [Next]_vars => Inv'
<1> SUFFICES ASSUME Inv, [Next]_vars PROVE Inv'
  OBVIOUS
<1>1. CASE PublishNew \/ PublishSame \/ GatewayStops
  BY <1>1, PluginKeepsInv
<1>2. CASE \/ Subscribe \/ SyncReturns \/ Receive \/ SyncPending
           \/ ListenerFails \/ ForceSync
  BY <1>2, TasksKeepInv
<1>3. ASSUME NEW s \in Syncers, Step(s)
      PROVE  Inv'
  BY <1>3, ReadKeepsInv, FilterKeepsInv, ConnectKeepsInv, OpenKeepsInv,
     SetupKeepsInv, ExecuteKeepsInv, CommitKeepsInv, RollbackKeepsInv,
     MarkKeepsInv DEF Step
<1>4. CASE \E c \in Conns : SessionLost(c)
  BY <1>4, LossKeepsInv
<1>5. CASE StopPush \/ CloseWriter
  BY <1>5, StopKeepsInv
<1>6. CASE Exit \/ Crash
  BY <1>6, NewProcessKeepsInv
<1>7. CASE UNCHANGED vars
  BY <1>7 DEF vars, source, sync, memory, Inv, TypeOK, HandInv, Hand,
     PendingInv, Ends
<1>8. QED  BY <1>1, <1>2, <1>3, <1>4, <1>5, <1>6, <1>7 DEF Next

LEMMA InvCorrect == Spec => []Inv
BY InitInv, NextKeepsInv, PTL DEF Spec

\* The model stays in its types: in particular, a thread that opens a
\* connection always finds a name for it, and what is marked as written has a
\* NAV.
THEOREM TypeCorrect == Spec => []TypeOK
<1>1. Inv => TypeOK
  BY DEF Inv
<1>2. QED  BY <1>1, InvCorrect, PTL

\* No open transaction that holds rows is left behind by write() and the
\* shutdown, for any syncers, connections, faults and interleaving.
THEOREM NoOrphanCorrect == Spec => []NoOrphanTransaction
<1>1. Inv => NoOrphanTransaction
  <2> SUFFICES ASSUME Inv, NEW c \in Conns, session[c].alive,
                      session[c].pending # NoRows
               PROVE  \E s \in Syncers : mine[s] = c /\ Ends(s)
    BY DEF NoOrphanTransaction, Ends
  <2>1. session[c].pending \in Rows
    BY DEF Inv, TypeOK, Sessions
  <2>2. \E p \in Parts : session[c].pending[p] # None
    BY <2>1 DEF Rows, NoRows
  <2>3. QED  BY <2>2 DEF Inv, PendingInv
<1>2. QED  BY <1>1, InvCorrect, PTL

-----------------------------------------------------------------------------
(* One syncer: its order, its memory and its cache *)

InWrite(s) == thread[s] \notin {"idle", "read", "filter"}

\* With nobody else on the connection, what a statement has written stays in
\* the transaction until the COMMIT, which stores all the thread has in hand.
Own(s) ==
    thread[s] \in {"execute", "commit"} /\ session[mine[s]].alive
        => /\ thread[s] = "commit" => ~session[mine[s]].failed
           /\ \A p \in Parts :
                 thread[s] = "commit" \/ p < stmt[s]
                     => session[mine[s]].pending[p] = snap[s]

\* Before the cache is told, the tables hold what it is told.
Stored(s) == thread[s] = "mark" => \A p \in Parts : row[p] = snap[s]

\* What _refuse_reason found when it looked still holds during the write.
StillGood(s) ==
    InWrite(s) => (nonempty => snap[s].positions \/ snap[s].ok)

\* The tables are never ahead of what is in hand, nor that of the plugin.
Ordered(s) ==
    /\ \A p \in Parts : row[p] # None => row[p].version <= plugin.version
    /\ thread[s] \notin {"idle", "read"} =>
          /\ snap[s].version <= plugin.version
          /\ \A p \in Parts : row[p] # None => row[p].version <= snap[s].version

Alone(s) == Own(s) /\ Stored(s) /\ StillGood(s) /\ Ordered(s)
AloneInv == \A s \in Syncers : Alone(s)

LEMMA VersionType ==
    ASSUME NEW a \in Snapshot
    PROVE  a.version \in Nat
BY DEF Snapshot, SnapshotsOf

\* The tables change in a COMMIT of the syncer only, to what it has in hand.
RowCommits(s) ==
    /\ thread[s] = "commit" /\ session[mine[s]].alive
    /\ row' = [p \in Parts |-> snap[s]]
    /\ UNCHANGED <<plugin, snap, mine, nonempty>>
    /\ \A t \in Syncers : thread'[t] \in {"mark", "rollback"}

LEMMA RowChanges ==
    ASSUME OneSyncer, Inv, AloneInv, [Next]_vars, row' # row
    PROVE  \E s \in Syncers : Commit(s) /\ RowCommits(s)
<1>1. PICK s \in Syncers : Setup(s) \/ Commit(s)
  BY DEF Next, PublishNew, PublishSame, Publish, GatewayStops, Subscribe,
         SyncReturns, Receive, SyncPending, ListenerFails, ForceSync, Step, Read,
         Filter, Connect, Open, Execute, Rollback, Mark, SessionLost, StopPush,
         CloseWriter, Exit, Crash, NewProcess, vars
<1>2. CASE Setup(s)
  <2>1. /\ thread[s] = "setup" /\ conn \in Conns
        /\ session[conn].alive /\ Store(conn)
    BY <1>2 DEF Setup, Inv, TypeOK
  <2>2. PICK p \in Parts : session[conn].pending[p] # None
    <3>1. row = [p \in Parts |-> row[p]]
      BY DEF Inv, TypeOK, Rows
    <3>2. QED  BY <2>1, <3>1 DEF Store
  <2>5. PICK t \in Syncers : Ends(t)
    BY <2>1, <2>2 DEF Inv, PendingInv
  <2>3. t = s
    BY DEF OneSyncer
  <2>4. QED  BY <2>1, <2>5, <2>3 DEF Ends
<1>3. CASE Commit(s)
  <2>1. /\ thread[s] = "commit" /\ session[mine[s]].alive
        /\ Store(mine[s])
        /\ UNCHANGED <<plugin, snap, mine, nonempty>>
        /\ Goto(s, "mark") \/ Goto(s, "rollback")
    BY <1>3 DEF Commit, Alive, source, memory
  <2>2. row' = [p \in Parts |-> snap[s]]
    <3>1. snap[s] # None
      BY <2>1, NoneAssumption DEF Inv, HandInv, Hand
    <3>2. \A p \in Parts : session[mine[s]].pending[p] = snap[s]
      BY <2>1 DEF AloneInv, Alone, Own
    <3>3. ~session[mine[s]].failed
      BY <2>1 DEF AloneInv, Alone, Own
    <3>4. QED  BY <2>1, <3>1, <3>2, <3>3 DEF Store
  <2>3. \A t \in Syncers : thread'[t] \in {"mark", "rollback"}
    BY <2>1 DEF OneSyncer, Goto, Inv, TypeOK
  <2>4. QED  BY <1>3, <2>1, <2>2, <2>3 DEF RowCommits
<1>4. QED  BY <1>1, <1>2, <1>3

\* The syncer's own step, where it does not write the tables.
LEMMA StepKeepsAlone ==
    ASSUME OneSyncer, Inv, AloneInv, NEW s \in Syncers, Step(s), row' = row,
           plugin' = plugin
    PROVE  Alone(s)'
<1> USE DEF Inv
<1>1. Own(s)'
  <2>1. CASE Connect(s) \/ Setup(s)
    <3>1. thread'[s] # "commit" /\ stmt'[s] = 1
      BY <2>1 DEF Connect, Setup, Goto, Finish, TypeOK
    <3>2. \A p \in Parts : ~(p < 1)
      BY StatementsAssumption DEF Parts
    <3>3. QED  BY <3>1, <3>2 DEF Own
  <2>2. CASE Execute(s)
    <3>1. mine[s] \in Conns /\ mine' = mine /\ snap' = snap /\ thread[s] = "execute"
      BY <2>2 DEF Execute, HandInv, Hand
    <3>2. CASE /\ ~Failed(s)
               /\ session' = [session EXCEPT ![mine[s]].pending[stmt[s]] = snap[s]]
               /\ IF stmt[s] = Statements
                    THEN Goto(s, "commit")
                    ELSE stmt' = [stmt EXCEPT ![s] = @ + 1] /\ UNCHANGED thread
      <4> DEFINE old == session[mine[s]]
                 new == session'[mine[s]]
      <4>1. old \in Sessions /\ stmt[s] \in Parts
        BY <3>1 DEF TypeOK
      <4>2. /\ new.alive = old.alive /\ new.failed = old.failed
            /\ new.pending = [old.pending EXCEPT ![stmt[s]] = snap[s]]
        BY <3>1, <3>2, <4>1 DEF TypeOK, Sessions
      <4>3. ASSUME new.alive,
                   NEW p \in Parts, thread'[s] = "commit" \/ p < stmt'[s]
            PROVE  new.pending[p] = snap[s]
        <5>1. p = stmt[s] \/ p < stmt[s]
          BY <3>1, <3>2, <4>1, <4>3, StatementsAssumption DEF Goto, TypeOK, Parts
        <5>2. p < stmt[s] => old.pending[p] = snap[s]
          BY <3>1, <4>2, <4>3 DEF AloneInv, Alone, Own
        <5>3. QED  BY <4>1, <4>2, <5>1, <5>2 DEF Sessions, Rows
      <4>4. QED  BY <3>1, <3>2, <4>2, <4>3 DEF Own, Failed
    <3>3. CASE Goto(s, "rollback")
      BY <3>3 DEF Goto, Own, TypeOK
    <3>4. QED  BY <2>2, <3>2, <3>3 DEF Execute
  <2>3. CASE ~Connect(s) /\ ~Setup(s) /\ ~Execute(s)
    <3>1. thread'[s] \notin {"execute", "commit"}
      BY <2>3 DEF Step, Read, Filter, Open, Commit, Rollback, Mark, Goto, Finish,
         TypeOK
    <3>2. QED  BY <3>1 DEF Own
  <2>4. QED  BY <2>1, <2>2, <2>3
<1>2. Stored(s)'
  <2>1. CASE thread[s] = "commit" /\ thread'[s] = "mark"
    <3>1. Commit(s)
      BY <2>1 DEF Step, Read, Filter, Connect, Open, Setup, Execute, Rollback, Mark
    <3>2. Store(mine[s]) /\ UNCHANGED snap /\ session[mine[s]].alive
      BY <2>1, <3>1 DEF Commit, Goto, Alive, TypeOK
    <3>3. snap[s] # None
      BY <2>1, NoneAssumption DEF HandInv, Hand
    <3>4. \A p \in Parts : session[mine[s]].pending[p] = snap[s]
      BY <2>1, <3>2 DEF AloneInv, Alone, Own
    <3>5. ~session[mine[s]].failed
      BY <2>1, <3>2 DEF AloneInv, Alone, Own
    <3>6. QED  BY <3>2, <3>3, <3>4, <3>5 DEF Store, Stored
  <2>2. CASE ~(thread[s] = "commit" /\ thread'[s] = "mark")
    <3>1. thread'[s] # "mark"
      BY <2>2 DEF Step, Read, Filter, Connect, Open, Setup, Execute, Commit,
         Rollback, Mark, Goto, Finish, TypeOK
    <3>2. QED  BY <3>1 DEF Stored
  <2>3. QED  BY <2>1, <2>2
<1>3. StillGood(s)'
  BY DEF Step, Read, Filter, Connect, Open, Setup, Execute, Commit, Rollback, Mark,
     Goto, Finish, Refused, memory, StillGood, InWrite, AloneInv, Alone, TypeOK
<1>4. Ordered(s)'
  <2>1. CASE thread[s] = "read"
    <3>1. \/ thread'[s] = "idle"
          \/ thread'[s] = "filter" /\ snap'[s] = plugin
      BY <2>1 DEF Step, Read, Filter, Connect, Open, Setup, Execute, Commit,
         Rollback, Mark, Goto, Finish, TypeOK
    <3>2. plugin.version \in Nat
      BY VersionType DEF TypeOK
    <3>3. QED  BY <3>1, <3>2 DEF Ordered, AloneInv, Alone
  <2>2. CASE thread[s] # "read"
    <3>1. \/ thread'[s] = "idle"
          \/ thread[s] # "idle" /\ snap'[s] = snap[s]
      BY <2>2 DEF Step, Read, Filter, Connect, Open, Setup, Execute, Commit,
         Rollback, Mark, Goto, Finish, TypeOK
    <3>2. QED  BY <2>2, <3>1 DEF Ordered, AloneInv, Alone
  <2>3. QED  BY <2>1, <2>2
<1>5. QED  BY <1>1, <1>2, <1>3, <1>4 DEF Alone

\* The steps of everything else: a thread may begin or be cancelled before its
\* write, a session may be lost, the plugin goes forward, the process restarts.
Elsewhere ==
    /\ row' = row
    /\ plugin'.version >= plugin.version
    /\ \/ /\ UNCHANGED <<snap, mine, stmt, nonempty>>
          /\ \A s \in Syncers :
                \/ thread'[s] = thread[s]
                \/ thread'[s] \in {"idle", "read"}
          /\ \A c \in Conns : session'[c] \in {session[c], NoSession}
       \/ \A s \in Syncers : thread'[s] = "idle"

LEMMA ElsewhereKeepsAlone ==
    ASSUME Inv, Inv', AloneInv, Elsewhere
    PROVE  AloneInv'
<1> SUFFICES ASSUME NEW s \in Syncers PROVE Alone(s)'
  BY DEF AloneInv
<1> USE DEF Inv
<1>1. Own(s)'
  BY SessionsType DEF Elsewhere, Own, AloneInv, Alone, HandInv, Hand
<1>2. Stored(s)' /\ StillGood(s)'
  BY DEF Elsewhere, Stored, StillGood, InWrite, AloneInv, Alone
<1>3. Ordered(s)'
  <2>1. plugin.version \in Nat /\ plugin'.version \in Nat
    BY VersionType DEF TypeOK
  <2>2. \A p \in Parts : row[p] # None => row[p].version \in Nat
    BY VersionType DEF TypeOK, Rows
  <2>3. thread[s] \notin {"idle", "read"} => snap[s].version \in Nat
    BY VersionType DEF HandInv, Hand
  <2>4. QED  BY <2>1, <2>2, <2>3 DEF Elsewhere, Ordered, AloneInv, Alone
<1>4. QED  BY <1>1, <1>2, <1>3 DEF Alone

LEMMA OthersAreElsewhere ==
    ASSUME Inv, Next, \A s \in Syncers : ~Step(s)
    PROVE  Elsewhere
<1> USE DEF Inv
<1>1. plugin.version \in Nat
  BY VersionType DEF TypeOK
<1>2. CASE PublishNew \/ PublishSame \/ GatewayStops
  <2>1. UNCHANGED <<row, snap, mine, stmt, nonempty, thread, session>>
    BY <1>2 DEF PublishNew, PublishSame, Publish, GatewayStops, sync, memory
  <2>2. plugin'.version >= plugin.version
    <3>1. CASE PublishNew
      <4>1. plugin'.version = plugin.version + 1
        BY <3>1 DEF PublishNew, Publish, SnapshotsOf
      <4>2. QED  BY <1>1, <4>1
    <3>2. CASE PublishSame \/ GatewayStops
      BY <1>1, <3>2 DEF PublishSame, Publish, GatewayStops
    <3>3. QED  BY <1>2, <3>1, <3>2
  <2>3. QED  BY <2>1, <2>2 DEF Elsewhere
<1>3. CASE \/ Subscribe \/ SyncReturns \/ Receive \/ SyncPending
           \/ ListenerFails \/ ForceSync \/ StopPush \/ CloseWriter
           \/ \E c \in Conns : SessionLost(c)
  <2>1. UNCHANGED <<row, plugin, snap, mine, stmt, nonempty>>
    BY <1>3 DEF Subscribe, SyncReturns, Receive, SyncPending, ListenerFails,
       ForceSync, Begin, StopPush, CloseWriter, SessionLost, source, sync, memory
  <2>2. \A s \in Syncers : \/ thread'[s] = thread[s]
                           \/ thread'[s] \in {"idle", "read"}
    BY <1>3 DEF Subscribe, SyncReturns, Receive, SyncPending, ListenerFails,
       ForceSync, Begin, StopPush, CloseWriter, Cancelled, SessionLost, sync, TypeOK
  <2>3. \A c \in Conns : session'[c] \in {session[c], NoSession}
    BY <1>3 DEF Subscribe, SyncReturns, Receive, SyncPending, ListenerFails,
       ForceSync, StopPush, CloseWriter, SessionLost, TypeOK
  <2>4. QED  BY <1>1, <2>1, <2>2, <2>3 DEF Elsewhere
<1>4. CASE Exit \/ Crash
  BY <1>1, <1>4 DEF Exit, Crash, NewProcess, source, Elsewhere
<1>5. QED  BY <1>2, <1>3, <1>4 DEF Next

LEMMA InitAlone == Init => AloneInv
BY DEF Init, NoRows, AloneInv, Alone, Own, Stored, StillGood, InWrite, Ordered

LEMMA NextKeepsAlone ==
    OneSyncer /\ Inv /\ Inv' /\ AloneInv /\ [Next]_vars => AloneInv'
<1> SUFFICES ASSUME OneSyncer, Inv, Inv', AloneInv, [Next]_vars
             PROVE  AloneInv'
  OBVIOUS
<1>1. CASE row' # row
  <2>1. PICK s \in Syncers : RowCommits(s)
    BY <1>1, RowChanges
  <2>2. snap[s] \in Snapshot /\ plugin \in Snapshot
    BY <2>1 DEF RowCommits, Inv, HandInv, Hand, TypeOK
  <2>3. snap[s].version <= plugin.version
    BY <2>1 DEF RowCommits, AloneInv, Alone, Ordered
  <2>4. Own(s)' /\ Stored(s)'
    BY <2>1 DEF RowCommits, Own, Stored
  <2>5. StillGood(s)'
    BY <2>1 DEF RowCommits, StillGood, InWrite, AloneInv, Alone
  <2>6. Ordered(s)'
    BY <2>1, <2>2, <2>3, VersionType DEF RowCommits, Ordered
  <2>7. QED  BY <2>4, <2>5, <2>6 DEF AloneInv, Alone, OneSyncer
<1>2. ASSUME row' = row, NEW s \in Syncers, Step(s)
      PROVE  AloneInv'
  <2>1. plugin' = plugin
    BY <1>2, StepFrame DEF source
  <2>2. Alone(s)'
    BY <1>2, <2>1, StepKeepsAlone
  <2>3. QED  BY <2>2 DEF AloneInv, OneSyncer
<1>3. CASE Next /\ \A s \in Syncers : ~Step(s)
  BY <1>3, OthersAreElsewhere, ElsewhereKeepsAlone
<1>4. CASE UNCHANGED vars
  BY <1>4 DEF vars, source, sync, memory, AloneInv, Alone, Own, Stored, StillGood,
     InWrite, Ordered
<1>5. QED  BY <1>1, <1>2, <1>3, <1>4

LEMMA AloneCorrect == ASSUME OneSyncer PROVE Spec => []AloneInv
BY InitAlone, NextKeepsAlone, InvCorrect, PTL DEF Spec

\* One syncer never takes the tables back to an older snapshot, for any faults,
\* crashes and restarts.
THEOREM OrderCorrect == ASSUME OneSyncer PROVE Spec => NoStaleOverwrite
<1>1. Inv /\ AloneInv /\ [Next]_vars
        => [\A p \in Parts :
              row[p] # None => row'[p] # None /\ row'[p].version >= row[p].version]_vars
  <2> SUFFICES ASSUME Inv, AloneInv, [Next]_vars, NEW p \in Parts, row[p] # None
               PROVE  row'[p] # None /\ row'[p].version >= row[p].version
    OBVIOUS
  <2>1. row[p].version \in Nat
    BY VersionType DEF Inv, TypeOK, Rows
  <2>2. CASE row' = row
    BY <2>1, <2>2
  <2>3. CASE row' # row
    <3>1. PICK s \in Syncers : RowCommits(s)
      BY <2>3, RowChanges
    <3>2. row'[p] = snap[s] /\ snap[s] \in Snapshot
      BY <3>1 DEF RowCommits, Inv, HandInv, Hand
    <3>3. row[p].version <= snap[s].version
      BY <3>1 DEF RowCommits, AloneInv, Alone, Ordered
    <3>4. QED  BY <2>1, <3>2, <3>3, VersionType, NoneAssumption
  <2>4. QED  BY <2>2, <2>3
<1>2. QED  BY <1>1, InvCorrect, AloneCorrect, PTL DEF Spec, NoStaleOverwrite

\* Once one syncer's process has stored positions, no sequence of degraded
\* reads and failed writes makes it store a flat book.
THEOREM FlatCorrect == ASSUME OneSyncer PROVE Spec => FlatNeedsGoodRead
<1>1. Inv /\ AloneInv /\ [Next]_vars
        => [\A p \in Parts :
              nonempty /\ row'[p] # row[p] => row'[p].positions \/ row'[p].ok]_vars
  <2> SUFFICES ASSUME Inv, AloneInv, [Next]_vars, NEW p \in Parts, nonempty,
                      row'[p] # row[p]
               PROVE  row'[p].positions \/ row'[p].ok
    OBVIOUS
  <2>1. PICK s \in Syncers : RowCommits(s)
    BY RowChanges
  <2>2. QED  BY <2>1 DEF RowCommits, AloneInv, Alone, StillGood, InWrite
<1>2. QED  BY <1>1, InvCorrect, AloneCorrect, PTL DEF Spec, FlatNeedsGoodRead

\* If no answer to a COMMIT is lost, the cache of one syncer tells the truth.
THEOREM CacheCorrect ==
    ASSUME OneSyncer, "ack" \notin Faults
    PROVE  Spec => []WrittenIsStored
<1>1. Init => WrittenIsStored
  BY DEF Init, WrittenIsStored
<1>2. Inv /\ AloneInv /\ WrittenIsStored /\ [Next]_vars => WrittenIsStored'
  <2> SUFFICES ASSUME Inv, AloneInv, WrittenIsStored, [Next]_vars
               PROVE  WrittenIsStored'
    OBVIOUS
  <2>1. CASE row' # row
    <3>1. PICK s \in Syncers : Commit(s) /\ row' # row
      BY <2>1, RowChanges
    <3>2. thread'[s] = "mark"
      BY <3>1 DEF Commit, Fault, Goto, Inv, TypeOK
    <3>3. QED  BY <3>2 DEF WrittenIsStored
  <2>2. ASSUME row' = row, NEW s \in Syncers, Mark(s)
        PROVE  WrittenIsStored'
    <3>1. (\A p \in Parts : row[p] = snap[s]) /\ snap[s] \in Snapshot
      BY <2>2 DEF Mark, AloneInv, Alone, Stored, Inv, HandInv, Hand
    <3>2. written' = Fingerprint(snap[s])
      BY <2>2 DEF Mark
    <3>3. QED  BY <2>2, <3>1, <3>2, NoneAssumption DEF WrittenIsStored, Fingerprint
  <2>3. CASE row' = row /\ (Exit \/ Crash)
    BY <2>3 DEF Exit, Crash, NewProcess, WrittenIsStored
  <2>4. CASE /\ row' = row /\ ~(Exit \/ Crash)
             /\ \A s \in Syncers : ~Mark(s)
    <3>1. written' = written
      BY <2>4 DEF Next, PublishNew, PublishSame, Publish, GatewayStops, Subscribe,
         SyncReturns, Receive, SyncPending, ListenerFails, ForceSync, Step, Read,
         Filter, Connect, Open, Setup, Execute, Commit, Rollback, SessionLost,
         StopPush, CloseWriter, vars, memory
    <3>2. (\A s \in Syncers : thread'[s] # "mark")
            => \A s \in Syncers : thread[s] # "mark"
      BY <2>4 DEF Next, PublishNew, PublishSame, Publish, GatewayStops, Subscribe,
         SyncReturns, Receive, SyncPending, ListenerFails, ForceSync, Begin, Step,
         Read, Filter, Connect, Open, Setup, Execute, Commit, Rollback,
         SessionLost, StopPush, CloseWriter, Cancelled, Goto, Finish, vars, sync,
         OneSyncer, Inv, TypeOK
    <3>3. QED  BY <2>4, <3>1, <3>2 DEF WrittenIsStored, Fingerprint
  <2>5. QED  BY <2>1, <2>2, <2>3, <2>4
<1>3. QED  BY <1>1, <1>2, InvCorrect, AloneCorrect, PTL DEF Spec

-----------------------------------------------------------------------------
(* AccountPush implements AccountCopy *)

Hands == [s \in Syncers |-> InHand(s)]
CopyVars == <<plugin, Hands, row>>
CopyStep == Copy!Next \/ UNCHANGED CopyVars

\* A step that leaves the plugin, the tables and what is in hand alone.
LEMMA HandsKept ==
    ASSUME UNCHANGED <<plugin, row>>,
           \A s \in Syncers : InHand(s)' = InHand(s)
    PROVE  CopyStep
BY DEF CopyStep, CopyVars, Hands

\* A step that drops what the tasks of S have in hand.
LEMMA HandsDropped ==
    ASSUME NEW S \in SUBSET Syncers,
           UNCHANGED <<plugin, row>>,
           \A s \in Syncers : InHand(s)' = IF s \in S THEN None ELSE InHand(s)
    PROVE  CopyStep
<1>1. Hands' = [s \in Syncers |-> IF s \in S THEN None ELSE Hands[s]]
  BY DEF Hands
<1>2. Copy!Drop(S)
  BY <1>1 DEF Copy!Drop, Hands
<1>3. QED  BY <1>2 DEF CopyStep, Copy!Next

\* Finish is such a step.
LEMMA FinishDrops ==
    ASSUME TypeOK, NEW s \in Syncers, Finish(s), UNCHANGED <<plugin, row>>
    PROVE  CopyStep
<1>1. \A t \in Syncers : InHand(t)' = IF t \in {s} THEN None ELSE InHand(t)
  BY DEF Finish, Goto, InHand, TypeOK
<1>2. QED  BY <1>1, HandsDropped

\* A COMMIT on c, by whichever thread, stores parts of what some threads have in
\* hand: those whose statements are in the transaction.
LEMMA StoreCopies ==
    ASSUME ~OneSyncer, Inv, NEW c \in Conns, session[c].alive, Store(c),
           UNCHANGED plugin, \A s \in Syncers : InHand(s)' = InHand(s)
    PROVE  CopyStep
<1>1. UNCHANGED Hands
  BY DEF Hands
<1>2. row' \in Rows
  BY DEF Store, Inv, TypeOK, Rows, Sessions
<1>3. ASSUME NEW p \in Parts, row'[p] # row[p]
      PROVE  \E s \in Syncers : Copy!Storable(s) /\ row'[p] = Hands[s]
  <2>1. row'[p] = session[c].pending[p] /\ session[c].pending[p] # None
    BY <1>3 DEF Store
  <2>2. PICK s \in Syncers : Ends(s) /\ snap[s] = session[c].pending[p]
    BY <2>1 DEF Inv, PendingInv
  <2>3. Hands[s] = snap[s] /\ snap[s].summary # NoNav
    BY <2>2 DEF Hands, InHand, Ends, Inv, HandInv, Hand
  <2>4. QED  BY <2>1, <2>2, <2>3 DEF Copy!Storable, Hands
<1>4. Copy!StoreParts
  BY <1>1, <1>2, <1>3 DEF Copy!StoreParts, Copy!Storable, Hands, Rows
<1>5. QED  BY <1>4 DEF CopyStep, Copy!Next

\* The COMMIT of the only syncer stores all of what it has in hand.
LEMMA WholeCopies ==
    ASSUME OneSyncer, Inv, NEW s \in Syncers, RowCommits(s)
    PROVE  CopyStep
<1>1. \A t \in Syncers : InHand(t)' = InHand(t)
  BY DEF OneSyncer, RowCommits, InHand
<1>2. UNCHANGED Hands
  BY <1>1 DEF Hands
<1>3. Hands[s] = snap[s] /\ snap[s].summary # NoNav /\ snap[s] # None
  BY NoneAssumption DEF RowCommits, Hands, InHand, Inv, HandInv, Hand
<1>4. Copy!StoreWhole(s)
  BY <1>2, <1>3 DEF RowCommits, Copy!StoreWhole, Copy!Storable, Hands
<1>5. QED  BY <1>4 DEF CopyStep, Copy!Next

LEMMA ReadCopies ==
    ASSUME Inv, NEW s \in Syncers, Read(s)
    PROVE  CopyStep
<1>1. UNCHANGED <<plugin, row>> /\ thread[s] = "read"
  BY DEF Read, source
<1>2. CASE snap' = [snap EXCEPT ![s] = plugin] /\ Goto(s, "filter")
  <2>1. Hands' = [Hands EXCEPT ![s] = plugin] /\ Hands[s] = None
    BY <1>1, <1>2 DEF Hands, InHand, Goto, Inv, TypeOK
  <2>2. Copy!Take(s)
    BY <1>1, <2>1 DEF Copy!Take, Hands
  <2>3. QED  BY <2>2 DEF CopyStep, Copy!Next
<1>3. CASE Finish(s)
  BY <1>1, <1>3, FinishDrops DEF Inv
<1>4. QED  BY <1>2, <1>3 DEF Read

\* The other steps of a thread but those that commit.
LEMMA StepCopies ==
    ASSUME Inv, NEW s \in Syncers,
           \/ Filter(s) \/ Connect(s) \/ Open(s) \/ Execute(s) \/ Rollback(s)
           \/ Mark(s)
    PROVE  CopyStep
<1>1. UNCHANGED <<plugin, row>>
  BY DEF Filter, Connect, Open, Execute, Rollback, Mark, source
<1>2. CASE Finish(s)
  BY <1>1, <1>2, FinishDrops DEF Inv
<1>3. CASE ~Finish(s)
  <2>1. \A t \in Syncers : InHand(t)' = InHand(t)
    BY <1>3 DEF Filter, Connect, Open, Execute, Rollback, Mark, Goto, InHand,
                Inv, TypeOK
  <2>2. QED  BY <1>1, <2>1, HandsKept
<1>4. QED  BY <1>2, <1>3

LEMMA SetupCopies ==
    ASSUME Inv, NEW s \in Syncers, Setup(s), ~OneSyncer \/ UNCHANGED row
    PROVE  CopyStep
<1>1. UNCHANGED plugin /\ thread[s] = "setup"
  BY DEF Setup, source
<1>2. CASE Finish(s) /\ UNCHANGED row
  BY <1>1, <1>2, FinishDrops DEF Inv
<1>3. CASE /\ conn # None /\ session[conn].alive
           /\ Store(conn) /\ Goto(s, "execute") /\ UNCHANGED snap
  <2>1. \A t \in Syncers : InHand(t)' = InHand(t)
    BY <1>1, <1>3 DEF Goto, InHand, Inv, TypeOK
  <2>2. conn \in Conns
    BY <1>3 DEF Inv, TypeOK
  <2>3. QED  BY <1>1, <1>3, <2>1, <2>2, StoreCopies, HandsKept
<1>4. QED  BY <1>2, <1>3 DEF Setup

LEMMA CommitCopies ==
    ASSUME Inv, NEW s \in Syncers, Commit(s), ~OneSyncer \/ UNCHANGED row
    PROVE  CopyStep
<1>1. UNCHANGED <<plugin, snap>> /\ thread[s] = "commit" /\ mine[s] \in Conns
  BY DEF Commit, source, Inv, HandInv, Hand
<1>2. \A t \in Syncers : InHand(t)' = InHand(t)
  BY <1>1 DEF Commit, Goto, InHand, Inv, TypeOK
<1>3. CASE UNCHANGED row
  BY <1>1, <1>2, <1>3, HandsKept
<1>4. CASE ~OneSyncer /\ session[mine[s]].alive /\ Store(mine[s])
  BY <1>1, <1>2, <1>4, StoreCopies
<1>5. QED  BY <1>3, <1>4 DEF Commit, Alive

LEMMA PluginCopies ==
    ASSUME Inv, PublishNew \/ PublishSame \/ GatewayStops
    PROVE  CopyStep
<1>1. UNCHANGED <<row, Hands>>
  BY DEF PublishNew, PublishSame, Publish, GatewayStops, sync, Hands, InHand
<1>2. CASE PublishNew
  <2>1. PICK a \in SnapshotsOf({plugin.version + 1}) : plugin' = a
    BY <1>2 DEF PublishNew, Publish
  <2>2. plugin.version \in Nat /\ plugin'.version = plugin.version + 1
    BY <2>1 DEF SnapshotsOf, Inv, TypeOK, Snapshot
  <2>3. plugin' \in Snapshot
    BY <2>1, <2>2, SnapshotsType
  <2>4. plugin'.version > plugin.version
    BY <2>2
  <2>5. Copy!Publish
    BY <1>1, <2>3, <2>4 DEF Copy!Publish, Hands
  <2>6. QED  BY <2>5 DEF CopyStep, Copy!Next
<1>3. CASE PublishSame \/ GatewayStops
  BY <1>1, <1>3 DEF PublishSame, Publish, GatewayStops, CopyStep, CopyVars
<1>4. QED  BY <1>2, <1>3

\* Tasks that begin, are cancelled before their write, or are not touched.
LEMMA TasksCopy ==
    ASSUME Inv,
           \/ Subscribe \/ SyncReturns \/ Receive \/ SyncPending
           \/ ListenerFails \/ ForceSync \/ StopPush \/ CloseWriter
           \/ \E c \in Conns : SessionLost(c)
    PROVE  CopyStep
<1>1. UNCHANGED <<plugin, row, snap>>
  BY DEF Subscribe, SyncReturns, Receive, SyncPending, ListenerFails, ForceSync,
         Begin, StopPush, CloseWriter, SessionLost, source, sync
<1>2. \A s \in Syncers : \/ thread'[s] = thread[s]
                         \/ {thread[s], thread'[s]} \subseteq {"idle", "read"}
  BY DEF Subscribe, SyncReturns, Receive, SyncPending, ListenerFails, ForceSync,
         Begin, StopPush, CloseWriter, Cancelled, SessionLost, sync, Inv, TypeOK
<1>3. \A s \in Syncers : InHand(s)' = InHand(s)
  BY <1>1, <1>2 DEF InHand
<1>4. QED  BY <1>1, <1>3, HandsKept

LEMMA NewProcessCopies ==
    ASSUME Inv, Exit \/ Crash
    PROVE  CopyStep
<1>1. NewProcess
  BY DEF Exit, Crash
<1>2. \A s \in Syncers : InHand(s)' = IF s \in Syncers THEN None ELSE InHand(s)
  BY <1>1 DEF NewProcess, InHand
<1>3. UNCHANGED <<plugin, row>>
  BY <1>1 DEF NewProcess, source
<1>4. QED  BY <1>2, <1>3, HandsDropped

LEMMA NextCopies == Inv /\ (OneSyncer => AloneInv) /\ [Next]_vars => CopyStep
<1> SUFFICES ASSUME Inv, OneSyncer => AloneInv, [Next]_vars PROVE CopyStep
  OBVIOUS
<1>0. CASE OneSyncer /\ row' # row
  BY <1>0, RowChanges, WholeCopies
<1>1. CASE PublishNew \/ PublishSame \/ GatewayStops
  BY <1>1, PluginCopies
<1>2. ASSUME ~OneSyncer \/ UNCHANGED row, NEW s \in Syncers, Step(s)
      PROVE  CopyStep
  BY <1>2, ReadCopies, StepCopies, SetupCopies, CommitCopies DEF Step
<1>3. CASE \/ Subscribe \/ SyncReturns \/ Receive \/ SyncPending
           \/ ListenerFails \/ ForceSync \/ StopPush \/ CloseWriter
           \/ \E c \in Conns : SessionLost(c)
  BY <1>3, TasksCopy
<1>4. CASE Exit \/ Crash
  BY <1>4, NewProcessCopies
<1>5. CASE UNCHANGED vars
  BY <1>5 DEF vars, source, sync, CopyStep, CopyVars, Hands, InHand
<1>6. QED  BY <1>0, <1>1, <1>2, <1>3, <1>4, <1>5 DEF Next

\* Every part of the tables is that of one published snapshot with a NAV which
\* some task has in hand, whatever two threads do with one connection and
\* whatever is lost; and with one task all parts are of one snapshot and change
\* in one step, however many statements write them: account_push.py implements
\* AccountCopy.
THEOREM ImplementsCopy == Spec => CopySpec
<1>1. Init => Copy!Init
  <2>1. Init => Hands = [s \in Syncers |-> None]
    BY DEF Init, Hands, InHand
  <2>2. Init => plugin \in Snapshot /\ row = [p \in Parts |-> None]
    BY DEF Init, SnapshotsOf, Snapshot, NoRows
  <2>3. QED  BY <2>1, <2>2 DEF Copy!Init, Hands
<1>2. Inv /\ (OneSyncer => AloneInv) /\ [Next]_vars => [Copy!Next]_CopyVars
  BY NextCopies DEF CopyStep
<1>3. CASE OneSyncer
  BY <1>1, <1>2, <1>3, InvCorrect, AloneCorrect, PTL
     DEF Spec, CopySpec, Copy!Spec, CopyVars, Hands
<1>4. CASE ~OneSyncer
  BY <1>1, <1>2, <1>4, InvCorrect, PTL
     DEF Spec, CopySpec, Copy!Spec, CopyVars, Hands
<1>5. QED  BY <1>3, <1>4

-----------------------------------------------------------------------------
(* No announcement is lost, whatever else syncs and fails *)

\* The listener listens between its syncs only; and what its sync has in hand is
\* what is published, unless another sync is owed.
WakeInv ==
    "push" \in Syncers =>
        /\ listener = "listen" => thread["push"] = "idle"
        /\ thread["push"] \notin {"idle", "read"} => Owed \/ snap["push"] = plugin

\* What NoLostWakeUp says of a step.
Heard ==
    /\ plugin' # plugin => Owed'
    /\ Owed => Owed' \/ Reads
    /\ EndsWell => Owed' \/ Current'

LEMMA InitWake == Init => WakeInv
BY DEF Init, WakeInv

LEMMA PluginIsHeard ==
    ASSUME "push" \in Syncers, Inv, WakeInv,
           PublishNew \/ PublishSame \/ GatewayStops
    PROVE  WakeInv' /\ Heard
<1>1. UNCHANGED <<listener, thread, snap>>
  BY DEF PublishNew, PublishSame, Publish, GatewayStops, sync
<1>2. CASE PublishNew \/ PublishSame
  <2>1. inbox' = Subscribed
    BY <1>2 DEF PublishNew, PublishSame, Publish
  <2>2. listener \in {"off", "sync", "listen", "pending", "backoff"}
    BY DEF Inv, TypeOK
  <2>3. Owed'
    BY <1>1, <2>1, <2>2 DEF Subscribed, Owed
  <2>4. QED  BY <1>1, <2>3 DEF WakeInv, Heard, EndsWell
<1>3. CASE GatewayStops
  <2>1. UNCHANGED <<plugin, inbox>>  BY <1>3 DEF GatewayStops
  <2>2. QED  BY <1>1, <2>1 DEF WakeInv, Heard, EndsWell, Owed
<1>4. QED  BY <1>2, <1>3

LEMMA ListenerIsHeard ==
    ASSUME "push" \in Syncers, Inv, WakeInv,
           \/ Subscribe \/ SyncReturns \/ Receive \/ SyncPending
           \/ ListenerFails \/ ForceSync
    PROVE  WakeInv' /\ Heard
<1> USE DEF Inv
<1>1. UNCHANGED <<plugin, snap>>
  BY DEF Subscribe, SyncReturns, Receive, SyncPending, ListenerFails, ForceSync,
         Begin, source, sync
<1>2. CASE Subscribe \/ SyncPending
  <2>1. listener' = "sync" /\ thread'["push"] = "read" /\ thread["push"] = "idle"
    BY <1>2 DEF Subscribe, SyncPending, Begin, TypeOK
  <2>2. QED  BY <1>1, <2>1 DEF WakeInv, Heard, EndsWell, Owed
<1>3. CASE SyncReturns
  <2>1. /\ listener = "sync" /\ listener' = "listen" /\ inbox' = inbox
        /\ thread["push"] = "idle" /\ thread'["push"] = "idle"
    BY <1>3 DEF SyncReturns, sync
  <2>2. QED  BY <1>1, <2>1 DEF WakeInv, Heard, EndsWell, Owed
<1>4. CASE Receive \/ ListenerFails
  <2>1. listener' \in {"pending", "backoff"} /\ thread'["push"] = thread["push"]
    BY <1>4 DEF Receive, ListenerFails, sync
  <2>2. QED  BY <1>1, <2>1 DEF WakeInv, Heard, EndsWell, Owed
<1>5. CASE ForceSync
  <2>1. UNCHANGED <<listener, inbox>> /\ thread'["push"] = thread["push"]
    BY <1>5 DEF ForceSync, Begin, TypeOK
  <2>2. QED  BY <1>1, <2>1 DEF WakeInv, Heard, EndsWell, Owed
<1>6. QED  BY <1>2, <1>3, <1>4, <1>5

\* The heartbeat's sync touches nothing of the listener's.
LEMMA ForcedIsHeard ==
    ASSUME "push" \in Syncers, Inv, WakeInv, NEW s \in Syncers \ {"push"}, Step(s)
    PROVE  WakeInv' /\ Heard
<1>1. UNCHANGED <<plugin, inbox, listener>>
  BY StepFrame DEF source
<1>2. thread'["push"] = thread["push"] /\ snap'["push"] = snap["push"]
  BY DEF Step, Read, Filter, Connect, Open, Setup, Execute, Commit, Rollback, Mark,
         Goto, Finish, Inv, TypeOK
<1>3. QED  BY <1>1, <1>2 DEF WakeInv, Heard, EndsWell, Owed

\* Its own sync: what the filter drops or the mark records is current, or a
\* notification has come since the read.
LEMMA SyncIsHeard ==
    ASSUME "push" \in Syncers, Inv, WakeInv, Step("push")
    PROVE  WakeInv' /\ Heard
<1> USE DEF Inv
<1>1. UNCHANGED <<plugin, inbox, listener>>
  BY StepFrame DEF source
<1>2. CASE Read("push")
  <2>1. /\ thread["push"] = "read" /\ thread'["push"] # "read"
        /\ thread'["push"] # "idle" => snap'["push"] = plugin
    BY <1>2 DEF Read, Goto, Finish, TypeOK
  <2>2. listener # "listen"  BY <2>1 DEF WakeInv
  <2>3. QED  BY <1>1, <2>1, <2>2 DEF WakeInv, Heard, EndsWell, Reads
<1>3. CASE thread["push"] \notin {"idle", "read"} /\ thread'["push"] = "idle"
  <2>1. Owed' <=> Owed  BY <1>1, <1>3 DEF Owed
  <2>2. EndsWell /\ ~Owed => Current'
    <3>1. SUFFICES ASSUME EndsWell, ~Owed PROVE Current'
      OBVIOUS
    <3>2. snap["push"] = plugin  BY <1>3, <3>1 DEF WakeInv
    <3>3. CASE Mark("push")
      <4>1. written' = Fingerprint(snap["push"])  BY <3>3 DEF Mark
      <4>2. QED  BY <1>1, <3>2, <4>1 DEF Current, Fingerprint
    <3>4. CASE Filter("push")
      <4>1. Refused(snap["push"]) \/ ~Todo("push")
        BY <1>3, <3>4 DEF Filter, Goto, TypeOK
      <4>2. written' = written /\ nonempty' = nonempty
        BY <3>4 DEF Filter, memory
      <4>3. QED
        BY <1>1, <3>2, <4>1, <4>2 DEF Current, Refused, Todo, Fingerprint
    <3>5. QED
      BY <3>1, <3>3, <3>4 DEF EndsWell, Step, Read, Connect, Open, Setup, Execute,
         Commit, Rollback
  <2>3. QED  BY <1>1, <1>3, <2>1, <2>2 DEF WakeInv, Heard
<1>4. CASE /\ thread["push"] \notin {"idle", "read"}
           /\ thread'["push"] \notin {"idle", "read"}
           /\ snap'["push"] = snap["push"]
  <2>1. Owed' <=> Owed  BY <1>1, <1>4 DEF Owed
  <2>2. QED  BY <1>1, <1>4, <2>1 DEF WakeInv, Heard, EndsWell
<1>5. QED
  BY <1>2, <1>3, <1>4 DEF Step, Filter, Connect, Open, Setup, Execute, Commit,
     Rollback, Mark, Goto, Finish, TypeOK

LEMMA EndIsHeard ==
    ASSUME "push" \in Syncers, Inv, WakeInv,
           \/ \E c \in Conns : SessionLost(c)
           \/ StopPush \/ CloseWriter \/ Exit \/ Crash
    PROVE  WakeInv' /\ Heard
<1> USE DEF Inv
<1>1. plugin' = plugin
  BY DEF SessionLost, StopPush, CloseWriter, Exit, Crash, NewProcess, source
<1>2. CASE StopPush \/ Exit \/ Crash
  <2>1. listener' = "off"
    BY <1>2 DEF StopPush, Exit, Crash, NewProcess
  <2>2. Owed'  BY <2>1 DEF Owed
  <2>3. QED  BY <1>1, <2>1, <2>2 DEF WakeInv, Heard
<1>3. CASE CloseWriter \/ \E c \in Conns : SessionLost(c)
  <2>1. /\ UNCHANGED <<inbox, listener, snap>>
        /\ thread'["push"] = thread["push"]
    BY <1>3 DEF CloseWriter, Cancelled, SessionLost, sync, TypeOK
  <2>2. QED  BY <1>1, <2>1 DEF WakeInv, Heard, EndsWell, Owed
<1>4. QED  BY <1>2, <1>3

LEMMA NextIsHeard ==
    Inv /\ WakeInv /\ [Next]_vars => WakeInv' /\ ["push" \in Syncers => Heard]_vars
<1> SUFFICES ASSUME Inv, WakeInv, [Next]_vars
             PROVE  WakeInv' /\ ["push" \in Syncers => Heard]_vars
  OBVIOUS
<1>1. CASE "push" \notin Syncers
  BY <1>1 DEF WakeInv
<1>2. CASE UNCHANGED vars
  BY <1>2 DEF vars, sync, source, WakeInv, Owed
<1>3. CASE "push" \in Syncers /\ Next
  <2>1. CASE \E s \in Syncers : Step(s)
    BY <1>3, <2>1, SyncIsHeard, ForcedIsHeard
  <2>2. CASE \A s \in Syncers : ~Step(s)
    BY <1>3, <2>2, PluginIsHeard, ListenerIsHeard, EndIsHeard DEF Next
  <2>3. QED  BY <1>3, <2>1, <2>2
<1>4. QED  BY <1>1, <1>2, <1>3

\* Whatever is published while the listener subscribes, syncs or waits, and
\* whatever else happens, a sync that reads it is owed until it has been read.
THEOREM WakeCorrect == Spec => NoLostWakeUp
<1>1. Init => WakeInv  BY InitWake
<1>2. Inv /\ WakeInv /\ [Next]_vars => WakeInv' /\ ["push" \in Syncers => Heard]_vars
  BY NextIsHeard
<1>3. QED
  BY <1>1, <1>2, InvCorrect, PTL DEF Spec, NoLostWakeUp, Heard
=============================================================================
