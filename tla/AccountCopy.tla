----------------------------- MODULE AccountCopy -----------------------------
(***************************************************************************)
(* What the account push promises to the readers of the Golden Source      *)
(* tables (daemon/app/account_push.py): whatever happens to connections,   *)
(* transactions and the process, every part of an account's rows is that   *)
(* of a snapshot as the plugin published it, never nothing after something *)
(* and never of an account without a NAV.  If Whole, all of a snapshot is  *)
(* stored in one step; else readers may see the parts of two.              *)
(***************************************************************************)
EXTENDS Integers

CONSTANTS
    Syncers,      \* the tasks that copy
    Snapshots,    \* records with a version and a summary
    NoNav,        \* a summary that may not be stored
    None,         \* no snapshot
    Parts,        \* the parts of an account's rows
    Whole         \* a snapshot is stored in one step or not at all

VARIABLES
    source,       \* the snapshot that is published
    hand,         \* hand[s]: the snapshot s is copying
    copy          \* copy[p]: the snapshot of which part p is stored

Init ==
    /\ source \in Snapshots
    /\ hand = [s \in Syncers |-> None]
    /\ copy = [p \in Parts |-> None]

Publish ==
    /\ source' \in Snapshots
    /\ source'.version > source.version
    /\ UNCHANGED <<hand, copy>>

\* What is taken is what is published at that moment.
Take(s) ==
    /\ hand[s] = None
    /\ hand' = [hand EXCEPT ![s] = source]
    /\ UNCHANGED <<source, copy>>

Storable(s) == hand[s] # None /\ hand[s].summary # NoNav

\* All of what s has in hand is stored, in one step.
StoreWhole(s) ==
    /\ Storable(s)
    /\ copy' = [p \in Parts |-> hand[s]]
    /\ UNCHANGED <<source, hand>>

\* Some parts of what some tasks have in hand are stored.
StoreParts ==
    /\ ~Whole
    /\ copy' \in [Parts -> Snapshots \cup {None}]
    /\ \A p \in Parts :
          \/ copy'[p] = copy[p]
          \/ \E s \in Syncers : Storable(s) /\ copy'[p] = hand[s]
    /\ UNCHANGED <<source, hand>>

\* The copying is over or has failed; a crash ends all of it.
Drop(S) ==
    /\ hand' = [s \in Syncers |-> IF s \in S THEN None ELSE hand[s]]
    /\ UNCHANGED <<source, copy>>

Next ==
    \/ Publish
    \/ \E s \in Syncers : Take(s) \/ StoreWhole(s)
    \/ StoreParts
    \/ \E S \in SUBSET Syncers : Drop(S)

Spec == Init /\ [][Next]_<<source, hand, copy>>
=============================================================================
