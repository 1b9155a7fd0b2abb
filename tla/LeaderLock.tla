----------------------------- MODULE LeaderLock -----------------------------
(***************************************************************************)
(* What leader election promises the rest of the system: a lock.  At any   *)
(* time at most one pod is active, and the next one becomes active only    *)
(* after the last one has finished (lease.py: "at most one live IB         *)
(* eConnect per Lease").                                                   *)
(***************************************************************************)
CONSTANT Pods
VARIABLE active     \* the pods whose trading service is up

Init == active = {}

Enter(p) ==
    /\ active = {}
    /\ active' = {p}

Leave(p) ==
    /\ active = {p}
    /\ active' = {}

Next == \E p \in Pods : Enter(p) \/ Leave(p)

Spec == Init /\ [][Next]_active
=============================================================================
