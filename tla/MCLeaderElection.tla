-------------------------- MODULE MCLeaderElection --------------------------
(* Two pods for TLC, with settings that differ or with lease.py's defaults. *)
EXTENDS LeaderElection, TLC

CONSTANTS p1, p2

\* A rolling change of the settings: p1 still has the old ones.  With two ticks
\* to the second, its 4.5 seconds are 4 in the Lease (half to even) and p2's
\* are 5.
MixedDuration == p1 :> 9 @@ p2 :> 10
MixedDeadline == p1 :> 2 @@ p2 :> 4
MixedPeriod == p1 :> 1 @@ p2 :> 1

DefaultDuration == [p \in Pods |-> 15]
DefaultDeadline == [p \in Pods |-> 10]
DefaultPeriod == [p \in Pods |-> 2]
PodSymmetry == Permutations(Pods)
=============================================================================
