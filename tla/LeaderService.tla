---------------------------- MODULE LeaderService ----------------------------
(***************************************************************************)
(* What the election may rely on about the service it has started          *)
(* (daemon/lease.py, run_with_leadership): the service that counts as live *)
(* until it is over.  Its workers start once, all together; it stops when  *)
(* the Lease is lost, or before; a stop is never taken back; and when it   *)
(* is over no worker is left that would act beside the next leader.        *)
(***************************************************************************)
CONSTANT Workers    \* the tasks of the service

VARIABLES
    held,       \* the process holds the Lease, as far as it knows
    asked,      \* the service has been asked to stop
    stage,      \* "starting", "working", "ending" or "over"
    working     \* the workers that are alive

Init ==
    /\ held = TRUE
    /\ asked = FALSE
    /\ stage = "starting"
    /\ working = {}

\* The workers start, even if a stop has been asked for in the meantime.
Launch ==
    /\ stage = "starting"
    /\ stage' = "working"
    /\ working' = Workers
    /\ UNCHANGED <<held, asked>>

\* Workers end, or somebody asks for a stop, or a worker does both.
Retire(S) ==
    /\ stage # "over"
    /\ working' = working \ S
    /\ asked' \in {asked, TRUE}
    /\ UNCHANGED <<held, stage>>

\* The Lease is lost.
Lose ==
    /\ held
    /\ held' = FALSE
    /\ asked' = TRUE
    /\ UNCHANGED <<stage, working>>

\* The service leaves its loop, or does not get to it.
WindDown ==
    /\ stage \in {"starting", "working"}
    /\ stage' = "ending"
    /\ asked' = TRUE
    /\ UNCHANGED <<held, working>>

\* The service returns to run_with_leadership.
End ==
    /\ stage \in {"starting", "ending"}
    /\ working = {}
    /\ stage' = "over"
    /\ asked' = TRUE
    /\ UNCHANGED <<held, working>>

Next == Launch \/ Lose \/ WindDown \/ End \/ \E S \in SUBSET Workers : Retire(S)

Spec == Init /\ [][Next]_<<held, asked, stage, working>>
=============================================================================
