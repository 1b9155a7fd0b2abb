--------------------------- MODULE LeaderElection ---------------------------
(***************************************************************************)
(* Leader election of the trading daemon over one Kubernetes Lease:        *)
(* daemon/lease.py (LeaderElector, run_with_leadership and the             *)
(* run_daemon_with_lease entrypoint) as it is run by daemon/app/entry.py.  *)
(*                                                                         *)
(* A pod is one process.  Its elector is a loop on the asyncio thread:     *)
(* sleep retry_period, read the clock, GET the Lease, PUT it back.  The    *)
(* three are separate actions here, because the other pods and the clock   *)
(* move between them.  Time is an explicit integer; every pod reads it     *)
(* through a wall clock of its own (time.time), offset by at most MaxSkew. *)
(*                                                                         *)
(* Every pod has lease settings of its own: they come from its config      *)
(* file, and while a change of them is rolled out two pods disagree.       *)
(*                                                                         *)
(* The code bounds neither a call to the API server nor the teardown of    *)
(* the service.  MaxDelay and Drain name those bounds, and TimingSafe says *)
(* which values of them the safety of the election depends on.             *)
(***************************************************************************)
EXTENDS Integers, FiniteSets

CONSTANTS
    Pods,            \* replicas of the daemon; the identity is POD_NAME
    NoPod,           \* holder of a Lease object that does not exist
    LeaseDuration,   \* lease_duration_sec of each pod
    RenewDeadline,   \* renew_deadline_sec of each pod
    RetryPeriod,     \* retry_period_sec of each pod
    Second,          \* ticks of the clock in a second
    MaxDelay,        \* longest lag of one step: event loop or API call
    Drain,           \* longest teardown of the service and the process
    RestartTime,     \* shortest time a container needs to come back
    MaxSkew,         \* largest distance between two pods' wall clocks
    MaxTime          \* bound of the clock

ASSUME PodsAssumption == NoPod \notin Pods
ASSUME TimingAssumption ==
    /\ LeaseDuration \in [Pods -> Nat]
    /\ RenewDeadline \in [Pods -> Nat]
    /\ RetryPeriod \in [Pods -> Nat]
    /\ Second \in Nat \ {0}
    /\ MaxDelay \in Nat
    /\ Drain \in Nat
    /\ RestartTime \in Nat
    /\ MaxSkew \in Nat
    /\ MaxTime \in Nat

VARIABLES
    now,         \* true time
    offset,      \* offset[p]: what p's wall clock reads ahead of now
    lease,       \* the Lease object in the API server
    role,        \* where run_with_leadership of the pod stands
    phase,       \* where try_acquire_or_renew of the pod stands
    observed,    \* the record backend.get() returned to the attempt
    attemptNow,  \* the wall clock value the attempt was called with
    lastRenew,   \* LeaderElector._last_renew_success
    due          \* latest time of the pod's next step (earliest, if exited)

pod == <<role, phase, observed, attemptNow, lastRenew, due>>
vars == <<now, offset, lease, pod>>

LeaseRecord ==
    [holder : Pods \cup {NoPod}, renew : Nat, duration : Nat, version : Nat]
NoRecord == [holder |-> NoPod, renew |-> 0, duration |-> 0, version |-> 0]

Roles == {"standby", "leading", "draining", "exited"}
Phases == {"wait", "get", "put"}

TypeOK ==
    /\ now \in Nat
    /\ offset \in [Pods -> 0 .. MaxSkew]
    /\ lease \in LeaseRecord
    /\ role \in [Pods -> Roles]
    /\ phase \in [Pods -> Phases]
    /\ observed \in [Pods -> LeaseRecord]
    /\ attemptNow \in [Pods -> Nat]
    /\ lastRenew \in [Pods -> Nat]
    /\ due \in [Pods -> Nat]

-----------------------------------------------------------------------------
(* Clocks and the lease record *)

Mut_ClockBehind(p) == now - offset[p]
Clock(p) == now + offset[p]

\* lease_duration_seconds of a Lease is a whole number: int(round(d)), which
\* takes a half to the even neighbour.
Rounded(d) ==
    LET whole == d \div Second
        over  == 2 * (d % Second)
        up    == over > Second \/ (over = Second /\ whole % 2 = 1)
    IN  Second * (IF up THEN whole + 1 ELSE whole)

\* How long the Lease says a holder's record is good for.
Promised(p) == Rounded(LeaseDuration[p])

\* LeaseRecord.is_expired: the record's own duration, the asking pod's clock.
Mut_ExpiredAtDeadline(record, clock) ==
    /\ record.holder \in Pods
    /\ clock - record.renew > RenewDeadline[record.holder]
IsExpired(record, clock) == clock - record.renew > record.duration

\* The trading service of p may be running: started and not yet torn down.
Live(p) == role[p] \in {"leading", "draining"}

RenewDeadlinePassed(p) == Clock(p) - lastRenew[p] > RenewDeadline[p]

Init ==
    /\ now = 0
    /\ offset \in [Pods -> 0 .. MaxSkew]
    /\ lease = NoRecord
    /\ role = [p \in Pods |-> "standby"]
    /\ phase = [p \in Pods |-> "wait"]
    /\ observed = [p \in Pods |-> NoRecord]
    /\ attemptNow = [p \in Pods |-> 0]
    /\ lastRenew = [p \in Pods |-> 0]
    /\ due = [p \in Pods |-> MaxDelay]

-----------------------------------------------------------------------------
(* How an attempt ends.  These operators prime every pod variable. *)

\* The attempt's locals go out of scope; the pod next acts within `delay`.
EndAttempt(p, delay) ==
    /\ phase' = [phase EXCEPT ![p] = "wait"]
    /\ observed' = [observed EXCEPT ![p] = NoRecord]
    /\ attemptNow' = [attemptNow EXCEPT ![p] = 0]
    /\ due' = [due EXCEPT ![p] = now + delay]

\* _wait_or_stop(stop, retry_period_sec), then the next attempt.
Sleep(p) == EndAttempt(p, RetryPeriod[p] + MaxDelay)

\* _mark_not_leader or _expire_self of a leader: renew_until_lost returns and
\* run_with_leadership cancels the service and waits for it.
StepDown(p) ==
    /\ role' = [role EXCEPT ![p] = "draining"]
    /\ UNCHANGED lastRenew
    /\ EndAttempt(p, Drain)

\* _mark_leader: leads (or goes on leading) with the renew time written.
MarkLeader(p) ==
    /\ role' = [role EXCEPT ![p] = "leading"]
    /\ lastRenew' = [lastRenew EXCEPT ![p] = attemptNow[p]]
    /\ Sleep(p)

\* LeaseAttempt.FAILED: a standby retries; a leader is tolerated until the
\* renew deadline, which is read off the clock after the attempt.
Mut_FailedIsTolerated(p) == UNCHANGED <<role, lastRenew>> /\ Sleep(p)
Failed(p) ==
    \/ /\ role[p] = "leading" => ~RenewDeadlinePassed(p)
       /\ UNCHANGED <<role, lastRenew>>
       /\ Sleep(p)
    \/ /\ role[p] = "leading"
       /\ RenewDeadlinePassed(p)
       /\ StepDown(p)

\* LeaseAttempt.HELD_BY_OTHER: definitive, whatever the renew deadline says.
HeldByOther(p) ==
    \/ /\ role[p] = "standby"
       /\ UNCHANGED <<role, lastRenew>>
       /\ Sleep(p)
    \/ /\ role[p] = "leading"
       /\ StepDown(p)

-----------------------------------------------------------------------------
(* One attempt: try_acquire_or_renew *)

Electing(p) == role[p] \in {"standby", "leading"}

\* The sleep is over: clock() is read and backend.get() is called.
BeginAttempt(p) ==
    /\ Electing(p)
    /\ phase[p] = "wait"
    /\ now >= due[p] - MaxDelay
    /\ phase' = [phase EXCEPT ![p] = "get"]
    /\ attemptNow' = [attemptNow EXCEPT ![p] = Clock(p)]
    /\ due' = [due EXCEPT ![p] = now + MaxDelay]
    /\ UNCHANGED <<now, offset, lease, role, observed, lastRenew>>

\* backend.get() raised.
GetFails(p) ==
    /\ phase[p] = "get"
    /\ Failed(p)
    /\ UNCHANGED <<now, offset, lease>>

\* backend.get() found another pod's lease that has not expired.
GetHeldByOther(p) ==
    /\ phase[p] = "get"
    /\ lease.holder \notin {p, NoPod}
    /\ ~IsExpired(lease, attemptNow[p])
    /\ HeldByOther(p)
    /\ UNCHANGED <<now, offset, lease>>

\* backend.get() found no lease, our own, or an expired one: go on to write.
GetClaimable(p) ==
    /\ phase[p] = "get"
    /\ \/ lease.holder \in {p, NoPod}
       \/ IsExpired(lease, attemptNow[p])
    /\ observed' = [observed EXCEPT ![p] = lease]
    /\ phase' = [phase EXCEPT ![p] = "put"]
    /\ due' = [due EXCEPT ![p] = now + MaxDelay]
    /\ UNCHANGED <<now, offset, lease, role, attemptNow, lastRenew>>

\* The API server takes a write only against the version that was read:
\* create against no object, update against the same resourceVersion.
Mut_AnyVersion(p) == TRUE
Unchanged(p) == lease.version = observed[p].version

\* A renewal or a takeover replaces the duration as well as the renew time.
Mut_WriteKeepsDuration(p) ==
    lease' = [holder |-> p, renew |-> attemptNow[p],
              duration |-> IF lease = NoRecord THEN Promised(p)
                                               ELSE lease.duration,
              version |-> lease.version + 1]
Write(p) ==
    lease' = [holder |-> p, renew |-> attemptNow[p], duration |-> Promised(p),
              version |-> lease.version + 1]

\* backend.create or backend.update stored the record.
PutSucceeds(p) ==
    /\ phase[p] = "put"
    /\ Unchanged(p)
    /\ Write(p)
    /\ MarkLeader(p)
    /\ UNCHANGED <<now, offset>>

\* LeaseConflict: another writer came first.
PutConflicts(p) ==
    /\ phase[p] = "put"
    /\ ~Unchanged(p)
    /\ Failed(p)
    /\ UNCHANGED <<now, offset, lease>>

\* Any other exception: the write was never applied, or it was applied and
\* the response was lost.
PutFails(p) ==
    /\ phase[p] = "put"
    /\ \/ UNCHANGED lease
       \/ Unchanged(p) /\ Write(p)
    /\ Failed(p)
    /\ UNCHANGED <<now, offset>>

-----------------------------------------------------------------------------
(* The process around the elector *)

\* The service task ends by itself (it was stopped, or it raised): the renew
\* task is cancelled while it sleeps.  The Lease is not released, and the
\* process ends when its worker threads have.
ServiceEnds(p) ==
    /\ role[p] = "leading"
    /\ phase[p] = "wait"
    /\ StepDown(p)
    /\ UNCHANGED <<now, offset, lease>>

\* The process is gone; a container that comes back starts from nothing.
Gone(p) ==
    /\ role' = [role EXCEPT ![p] = "exited"]
    /\ lastRenew' = [lastRenew EXCEPT ![p] = 0]
    /\ EndAttempt(p, RestartTime)
    /\ UNCHANGED <<now, offset, lease>>

\* Teardown is over: asyncio.run returns.
Exit(p) == role[p] = "draining" /\ Gone(p)

\* SIGTERM while standby: the stop event ends acquire() between attempts.
StandbyStops(p) == role[p] = "standby" /\ phase[p] = "wait" /\ Gone(p)

\* The process dies wherever it is.
Crash(p) == role[p] # "exited" /\ Gone(p)

\* Kubernetes restarts the container, under the same identity.
Restart(p) ==
    /\ role[p] = "exited"
    /\ now >= due[p]
    /\ role' = [role EXCEPT ![p] = "standby"]
    /\ due' = [due EXCEPT ![p] = now + MaxDelay]
    /\ UNCHANGED <<now, offset, lease, phase, observed, attemptNow, lastRenew>>

\* Time passes, but not beyond the latest time of a live pod's next step.
Tick ==
    /\ now < MaxTime
    /\ \A p \in Pods : role[p] # "exited" => now < due[p]
    /\ now' = now + 1
    /\ UNCHANGED <<offset, lease, pod>>

Next ==
    \/ Tick
    \/ \E p \in Pods :
        \/ BeginAttempt(p)
        \/ GetFails(p)
        \/ GetHeldByOther(p)
        \/ GetClaimable(p)
        \/ PutSucceeds(p)
        \/ PutConflicts(p)
        \/ PutFails(p)
        \/ ServiceEnds(p)
        \/ Exit(p)
        \/ StandbyStops(p)
        \/ Crash(p)
        \/ Restart(p)

Spec == Init /\ [][Next]_vars

-----------------------------------------------------------------------------
(* What the election promises *)

\* When p last renewed, in true time: the clock its record was stamped with.
RenewedAt(p) == lastRenew[p] - offset[p]

\* How long after its last successful renewal a pod may still be trading: it
\* is tolerated up to the deadline (or a slow attempt has used that up), it
\* sleeps, and one more attempt of three steps fails.
Tolerance(p) ==
    IF RenewDeadline[p] >= 2 * MaxDelay THEN RenewDeadline[p] ELSE 2 * MaxDelay
StepDownBound(p) == Tolerance(p) + RetryPeriod[p] + 3 * MaxDelay + Drain

\* The relation between the configured times and the environment's that the
\* election relies on: each pod is gone before its own record expires, as the
\* Lease rounds it.  How the pods' settings differ does not matter.  The code
\* checks no part of it.
TimingSafe == \A p \in Pods : StepDownBound(p) + MaxSkew <= Promised(p)

\* At most one pod's trading service is up, counting one being torn down
\* (lease.py: "at most one GsTrading process per environment").
AtMostOneService == \A p, q \in Pods : Live(p) /\ Live(q) => p = q

\* The pod that trades is the one the Lease names, with a renew time no older
\* than the pod believes, for as long as the pod's own settings say: nothing is
\* left of the record it took over.
LiveHoldsLease ==
    \A p \in Pods :
        Live(p) => /\ lease.holder = p
                   /\ lease.renew >= lastRenew[p]
                   /\ lease.duration = Promised(p)

\* A pod that cannot renew stops within StepDownBound of its last renewal,
\* whatever the API server does.
StepsDownInTime ==
    \A p \in Pods : Live(p) => now <= RenewedAt(p) + StepDownBound(p)

\* A lease changes hands only when its holder has not renewed for the lease
\* duration, as far as two skewed clocks can tell.  This is the compare and
\* swap: a renewal that slips in before a takeover defeats it.
TakeoverOnlyOfExpired ==
    [][lease'.holder # lease.holder /\ lease.holder # NoPod
         => IsExpired(lease, now + MaxSkew)]_vars

\* The time-safe election refines a lock on the environment.
Lock == INSTANCE LeaderLock
            WITH active <- {p \in Pods : Live(p)}
LockSpec == Lock!Spec
=============================================================================
