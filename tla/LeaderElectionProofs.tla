----------------------- MODULE LeaderElectionProofs -----------------------
(***************************************************************************)
(* Proofs about LeaderElection, for every set of pods, all lease           *)
(* parameters and any horizon.                                             *)
(*                                                                         *)
(*   Typing      TypeOK is inductive by itself.                            *)
(*   Timing      TimeInv bounds the next step of every pod by the start of *)
(*               its attempt and by its last renewal; it holds whatever    *)
(*               the constants are and yields StepsDownInTime.             *)
(*   Safety      under TimingSafe, LeaseInv: the live pod holds the lease, *)
(*               because a takeover needs an expired record and the live   *)
(*               pod has stopped by the time its record expires.           *)
(*   Settings    what makes a configuration timing-safe: a margin of half  *)
(*               a second, or three seconds with the defaults.             *)
(*   Refinement  under TimingSafe, the election implements LeaderLock.     *)
(***************************************************************************)
EXTENDS LeaderElection, TLAPS

\* When the attempt in progress read the clock, in true time.
StartedAt(p) == attemptNow[p] - offset[p]

\* The times of one pod that runs: it is not late for its next step; an attempt
\* belongs to a standby or a leader, its timestamp lies between the last renewal
\* and the clock, and each of its steps comes within MaxDelay; and the next step
\* of a live pod lies close enough to its last renewal.
TimePod(p) ==
    /\ role[p] # "exited" => now <= due[p]
    /\ lastRenew[p] <= Clock(p)
    /\ phase[p] # "wait" =>
        /\ Electing(p)
        /\ lastRenew[p] <= attemptNow[p]
        /\ attemptNow[p] <= Clock(p)
    /\ phase[p] = "get" => due[p] <= StartedAt(p) + MaxDelay
    /\ phase[p] = "put" => due[p] <= StartedAt(p) + 2 * MaxDelay
    /\ role[p] = "leading" /\ phase[p] = "wait" =>
         due[p] <= RenewedAt(p) + Tolerance(p) + RetryPeriod[p] + MaxDelay
    /\ role[p] = "leading" /\ phase[p] = "get" =>
         due[p] <= RenewedAt(p) + Tolerance(p) + RetryPeriod[p] + 2 * MaxDelay
    /\ role[p] = "leading" /\ phase[p] = "put" =>
         due[p] <= RenewedAt(p) + Tolerance(p) + RetryPeriod[p] + 3 * MaxDelay
    /\ role[p] = "draining" => due[p] <= RenewedAt(p) + StepDownBound(p)

TimeInv == \A p \in Pods : TimePod(p)

\* A record read is the record stored as long as the version is the same, and
\* an attempt that goes on to write may claim the record it has read.
ReadsAreVersioned ==
    \A p \in Pods :
        phase[p] = "put" =>
            /\ observed[p].version <= lease.version
            /\ observed[p].version = lease.version => observed[p] = lease
            /\ \/ observed[p].holder \in {p, NoPod}
               \/ IsExpired(observed[p], attemptNow[p])

LeaseInv == ReadsAreVersioned /\ LiveHoldsLease

-----------------------------------------------------------------------------
(* Typing *)

\* The settings of a pod are durations, and so is what the Lease says of them.
LEMMA RoundedType ==
    ASSUME NEW d \in Nat
    PROVE  Rounded(d) \in Nat
<1>1. Second \in Nat /\ Second > 0  BY TimingAssumption
<1>2. d \div Second \in Nat  BY <1>1
<1>3. \A m, n \in Nat : m * n \in Nat /\ n + 1 \in Nat  OBVIOUS
<1>4. QED  BY <1>1, <1>2, <1>3 DEF Rounded

LEMMA SettingsType ==
    ASSUME NEW p \in Pods
    PROVE  /\ LeaseDuration[p] \in Nat
           /\ RenewDeadline[p] \in Nat
           /\ RetryPeriod[p] \in Nat
           /\ Promised(p) \in Nat
BY RoundedType, TimingAssumption DEF Promised

LEMMA TypeInit == Init => TypeOK
BY TimingAssumption DEF Init, TypeOK, LeaseRecord, NoRecord, Roles, Phases

\* The tail of every attempt keeps the types of what it primes.
LEMMA EndAttemptType ==
    ASSUME TypeOK, NEW p \in Pods, NEW delay \in Nat, EndAttempt(p, delay)
    PROVE  /\ phase' \in [Pods -> Phases]
           /\ observed' \in [Pods -> LeaseRecord]
           /\ attemptNow' \in [Pods -> Nat]
           /\ due' \in [Pods -> Nat]
BY DEF TypeOK, EndAttempt, Phases, LeaseRecord, NoRecord

LEMMA StepDownType ==
    ASSUME TypeOK, NEW p \in Pods, StepDown(p)
    PROVE  /\ role' \in [Pods -> Roles]
           /\ lastRenew' \in [Pods -> Nat]
           /\ phase' \in [Pods -> Phases]
           /\ observed' \in [Pods -> LeaseRecord]
           /\ attemptNow' \in [Pods -> Nat]
           /\ due' \in [Pods -> Nat]
<1>1. EndAttempt(p, Drain)  BY DEF StepDown
<1>2. QED  BY <1>1, EndAttemptType, TimingAssumption DEF StepDown, TypeOK, Roles

LEMMA SleepType ==
    ASSUME TypeOK, NEW p \in Pods, Sleep(p)
    PROVE  /\ phase' \in [Pods -> Phases]
           /\ observed' \in [Pods -> LeaseRecord]
           /\ attemptNow' \in [Pods -> Nat]
           /\ due' \in [Pods -> Nat]
<1>1. RetryPeriod[p] + MaxDelay \in Nat  BY SettingsType, TimingAssumption
<1>2. QED  BY <1>1, EndAttemptType DEF Sleep

LEMMA FailedType ==
    ASSUME TypeOK, NEW p \in Pods, Failed(p) \/ HeldByOther(p)
    PROVE  /\ role' \in [Pods -> Roles]
           /\ lastRenew' \in [Pods -> Nat]
           /\ phase' \in [Pods -> Phases]
           /\ observed' \in [Pods -> LeaseRecord]
           /\ attemptNow' \in [Pods -> Nat]
           /\ due' \in [Pods -> Nat]
<1>1. CASE StepDown(p)  BY <1>1, StepDownType
<1>2. CASE UNCHANGED <<role, lastRenew>> /\ Sleep(p)
  BY <1>2, SleepType DEF TypeOK
<1>3. QED  BY <1>1, <1>2 DEF Failed, HeldByOther

LEMMA WriteType ==
    ASSUME TypeOK, NEW p \in Pods, Write(p)
    PROVE  lease' \in LeaseRecord
BY SettingsType DEF TypeOK, Write, LeaseRecord

LEMMA TypeStep == TypeOK /\ [Next]_vars => TypeOK'
<1> SUFFICES ASSUME TypeOK, [Next]_vars PROVE TypeOK'
  OBVIOUS
<1>1. CASE Tick
  BY <1>1 DEF Tick, TypeOK, pod
<1>2. ASSUME NEW p \in Pods, BeginAttempt(p) PROVE TypeOK'
  <2>1. Clock(p) \in Nat  BY DEF TypeOK, Clock
  <2>2. now + MaxDelay \in Nat  BY TimingAssumption DEF TypeOK
  <2>3. QED  BY <1>2, <2>1, <2>2 DEF BeginAttempt, TypeOK, Phases
<1>3. ASSUME NEW p \in Pods, GetFails(p) \/ GetHeldByOther(p) \/ PutConflicts(p)
      PROVE TypeOK'
  BY <1>3, FailedType DEF GetFails, GetHeldByOther, PutConflicts, TypeOK
<1>4. ASSUME NEW p \in Pods, GetClaimable(p) PROVE TypeOK'
  <2>1. now + MaxDelay \in Nat  BY TimingAssumption DEF TypeOK
  <2>2. QED  BY <1>4, <2>1 DEF GetClaimable, TypeOK, Phases
<1>5. ASSUME NEW p \in Pods, PutSucceeds(p) PROVE TypeOK'
  <2>1. Write(p) /\ Sleep(p)  BY <1>5 DEF PutSucceeds, MarkLeader
  <2>2. QED  BY <1>5, <2>1, WriteType, SleepType
             DEF PutSucceeds, MarkLeader, TypeOK, Roles
<1>6. ASSUME NEW p \in Pods, PutFails(p) PROVE TypeOK'
  <2>1. lease' \in LeaseRecord  BY <1>6, WriteType DEF PutFails, TypeOK
  <2>2. QED  BY <1>6, <2>1, FailedType DEF PutFails, TypeOK
<1>7. ASSUME NEW p \in Pods, ServiceEnds(p) PROVE TypeOK'
  BY <1>7, StepDownType DEF ServiceEnds, TypeOK
<1>8. ASSUME NEW p \in Pods, Gone(p) PROVE TypeOK'
  <2>1. EndAttempt(p, RestartTime)  BY <1>8 DEF Gone
  <2>2. QED  BY <1>8, <2>1, EndAttemptType, TimingAssumption DEF Gone, TypeOK, Roles
<1>9. ASSUME NEW p \in Pods, Restart(p) PROVE TypeOK'
  BY <1>9, TimingAssumption DEF Restart, TypeOK, Roles
<1>10. CASE UNCHANGED vars
  BY <1>10 DEF vars, pod, TypeOK
<1>11. QED
  BY <1>1, <1>2, <1>3, <1>4, <1>5, <1>6, <1>7, <1>8, <1>9, <1>10
     DEF Next, Exit, StandbyStops, Crash

\* Every variable keeps its type.
THEOREM TypeCorrect == Spec => []TypeOK
<1>1. Init => TypeOK  BY TypeInit
<1>2. TypeOK /\ [Next]_vars => TypeOK'  BY TypeStep
<1>3. QED  BY <1>1, <1>2, PTL DEF Spec

-----------------------------------------------------------------------------
(* Timing.  A step of p changes no other pod's variables, so each action is  *)
(* checked at p alone.                                                       *)

\* Tolerance is one of two constants and at least each of them.
LEMMA ToleranceFacts ==
    ASSUME NEW p \in Pods
    PROVE  /\ Tolerance(p) \in Nat
           /\ Tolerance(p) >= RenewDeadline[p]
           /\ Tolerance(p) >= 2 * MaxDelay
BY SettingsType, TimingAssumption DEF Tolerance

\* A step of p that leaves the clock alone keeps every other pod's times.
LEMMA OthersKeepTime ==
    ASSUME TypeOK, TimeInv, NEW p \in Pods, NEW q \in Pods \ {p},
           now' = now, offset' = offset,
           role'[q] = role[q], phase'[q] = phase[q],
           attemptNow'[q] = attemptNow[q], lastRenew'[q] = lastRenew[q],
           due'[q] = due[q]
    PROVE  TimePod(q)'
<1>1. TimePod(q)  BY DEF TimeInv
<1>2. QED  BY <1>1 DEF TimePod, Clock, Electing, StartedAt, RenewedAt

\* What EndAttempt does to p and to the others, without the EXCEPTs.
LEMMA EndAttemptAt ==
    ASSUME TypeOK, NEW p \in Pods, NEW delay \in Nat, EndAttempt(p, delay)
    PROVE  /\ phase'[p] = "wait"
           /\ due'[p] = now + delay
           /\ \A q \in Pods \ {p} :
                /\ phase'[q] = phase[q]
                /\ attemptNow'[q] = attemptNow[q]
                /\ observed'[q] = observed[q]
                /\ due'[q] = due[q]
BY DEF EndAttempt, TypeOK

\* Stepping down from any point of the loop leaves Drain to finish in.
LEMMA StepDownTime ==
    ASSUME TypeOK, TimeInv, NEW p \in Pods, role[p] = "leading",
           StepDown(p), now' = now, offset' = offset
    PROVE  TimeInv'
<1>1. EndAttempt(p, Drain)  BY DEF StepDown
<1>2. role'[p] = "draining" /\ lastRenew' = lastRenew
  BY DEF StepDown, TypeOK
<1>3. TimePod(p)'
  <2>1. TimePod(p)  BY DEF TimeInv
  <2>2. phase'[p] = "wait" /\ due'[p] = now + Drain
    BY <1>1, EndAttemptAt, TimingAssumption
  <2>3. phase[p] \in {"wait", "get", "put"}  BY DEF TypeOK, Phases
  <2>4. now <= RenewedAt(p) + Tolerance(p) + RetryPeriod[p] + 3 * MaxDelay
    BY <2>1, <2>3, ToleranceFacts, SettingsType, TimingAssumption
       DEF TimePod, TypeOK, RenewedAt
  <2>5. QED
    BY <1>2, <2>1, <2>2, <2>4, ToleranceFacts, SettingsType, TimingAssumption
       DEF TimePod, TypeOK, RenewedAt, StepDownBound, Clock
<1>4. ASSUME NEW q \in Pods \ {p} PROVE TimePod(q)'
  <2>1. role'[q] = role[q]  BY DEF StepDown, TypeOK
  <2>2. QED  BY <1>1, <1>2, <2>1, EndAttemptAt, OthersKeepTime, TimingAssumption
<1>5. QED  BY <1>3, <1>4 DEF TimeInv

\* Going back to sleep: a standby always may, a leader only within Tolerance
\* of the renewal it now counts from.
LEMMA SleepTime ==
    ASSUME TypeOK, TimeInv, NEW p \in Pods, Sleep(p), TypeOK',
           now' = now, offset' = offset,
           \A q \in Pods \ {p} : role'[q] = role[q] /\ lastRenew'[q] = lastRenew[q],
           role'[p] # "draining",
           lastRenew'[p] <= Clock(p),
           role'[p] = "leading" => now <= lastRenew'[p] - offset[p] + Tolerance(p)
    PROVE  TimeInv'
<1>1. RetryPeriod[p] + MaxDelay \in Nat  BY SettingsType, TimingAssumption
<1>2. EndAttempt(p, RetryPeriod[p] + MaxDelay)  BY DEF Sleep
<1>3. TimePod(p)'
  BY <1>1, <1>2, EndAttemptAt, ToleranceFacts, SettingsType, TimingAssumption
     DEF TimePod, TypeOK, RenewedAt, Clock
<1>4. ASSUME NEW q \in Pods \ {p} PROVE TimePod(q)'
  BY <1>1, <1>2, EndAttemptAt, OthersKeepTime
<1>5. QED  BY <1>3, <1>4 DEF TimeInv

LEMMA FailedTime ==
    ASSUME TypeOK, TypeOK', TimeInv, NEW p \in Pods, Electing(p),
           Failed(p) \/ HeldByOther(p), now' = now, offset' = offset
    PROVE  TimeInv'
<1>1. CASE role[p] = "leading" /\ StepDown(p)
  BY <1>1, StepDownTime
<1>2. CASE /\ role[p] = "leading" => ~RenewDeadlinePassed(p)
           /\ UNCHANGED <<role, lastRenew>>
           /\ Sleep(p)
  <2>1. lastRenew[p] <= Clock(p)  BY DEF TimeInv, TimePod
  <2>2. role[p] = "leading" => now <= lastRenew[p] - offset[p] + Tolerance(p)
    BY <1>2, ToleranceFacts, SettingsType, TimingAssumption
       DEF RenewDeadlinePassed, Clock, TypeOK
  <2>3. QED  BY <1>2, <2>1, <2>2, SleepTime DEF Electing
<1>3. QED  BY <1>1, <1>2 DEF Failed, HeldByOther

LEMMA TimeInit == Init => TimeInv
<1> SUFFICES ASSUME Init, NEW p \in Pods PROVE TimePod(p)
  BY DEF TimeInv
<1> QED  BY TimingAssumption DEF Init, TimePod, Clock

LEMMA TimeStep == TypeOK /\ TypeOK' /\ TimeInv /\ [Next]_vars => TimeInv'
<1> SUFFICES ASSUME TypeOK, TypeOK', TimeInv, [Next]_vars PROVE TimeInv'
  OBVIOUS
<1>0. \A p \in Pods : TimePod(p)  BY DEF TimeInv
<1>1. CASE Tick
  <2> SUFFICES ASSUME NEW p \in Pods PROVE TimePod(p)'
    BY DEF TimeInv
  <2> QED
    BY <1>0, <1>1, TimingAssumption
       DEF Tick, pod, TimePod, TypeOK, Clock, Electing, StartedAt, RenewedAt
<1>2. ASSUME NEW p \in Pods, BeginAttempt(p) PROVE TimeInv'
  <2>1. TimePod(p)'
    BY <1>0, <1>2, ToleranceFacts, SettingsType, TimingAssumption
       DEF BeginAttempt, Electing, TimePod, TypeOK, Clock, StartedAt, RenewedAt
  <2>2. ASSUME NEW q \in Pods \ {p} PROVE TimePod(q)'
    BY <1>2, OthersKeepTime DEF BeginAttempt, TypeOK
  <2>3. QED  BY <2>1, <2>2 DEF TimeInv
<1>3. ASSUME NEW p \in Pods, GetFails(p) \/ GetHeldByOther(p) \/ PutConflicts(p)
                             \/ PutFails(p)
      PROVE TimeInv'
  <2>1. Electing(p)
    BY <1>0, <1>3 DEF TimePod, GetFails, GetHeldByOther, PutConflicts, PutFails
  <2>2. QED
    BY <1>3, <2>1, FailedTime DEF GetFails, GetHeldByOther, PutConflicts, PutFails
<1>4. ASSUME NEW p \in Pods, GetClaimable(p) PROVE TimeInv'
  <2>1. TimePod(p)'
    BY <1>0, <1>4, ToleranceFacts, SettingsType, TimingAssumption
       DEF GetClaimable, Electing, TimePod, TypeOK, Clock, StartedAt, RenewedAt
  <2>2. ASSUME NEW q \in Pods \ {p} PROVE TimePod(q)'
    BY <1>4, OthersKeepTime DEF GetClaimable, TypeOK
  <2>3. QED  BY <2>1, <2>2 DEF TimeInv
<1>5. ASSUME NEW p \in Pods, PutSucceeds(p) PROVE TimeInv'
  <2>1. /\ role' = [role EXCEPT ![p] = "leading"]
        /\ lastRenew' = [lastRenew EXCEPT ![p] = attemptNow[p]]
        /\ Sleep(p) /\ now' = now /\ offset' = offset
    BY <1>5 DEF PutSucceeds, MarkLeader
  <2>2. now <= attemptNow[p] - offset[p] + Tolerance(p)
    BY <1>0, <1>5, ToleranceFacts, SettingsType, TimingAssumption
       DEF PutSucceeds, TimePod, TypeOK, StartedAt, Electing
  <2>3. attemptNow[p] <= Clock(p)  BY <1>0, <1>5 DEF PutSucceeds, TimePod
  <2>4. QED  BY <2>1, <2>2, <2>3, SleepTime DEF TypeOK
<1>6. ASSUME NEW p \in Pods, ServiceEnds(p) PROVE TimeInv'
  BY <1>6, StepDownTime DEF ServiceEnds
<1>7. ASSUME NEW p \in Pods, Gone(p) PROVE TimeInv'
  <2>1. EndAttempt(p, RestartTime)  BY <1>7 DEF Gone
  <2>2. TimePod(p)'
    BY <1>7, <2>1, EndAttemptAt, TimingAssumption DEF Gone, TimePod, TypeOK, Clock
  <2>3. ASSUME NEW q \in Pods \ {p} PROVE TimePod(q)'
    <3>1. role'[q] = role[q] /\ lastRenew'[q] = lastRenew[q]
      BY <1>7 DEF Gone, TypeOK
    <3>2. QED
      BY <1>7, <2>1, <3>1, EndAttemptAt, OthersKeepTime, TimingAssumption DEF Gone
  <2>4. QED  BY <2>2, <2>3 DEF TimeInv
<1>8. ASSUME NEW p \in Pods, Restart(p) PROVE TimeInv'
  <2>1. TimePod(p)'
    BY <1>0, <1>8, TimingAssumption
       DEF Restart, TimePod, TypeOK, Clock, Electing, StartedAt
  <2>2. ASSUME NEW q \in Pods \ {p} PROVE TimePod(q)'
    BY <1>8, OthersKeepTime DEF Restart, TypeOK
  <2>3. QED  BY <2>1, <2>2 DEF TimeInv
<1>9. CASE UNCHANGED vars
  BY <1>9 DEF vars, pod, TimeInv, TimePod, Clock,
              Electing, StartedAt, RenewedAt
<1>10. QED
  BY <1>1, <1>2, <1>3, <1>4, <1>5, <1>6, <1>7, <1>8, <1>9
     DEF Next, Exit, StandbyStops, Crash

\* No pod trades longer than StepDownBound after its last renewal, with any
\* lease parameters and however the API server behaves.
THEOREM StepDownCorrect == Spec => []StepsDownInTime
<1>1. Init => TypeOK /\ TimeInv  BY TypeInit, TimeInit
<1>2. TypeOK /\ TimeInv /\ [Next]_vars => (TypeOK /\ TimeInv)'
  BY TypeStep, TimeStep
<1>3. TypeOK /\ TimeInv => StepsDownInTime
  <2> SUFFICES ASSUME TypeOK, TimeInv, NEW p \in Pods, Live(p)
               PROVE  now <= RenewedAt(p) + StepDownBound(p)
    BY DEF StepsDownInTime
  <2>1. TimePod(p)  BY DEF TimeInv
  <2>2. phase[p] \in {"wait", "get", "put"}  BY DEF TypeOK, Phases
  <2>3. QED
    BY <2>1, <2>2, ToleranceFacts, SettingsType, TimingAssumption
       DEF TimePod, Live, TypeOK, RenewedAt, StepDownBound
<1>4. QED  BY <1>1, <1>2, <1>3, PTL DEF Spec
-----------------------------------------------------------------------------
(* Reads and writes of the Lease.  Still for all constants. *)

\* A step of p that leaves the Lease alone and gives up the attempt.
LEMMA GiveUpKeepsReads ==
    ASSUME TypeOK, ReadsAreVersioned, NEW p \in Pods, lease' = lease,
           phase'[p] = "wait",
           \A q \in Pods \ {p} : phase'[q] = phase[q]
                                 /\ observed'[q] = observed[q]
                                 /\ attemptNow'[q] = attemptNow[q]
    PROVE  ReadsAreVersioned'
BY DEF ReadsAreVersioned, IsExpired

\* A write by p: the others' reads are stale from now on.
LEMMA WriteKeepsReads ==
    ASSUME TypeOK, ReadsAreVersioned, NEW p \in Pods, Write(p),
           phase'[p] = "wait",
           \A q \in Pods \ {p} : phase'[q] = phase[q]
                                 /\ observed'[q] = observed[q]
                                 /\ attemptNow'[q] = attemptNow[q]
    PROVE  ReadsAreVersioned'
<1> SUFFICES ASSUME NEW q \in Pods, phase'[q] = "put"
             PROVE  /\ observed'[q].version <= lease'.version
                    /\ observed'[q].version # lease'.version
                    /\ \/ observed'[q].holder \in {q, NoPod}
                       \/ IsExpired(observed'[q], attemptNow'[q])
  BY DEF ReadsAreVersioned, IsExpired
<1>1. lease'.version = lease.version + 1  BY DEF Write
<1>2. observed'[q] = observed[q] /\ attemptNow'[q] = attemptNow[q]
      /\ phase[q] = "put"
  OBVIOUS
<1>3. observed[q].version \in Nat /\ lease.version \in Nat
  BY DEF TypeOK, LeaseRecord
<1>4. QED  BY <1>1, <1>2, <1>3 DEF ReadsAreVersioned, IsExpired

\* What a failed attempt leaves behind: p waits, and nobody has come to life.
LEMMA FailedEffect ==
    ASSUME TypeOK, NEW p \in Pods, Failed(p) \/ HeldByOther(p)
    PROVE  /\ phase'[p] = "wait"
           /\ lastRenew' = lastRenew
           /\ \A q \in Pods \ {p} : /\ phase'[q] = phase[q]
                                    /\ observed'[q] = observed[q]
                                    /\ attemptNow'[q] = attemptNow[q]
                                    /\ role'[q] = role[q]
           /\ \A q \in Pods : Live(q)' => Live(q)
<1>1. CASE role[p] = "leading" /\ StepDown(p)
  <2>1. EndAttempt(p, Drain) /\ role' = [role EXCEPT ![p] = "draining"]
        /\ lastRenew' = lastRenew
    BY <1>1 DEF StepDown
  <2>2. QED  BY <1>1, <2>1, EndAttemptAt, TimingAssumption DEF Live, TypeOK
<1>2. CASE UNCHANGED <<role, lastRenew>> /\ Sleep(p)
  <2>1. EndAttempt(p, RetryPeriod[p] + MaxDelay)  BY <1>2 DEF Sleep
  <2>2. RetryPeriod[p] + MaxDelay \in Nat  BY SettingsType, TimingAssumption
  <2>3. QED  BY <1>2, <2>1, <2>2, EndAttemptAt DEF Live
<1>3. QED  BY <1>1, <1>2 DEF Failed, HeldByOther

LEMMA ReadsStep ==
    TypeOK /\ ReadsAreVersioned /\ [Next]_vars => ReadsAreVersioned'
<1> SUFFICES ASSUME TypeOK, ReadsAreVersioned, [Next]_vars
             PROVE  ReadsAreVersioned'
  OBVIOUS
<1>1. CASE Tick \/ UNCHANGED vars
  BY <1>1 DEF Tick, vars, pod, ReadsAreVersioned, IsExpired
<1>2. ASSUME NEW p \in Pods, BeginAttempt(p) PROVE ReadsAreVersioned'
  BY <1>2 DEF BeginAttempt, TypeOK, ReadsAreVersioned, IsExpired
<1>3. ASSUME NEW p \in Pods, GetFails(p) \/ GetHeldByOther(p) \/ PutConflicts(p)
      PROVE ReadsAreVersioned'
  <2>1. (Failed(p) \/ HeldByOther(p)) /\ lease' = lease
    BY <1>3 DEF GetFails, GetHeldByOther, PutConflicts
  <2>2. QED  BY <2>1, FailedEffect, GiveUpKeepsReads
<1>4. ASSUME NEW p \in Pods, GetClaimable(p) PROVE ReadsAreVersioned'
  <2>1. lease.version \in Nat  BY DEF TypeOK, LeaseRecord
  <2>2. QED
    BY <1>4, <2>1 DEF GetClaimable, TypeOK, ReadsAreVersioned, IsExpired
<1>5. ASSUME NEW p \in Pods, PutSucceeds(p) PROVE ReadsAreVersioned'
  <2>1. EndAttempt(p, RetryPeriod[p] + MaxDelay) /\ Write(p)
    BY <1>5 DEF PutSucceeds, MarkLeader, Sleep
  <2>2. RetryPeriod[p] + MaxDelay \in Nat  BY SettingsType, TimingAssumption
  <2>3. QED  BY <2>1, <2>2, EndAttemptAt, WriteKeepsReads
<1>6. ASSUME NEW p \in Pods, PutFails(p) PROVE ReadsAreVersioned'
  <2>1. Failed(p) /\ (lease' = lease \/ Write(p))  BY <1>6 DEF PutFails
  <2>2. QED  BY <2>1, FailedEffect, GiveUpKeepsReads, WriteKeepsReads
<1>7. ASSUME NEW p \in Pods, ServiceEnds(p) PROVE ReadsAreVersioned'
  <2>1. EndAttempt(p, Drain) /\ lease' = lease
    BY <1>7 DEF ServiceEnds, StepDown
  <2>2. QED  BY <2>1, EndAttemptAt, GiveUpKeepsReads, TimingAssumption
<1>8. ASSUME NEW p \in Pods, Gone(p) PROVE ReadsAreVersioned'
  <2>1. EndAttempt(p, RestartTime) /\ lease' = lease  BY <1>8 DEF Gone
  <2>2. QED  BY <2>1, EndAttemptAt, GiveUpKeepsReads, TimingAssumption
<1>9. ASSUME NEW p \in Pods, Restart(p) PROVE ReadsAreVersioned'
  BY <1>9 DEF Restart, ReadsAreVersioned, IsExpired
<1>10. QED
  BY <1>1, <1>2, <1>3, <1>4, <1>5, <1>6, <1>7, <1>8, <1>9
     DEF Next, Exit, StandbyStops, Crash

\* Only a PUT that is applied changes the Lease, and it names the writer.
LEMMA OnlyWritesChangeLease ==
    ASSUME TypeOK, [Next]_vars, lease' # lease
    PROVE  \E p \in Pods : phase[p] = "put" /\ Unchanged(p) /\ Write(p)
                           /\ now' = now
BY DEF Next, vars, pod, Tick, BeginAttempt, GetFails, GetHeldByOther,
       GetClaimable, PutSucceeds, PutConflicts, PutFails, ServiceEnds, Exit,
       StandbyStops, Crash, Gone, Restart

\* A lease changes hands only when it has expired, whatever the constants.
THEOREM TakeoverCorrect == Spec => TakeoverOnlyOfExpired
<1> DEFINE TakeoverInv == TypeOK /\ TimeInv /\ ReadsAreVersioned
           Takeover == lease'.holder # lease.holder /\ lease.holder # NoPod
                           => IsExpired(lease, now + MaxSkew)
<1>1. Init => TakeoverInv
  BY TypeInit, TimeInit DEF Init, ReadsAreVersioned
<1>2. TakeoverInv /\ [Next]_vars => TakeoverInv'
  BY TypeStep, TimeStep, ReadsStep
<1>3. TakeoverInv /\ [Next]_vars => [Takeover]_vars
  <2> SUFFICES ASSUME TakeoverInv, [Next]_vars, lease'.holder # lease.holder,
                      lease.holder # NoPod
               PROVE  IsExpired(lease, now + MaxSkew)
    OBVIOUS
  <2>1. PICK p \in Pods : phase[p] = "put" /\ Unchanged(p) /\ Write(p)
    BY OnlyWritesChangeLease
  <2>2. lease'.holder = p  BY <2>1 DEF Write
  <2>3. observed[p] = lease  BY <2>1 DEF ReadsAreVersioned, Unchanged
  <2>4. IsExpired(lease, attemptNow[p])
    BY <2>1, <2>2, <2>3 DEF ReadsAreVersioned
  <2>5. attemptNow[p] <= Clock(p)  BY <2>1 DEF TimeInv, TimePod
  <2>6. /\ lease.duration \in Nat /\ lease.renew \in Nat
        /\ attemptNow[p] \in Nat /\ now \in Nat
        /\ offset[p] \in 0 .. MaxSkew
    BY DEF TypeOK, LeaseRecord
  <2>7. QED  BY <2>4, <2>5, <2>6, TimingAssumption DEF IsExpired, Clock
<1>4. QED
  BY <1>1, <1>2, <1>3, PTL DEF Spec, TakeoverOnlyOfExpired

-----------------------------------------------------------------------------
(* Safety.  From here on the constants are timing-safe. *)

\* The heart of the argument: a record that another pod may take over, read
\* and still unchanged, is not the record of a live pod.  The live pod has
\* stepped down by StepDownBound after its renewal, and even the fastest clock
\* reads the record as expired only later.
LEMMA NoTakeoverFromLive ==
    ASSUME TimingSafe, TypeOK, TimeInv, LeaseInv,
           NEW p \in Pods, NEW q \in Pods, phase[p] = "put", Unchanged(p), Live(q)
    PROVE  p = q
<1> SUFFICES ASSUME p # q PROVE FALSE
  OBVIOUS
<1>1. observed[p] = lease
  BY DEF LeaseInv, ReadsAreVersioned, Unchanged
<1>2. lease.holder = q /\ lease.renew >= lastRenew[q] /\ lease.duration = Promised(q)
  BY DEF LeaseInv, LiveHoldsLease
<1>3. IsExpired(lease, attemptNow[p])
  BY <1>1, <1>2, PodsAssumption DEF LeaseInv, ReadsAreVersioned
<1>4. attemptNow[p] <= Clock(p)  BY DEF TimeInv, TimePod
<1>5. now <= RenewedAt(q) + StepDownBound(q)
  <2>1. TimePod(q)  BY DEF TimeInv
  <2>2. phase[q] \in {"wait", "get", "put"}  BY DEF TypeOK, Phases
  <2>3. QED
    BY <2>1, <2>2, ToleranceFacts, SettingsType, TimingAssumption
       DEF TimePod, Live, TypeOK, RenewedAt, StepDownBound
<1>6. /\ lease.renew \in Nat /\ lastRenew[q] \in Nat /\ attemptNow[p] \in Nat
      /\ offset[p] \in 0 .. MaxSkew /\ offset[q] \in 0 .. MaxSkew /\ now \in Nat
  BY DEF TypeOK, LeaseRecord
<1>7. StepDownBound(q) \in Int /\ Promised(q) \in Int
  BY ToleranceFacts, SettingsType, TimingAssumption DEF StepDownBound
<1>8. QED
  BY <1>2, <1>3, <1>4, <1>5, <1>6, <1>7, TimingAssumption
     DEF TimingSafe, IsExpired, Clock, RenewedAt

\* A write by p that passes the compare and swap: nobody but p was live.
LEMMA WriteKeepsHolder ==
    ASSUME TimingSafe, TypeOK, TimeInv, LeaseInv, NEW p \in Pods,
           phase[p] = "put", Unchanged(p), Write(p),
           \A q \in Pods \ {p} : role'[q] = role[q],
           lastRenew'[p] <= attemptNow[p]
    PROVE  LiveHoldsLease'
<1> SUFFICES ASSUME NEW q \in Pods, Live(q)'
             PROVE  /\ lease'.holder = q
                    /\ lease'.renew >= lastRenew'[q]
                    /\ lease'.duration = Promised(q)
  BY DEF LiveHoldsLease, Promised, Rounded
<1>1. /\ lease'.holder = p
      /\ lease'.renew = attemptNow[p]
      /\ lease'.duration = Promised(p)
  BY DEF Write
<1>2. q = p  BY NoTakeoverFromLive DEF Live
<1>3. QED  BY <1>1, <1>2

LEMMA LeaseStep ==
    TimingSafe /\ TypeOK /\ TypeOK' /\ TimeInv /\ LeaseInv /\ [Next]_vars
        => LeaseInv'
<1> SUFFICES ASSUME TimingSafe, TypeOK, TypeOK', TimeInv, LeaseInv, [Next]_vars
             PROVE  LiveHoldsLease'
  BY ReadsStep DEF LeaseInv
<1> USE DEF LeaseInv
<1>1. ASSUME lease' = lease,
             \A q \in Pods : Live(q)' => Live(q) /\ lastRenew'[q] = lastRenew[q]
      PROVE  LiveHoldsLease'
  BY <1>1 DEF LiveHoldsLease
<1>2. CASE Tick \/ UNCHANGED vars
  BY <1>1, <1>2 DEF Tick, vars, pod, Live
<1>3. ASSUME NEW p \in Pods, BeginAttempt(p) \/ GetClaimable(p)
      PROVE LiveHoldsLease'
  BY <1>1, <1>3 DEF BeginAttempt, GetClaimable, Live
<1>4. ASSUME NEW p \in Pods, GetFails(p) \/ GetHeldByOther(p) \/ PutConflicts(p)
      PROVE LiveHoldsLease'
  <2>1. (Failed(p) \/ HeldByOther(p)) /\ lease' = lease
    BY <1>4 DEF GetFails, GetHeldByOther, PutConflicts
  <2>2. QED  BY <1>1, <2>1, FailedEffect
<1>5. ASSUME NEW p \in Pods, PutSucceeds(p) PROVE LiveHoldsLease'
  <2>1. /\ role' = [role EXCEPT ![p] = "leading"]
        /\ lastRenew' = [lastRenew EXCEPT ![p] = attemptNow[p]]
        /\ phase[p] = "put" /\ Unchanged(p) /\ Write(p)
    BY <1>5 DEF PutSucceeds, MarkLeader
  <2>2. lastRenew'[p] <= attemptNow[p]  BY <2>1 DEF TypeOK
  <2>3. \A q \in Pods \ {p} : role'[q] = role[q]  BY <2>1 DEF TypeOK
  <2>4. QED  BY <2>1, <2>2, <2>3, WriteKeepsHolder
<1>6. ASSUME NEW p \in Pods, PutFails(p) PROVE LiveHoldsLease'
  <2>1. Failed(p) /\ phase[p] = "put"  BY <1>6 DEF PutFails
  <2>2. CASE UNCHANGED lease
    BY <1>1, <2>1, <2>2, FailedEffect
  <2>3. CASE Unchanged(p) /\ Write(p)
    <3>1. lastRenew[p] <= attemptNow[p]  BY <2>1 DEF TimeInv, TimePod
    <3>2. QED  BY <2>1, <2>3, <3>1, FailedEffect, WriteKeepsHolder
  <2>4. QED  BY <1>6, <2>2, <2>3 DEF PutFails
<1>7. ASSUME NEW p \in Pods, ServiceEnds(p) PROVE LiveHoldsLease'
  BY <1>1, <1>7 DEF ServiceEnds, StepDown, Live, TypeOK
<1>8. ASSUME NEW p \in Pods, Gone(p) PROVE LiveHoldsLease'
  BY <1>1, <1>8 DEF Gone, Live, TypeOK
<1>9. ASSUME NEW p \in Pods, Restart(p) PROVE LiveHoldsLease'
  BY <1>1, <1>9 DEF Restart, Live, TypeOK
<1>10. QED
  BY <1>2, <1>3, <1>4, <1>5, <1>6, <1>7, <1>8, <1>9
     DEF Next, Exit, StandbyStops, Crash

SafetyInv == TypeOK /\ TimeInv /\ LeaseInv

LEMMA SafetyInit == Init => SafetyInv
<1>1. Init => LeaseInv
  BY DEF Init, LeaseInv, ReadsAreVersioned, LiveHoldsLease, Live
<1>2. QED  BY <1>1, TypeInit, TimeInit DEF SafetyInv

LEMMA SafetyStep == TimingSafe /\ SafetyInv /\ [Next]_vars => SafetyInv'
BY TypeStep, TimeStep, LeaseStep DEF SafetyInv

\* Only the pod named in the Lease trades, if the times are timing-safe.
THEOREM LeaseCorrect == ASSUME TimingSafe PROVE Spec => []LiveHoldsLease
<1>1. Init => SafetyInv  BY SafetyInit
<1>2. SafetyInv /\ [Next]_vars => SafetyInv'  BY SafetyStep
<1>3. SafetyInv => LiveHoldsLease  BY DEF SafetyInv, LeaseInv
<1>4. QED  BY <1>1, <1>2, <1>3, PTL DEF Spec

\* At most one pod trades, if the times are timing-safe.
THEOREM MutualExclusion == ASSUME TimingSafe PROVE Spec => []AtMostOneService
<1>1. LiveHoldsLease => AtMostOneService
  BY DEF LiveHoldsLease, AtMostOneService
<1>2. QED  BY <1>1, LeaseCorrect, PTL

-----------------------------------------------------------------------------
(* Settings that are timing-safe, in terms of what an operator configures *)

\* What the Lease says is within half a second of the setting, and is a whole
\* setting itself.
LEMMA RoundedClose ==
    ASSUME NEW d \in Nat
    PROVE  2 * d - Second <= 2 * Rounded(d) /\ 2 * Rounded(d) <= 2 * d + Second
<1> DEFINE whole == d \div Second
           rest == d % Second
<1>1. Second \in Nat /\ Second > 0  BY TimingAssumption
<1>2. /\ whole \in Nat /\ rest \in Nat /\ rest < Second
      /\ d = Second * whole + rest
  BY <1>1
<1>3. \/ Rounded(d) = Second * whole /\ 2 * rest <= Second
      \/ Rounded(d) = Second * (whole + 1) /\ 2 * rest >= Second
  <2> HIDE DEF whole, rest
  <2>1. Rounded(d) =
          Second * (IF 2 * rest > Second \/ (2 * rest = Second /\ whole % 2 = 1)
                      THEN whole + 1 ELSE whole)
    BY DEF Rounded, whole, rest
  <2>2. CASE 2 * rest > Second \/ (2 * rest = Second /\ whole % 2 = 1)
    BY <1>1, <1>2, <2>1, <2>2
  <2>3. CASE ~(2 * rest > Second \/ (2 * rest = Second /\ whole % 2 = 1))
    BY <1>1, <1>2, <2>1, <2>3
  <2>4. QED  BY <2>2, <2>3
<1>4. Second * (whole + 1) = Second * whole + Second
  BY <1>1, <1>2
<1>5. Second * whole \in Nat
  BY <1>1, <1>2
<1> HIDE DEF whole, rest
<1>6. QED  BY <1>1, <1>2, <1>3, <1>4, <1>5

LEMMA RoundedWhole ==
    ASSUME NEW n \in Nat
    PROVE  n * Second \in Nat /\ Rounded(n * Second) = n * Second
<1>1. Second \in Nat /\ Second > 0  BY TimingAssumption
<1>2. n * Second \in Nat  BY <1>1
<1>3. (n * Second) \div Second = n /\ (n * Second) % Second = 0
  BY <1>1, <1>2
<1>4. Rounded(n * Second) = Second * n
  BY <1>1, <1>3 DEF Rounded
<1>5. QED  BY <1>1, <1>2, <1>4

\* Half a second more than the pods need to step down covers the rounding of
\* lease_duration_sec, whatever the settings are.
THEOREM MarginSuffices ==
    ASSUME \A p \in Pods :
               2 * (StepDownBound(p) + MaxSkew) + Second <= 2 * LeaseDuration[p]
    PROVE  Spec => []AtMostOneService
<1>1. ASSUME NEW p \in Pods
      PROVE  StepDownBound(p) + MaxSkew <= Promised(p)
  <2>1. 2 * LeaseDuration[p] - Second <= 2 * Promised(p)
    BY SettingsType, RoundedClose DEF Promised
  <2>2. /\ StepDownBound(p) \in Nat /\ MaxSkew \in Nat /\ Second \in Nat
        /\ LeaseDuration[p] \in Nat /\ Promised(p) \in Nat
    BY SettingsType, TimingAssumption DEF StepDownBound, Tolerance
  <2>3. QED  BY <2>1, <2>2
<1>2. TimingSafe  BY <1>1 DEF TimingSafe
<1>3. QED  BY <1>2, MutualExclusion

\* With lease.py's defaults (15 s, 10 s and 2 s), whole seconds that the Lease
\* keeps, three slow steps, the teardown and the skew of the clocks have three
\* seconds between them.
THEOREM DefaultsSuffice ==
    ASSUME \A p \in Pods : /\ LeaseDuration[p] = 15 * Second
                           /\ RenewDeadline[p] = 10 * Second
                           /\ RetryPeriod[p] = 2 * Second,
           3 * MaxDelay + Drain + MaxSkew <= 3 * Second
    PROVE  Spec => []AtMostOneService
<1>1. ASSUME NEW p \in Pods
      PROVE  StepDownBound(p) + MaxSkew <= Promised(p)
  <2>1. /\ Second \in Nat /\ MaxDelay \in Nat /\ Drain \in Nat /\ MaxSkew \in Nat
    BY TimingAssumption
  <2>2. Promised(p) = 15 * Second
    BY RoundedWhole DEF Promised
  <2>3. Tolerance(p) = 10 * Second
    BY <2>1 DEF Tolerance
  <2>4. QED  BY <2>1, <2>2, <2>3 DEF StepDownBound
<1>2. TimingSafe  BY <1>1 DEF TimingSafe
<1>3. QED  BY <1>2, MutualExclusion

-----------------------------------------------------------------------------
(* Refinement *)

Active == {p \in Pods : Live(p)}

\* Every step of the election is a step of the lock, or leaves it alone.
LEMMA LockStep ==
    ASSUME TimingSafe, SafetyInv, SafetyInv', [Next]_vars
    PROVE  [Lock!Next]_Active
<1>1. \A p, q \in Pods : (Live(p) /\ Live(q) => p = q) /\ (Live(p)' /\ Live(q)' => p = q)
  BY DEF SafetyInv, LeaseInv, LiveHoldsLease
<1>2. CASE role' = role
  BY <1>2 DEF Active, Live
<1>3. ASSUME NEW p \in Pods, NEW r \in Roles, role' = [role EXCEPT ![p] = r]
      PROVE  [Lock!Next]_Active
  <2>1. \A q \in Pods \ {p} : Live(q)' <=> Live(q)
    BY <1>3 DEF Live, SafetyInv, TypeOK
  <2>2. CASE Live(p) /\ Live(p)'
    BY <2>1, <2>2 DEF Active
  <2>3. CASE Live(p) /\ ~Live(p)'
    <3>1. Active = {p} /\ Active' = {}  BY <1>1, <2>1, <2>3 DEF Active
    <3>2. QED  BY <3>1 DEF Lock!Next, Lock!Leave, Active
  <2>4. CASE ~Live(p) /\ Live(p)'
    <3>1. Active = {} /\ Active' = {p}  BY <1>1, <2>1, <2>4 DEF Active
    <3>2. QED  BY <3>1 DEF Lock!Next, Lock!Enter, Active
  <2>5. CASE ~Live(p) /\ ~Live(p)'
    BY <2>1, <2>5 DEF Active
  <2>6. QED  BY <2>2, <2>3, <2>4, <2>5
<1>4. role' = role \/ \E p \in Pods, r \in Roles : role' = [role EXCEPT ![p] = r]
  BY DEF Next, vars, pod, Tick, BeginAttempt, GetFails, GetHeldByOther,
         GetClaimable, PutSucceeds, PutConflicts, PutFails, ServiceEnds, Exit,
         StandbyStops, Crash, Gone, Restart, Failed, HeldByOther, StepDown,
         MarkLeader, Roles
<1>5. QED  BY <1>2, <1>3, <1>4

\* Timing-safe leader election implements a lock on the environment.
THEOREM ImplementsLock == ASSUME TimingSafe PROVE Spec => LockSpec
<1>1. Init => SafetyInv  BY SafetyInit
<1>2. SafetyInv /\ [Next]_vars => SafetyInv'  BY SafetyStep
<1>3. Init => Lock!Init  BY DEF Init, Lock!Init, Live
<1>4. SafetyInv /\ SafetyInv' /\ [Next]_vars => [Lock!Next]_Active
  BY LockStep
<1>5. QED  BY <1>1, <1>2, <1>3, <1>4, PTL DEF Spec, LockSpec, Lock!Spec, Active
=============================================================================
