------------------------------ MODULE HedgeDesk ------------------------------
(***************************************************************************)
(* What whoever owns the account may rely on (daemon/app/hedge_flow.py):   *)
(* hedges come only from a desk that has opened and is not out; each one   *)
(* takes the delta it knows, that of the positions as it last looked at    *)
(* them, towards zero; a process sends no more of them in a day than a     *)
(* limit says; and one at most is late for a suspension.  A desk that is   *)
(* out stays out until another process takes over.                         *)
(***************************************************************************)
EXTENDS Integers

CONSTANT Limits    \* the daily limits that the configurations set

VARIABLES
    desk,       \* "shut", "open", or "out"
    known,      \* the delta of the account when the process last looked, or 0
    order,      \* the shares of the last hedge of this process, or 0
    mine,       \* the hedges of this process today
    today,      \* the hedges of all processes today
    flag,       \* trading is suspended
    late        \* hedges since it was

account == <<known, order>>
counts == <<mine, today>>
suspension == <<flag, late>>
vars == <<desk, account, counts, suspension>>

Init ==
    /\ desk = "shut"
    /\ known = 0 /\ order = 0
    /\ mine = 0 /\ today = 0
    /\ flag \in BOOLEAN /\ late = 0

\* The desk opens, or does not; an open one may have to go out.
Open ==
    /\ desk = "shut"
    /\ desk' \in {"open", "out"}
    /\ UNCHANGED <<account, counts, suspension>>
GoOut ==
    /\ desk = "open"
    /\ desk' = "out"
    /\ UNCHANGED <<account, counts, suspension>>

\* A position of d shares is nearer to zero than one of e, on the same side.
Nearer(d, e) == (0 <= d /\ d < e) \/ (e < d /\ d <= 0)

Send ==
    /\ desk = "open"
    /\ Nearer(known + order', known)
    /\ \E limit \in Limits : mine < limit
    /\ flag => late = 0
    /\ desk' \in {"open", "out"}
    /\ mine' = mine + 1 /\ today' = today + 1
    /\ late' = IF flag THEN late + 1 ELSE 0
    /\ UNCHANGED <<known, flag>>

\* Another process takes over: it has not looked at the account.
TakeOver ==
    /\ desk' = "shut"
    /\ known' = 0 /\ order' = 0
    /\ mine' = 0
    /\ UNCHANGED <<today, suspension>>

\* Only now does the process learn what the account has become.
Look ==
    /\ known' \in Int
    /\ UNCHANGED <<desk, order, counts, suspension>>

NewDay ==
    /\ mine' = 0 /\ today' = 0
    /\ UNCHANGED <<desk, account, suspension>>

Suspend ==
    /\ flag' = ~flag
    /\ late' = 0
    /\ UNCHANGED <<desk, account, counts>>

Next == Open \/ GoOut \/ Send \/ TakeOver \/ Look \/ NewDay \/ Suspend

Spec == Init /\ [][Next]_vars
=============================================================================
