-------------------------- MODULE CredentialLease --------------------------
(***************************************************************************)
(* The renewal loop of a credential lease, its timer and the Stop of a     *)
(* teardown that runs concurrently with it.  Time passes at any moment, so *)
(* a timer may fire late and a renewal may take long.  The value-free      *)
(* notifications to the session record are left out.                       *)
(***************************************************************************)
EXTENDS Integers

CONSTANTS
    MinLife,       \* leaseMinimumUsableLifetime
    InitialRetry,  \* leaseInitialRetry
    MaxRetry,      \* leaseMaximumRetry
    Expiries,      \* lifetimes a minted batch may have
    Horizons,      \* policy horizons
    NoHorizon,     \* the one that is none
    MaxAttempts,   \* bound of the failed attempts in a row
    MaxTime        \* bound of the clock

\* What the package's constants and a policy's durations satisfy.
ASSUME LeaseAssumption ==
    /\ MinLife \in Nat /\ InitialRetry \in Nat \ {0} /\ MaxRetry \in Nat
    /\ InitialRetry <= MaxRetry
    /\ Expiries \subseteq Nat /\ Horizons \subseteq Nat \cup {NoHorizon}
    /\ NoHorizon \notin Nat
    /\ MaxAttempts \in Nat /\ MaxTime \in Nat

VARIABLES
    now,
    state, expires, horizon, retry, attempts,   \* the LeaseSnapshot
    loop,        \* the goroutine: plan, publish, wait, fired, renew, ended
    leaseTimer,       \* the latest timer: is it published, running, when it fires
    cancelled,   \* the lease's context
    leaseStop         \* Stop: idle, timer, await, late, done

snapshot == <<state, expires, horizon, retry, attempts>>
leaseVars == <<now, snapshot, loop, leaseTimer, cancelled, leaseStop>>

States == {"healthy", "renewing", "degraded", "expired"}
NoTimer == [published |-> FALSE, running |-> FALSE, at |-> 0]

\* Every variable stays in its domain and a healthy lease has no failure to
\* its account (setRenewalSuccess).
LeaseTypeOK ==
    /\ now \in Nat /\ state \in States /\ expires \in Nat
    /\ horizon \in Nat \cup {NoHorizon} /\ retry \in Int /\ attempts \in Nat
    /\ loop \in {"plan", "publish", "wait", "fired", "renew", "ended"}
    /\ leaseTimer \in [published : BOOLEAN, running : BOOLEAN, at : Nat]
    /\ cancelled \in BOOLEAN
    /\ state = "healthy" => retry = 0 /\ attempts = 0
    /\ leaseStop \in {"idle", "timer", "await", "late", "done"}

\* StartLease: the batch was just staged; the horizon counts from before the
\* staging and may already have passed.
LeaseInit ==
    /\ now = 0 /\ state = "healthy" /\ expires \in Expiries /\ horizon \in Horizons
    /\ retry = 0 /\ attempts = 0 /\ loop = "plan" /\ leaseTimer = NoTimer
    /\ cancelled = FALSE /\ leaseStop = "idle"

-----------------------------------------------------------------------------
(* The loop *)

\* Mutant: a horizon that has passed is not noticed.
PastHorizonUnseen == FALSE
PastHorizon == horizon # NoHorizon /\ now >= horizon
Expired == PastHorizon \/ now >= expires

\* expiredAt: terminal, whatever the state was.
ExpireLease == state' = "expired" /\ retry' = 0 /\ loop' = "ended"

\* Mutant: only the expiry bounds the sleep.
DeadlineOfToken == expires
\* deadline: the horizon or the expiry, whichever comes first.
Deadline == IF horizon # NoHorizon /\ horizon < expires THEN horizon ELSE expires

\* The delay of a retry or two thirds of the remaining life, within the deadline.
NextDelay ==
    LET d == IF state = "degraded" /\ retry > 0 THEN retry
                                                ELSE ((expires - now) * 2) \div 3
        e == IF d < 0 THEN 0 ELSE d
    IN  IF now + e > Deadline THEN Deadline - now ELSE e

\* nextDelay and NewTimer, which take no time at the scale of the delays.  The
\* timer that is replaced has fired.
Plan ==
    /\ loop = "plan"
    /\ \/ Expired /\ ExpireLease /\ UNCHANGED leaseTimer
       \/ /\ ~Expired /\ loop' = "publish" /\ UNCHANGED <<state, retry>>
          /\ leaseTimer' = [published |-> FALSE, running |-> TRUE, at |-> now + NextDelay]
    /\ UNCHANGED <<now, expires, horizon, attempts, cancelled, leaseStop>>

\* l.timer = timer, where Stop finds it.
Publish ==
    /\ loop = "publish" /\ loop' = "wait"
    /\ leaseTimer' = [leaseTimer EXCEPT !.published = TRUE]
    /\ UNCHANGED <<now, snapshot, cancelled, leaseStop>>

\* The select: a cancelled context ends the loop, a fired timer goes on, and
\* either may win when both are ready.
Cancelled ==
    /\ loop = "wait" /\ cancelled /\ loop' = "ended"
    /\ UNCHANGED <<now, snapshot, leaseTimer, cancelled, leaseStop>>
Fires ==
    /\ loop = "wait" /\ leaseTimer.running /\ now >= leaseTimer.at
    /\ loop' = "fired" /\ leaseTimer' = [leaseTimer EXCEPT !.running = FALSE]
    /\ UNCHANGED <<now, snapshot, cancelled, leaseStop>>

Wake ==
    /\ loop = "fired"
    /\ \/ ~Expired /\ state' = "renewing" /\ loop' = "renew" /\ UNCHANGED retry
       \/ Expired /\ ExpireLease
    /\ UNCHANGED <<now, expires, horizon, attempts, leaseTimer, cancelled, leaseStop>>

Double(d) == IF 2 * d > MaxRetry THEN MaxRetry ELSE 2 * d
\* leaseRetryDelay: exponential up to the maximum.
RetryDelay[n \in Nat] == IF n <= 1 THEN InitialRetry ELSE Double(RetryDelay[n - 1])

\* boundedLeaseJitter: at most a fifth longer, never beyond the maximum.
Longest(base) ==
    IF base + base \div 5 > MaxRetry THEN MaxRetry ELSE base + base \div 5

\* setRenewalFailure: an error, or a batch whose life is too short.
RenewalFails ==
    /\ loop = "renew" /\ attempts < MaxAttempts
    /\ state' = "degraded" /\ attempts' = attempts + 1
    /\ retry' \in RetryDelay[attempts + 1]..Longest(RetryDelay[attempts + 1])
    /\ loop' = "plan"
    /\ UNCHANGED <<now, expires, horizon, leaseTimer, cancelled, leaseStop>>

\* setRenewalSuccess.
RenewalSucceeds ==
    /\ loop = "renew"
    /\ \E e \in Expiries : e >= MinLife /\ expires' = now + e
    /\ state' = "healthy" /\ retry' = 0 /\ attempts' = 0 /\ loop' = "plan"
    /\ UNCHANGED <<now, horizon, leaseTimer, cancelled, leaseStop>>

-----------------------------------------------------------------------------
(* Stop *)

\* Stop the published timer, if there is one.
StopTimer == leaseTimer' = IF leaseTimer.published THEN [leaseTimer EXCEPT !.running = FALSE] ELSE leaseTimer

StopCancel ==
    /\ leaseStop = "idle" /\ leaseStop' = "timer" /\ cancelled' = TRUE
    /\ UNCHANGED <<now, snapshot, loop, leaseTimer>>
StopPending ==
    /\ leaseStop = "timer" /\ leaseStop' = "await" /\ StopTimer
    /\ UNCHANGED <<now, snapshot, loop, cancelled>>
StopAwait ==
    /\ leaseStop = "await" /\ loop = "ended" /\ leaseStop' = "late"
    /\ UNCHANGED <<now, snapshot, loop, leaseTimer, cancelled>>

\* Mutant: the timer armed meanwhile is forgotten.
StopLateForgotten ==
    /\ leaseStop = "late" /\ leaseStop' = "done"
    /\ UNCHANGED <<now, snapshot, loop, leaseTimer, cancelled>>
\* The loop may have armed another timer before it saw the cancellation.
StopLate ==
    /\ leaseStop = "late" /\ leaseStop' = "done" /\ StopTimer
    /\ UNCHANGED <<now, snapshot, loop, cancelled>>

Tick ==
    /\ now < MaxTime /\ now' = now + 1
    /\ UNCHANGED <<snapshot, loop, leaseTimer, cancelled, leaseStop>>

Run == Plan \/ Publish \/ Cancelled \/ Fires \/ Wake \/ RenewalFails \/ RenewalSucceeds
Stop == StopCancel \/ StopPending \/ StopAwait \/ StopLate
LeaseNext == Run \/ Stop \/ Tick
LeaseSpec == LeaseInit /\ [][LeaseNext]_leaseVars

\* Goroutines are scheduled, a renewal returns (its requests have the lease's
\* context), and the clock advances.  Nobody has to call Stop.
Fairness ==
    /\ WF_leaseVars(Run) /\ WF_leaseVars(Tick)
    /\ WF_leaseVars(StopPending) /\ WF_leaseVars(StopAwait) /\ WF_leaseVars(StopLate)
LiveSpec == LeaseSpec /\ Fairness

-----------------------------------------------------------------------------
(* Properties *)

\* The loop never sleeps past the deadline it knows: an expired lease is
\* noticed when it expires and not at the end of a retry (nextDelay).
NeverOversleeps ==
    loop = "wait" /\ leaseTimer.running =>
        leaseTimer.at <= expires /\ (horizon # NoHorizon => leaseTimer.at <= horizon)

\* When Stop has returned no renewal is under way or will start and no timer is
\* left, whatever the loop was doing when Stop was called (Lease.Stop).
StopLeavesNothing == leaseStop = "done" => loop = "ended" /\ ~leaseTimer.running

\* A failing lease retries after the exponential delay of its attempts or up to
\* a fifth later, and never waits longer than the maximum (leaseRetryDelay,
\* boundedLeaseJitter).
RetryWithinBounds ==
    state = "degraded" =>
        LET base == InitialRetry * 2^(attempts - 1) IN
        /\ retry <= MaxRetry /\ 5 * retry <= 6 * base
        /\ retry >= (IF base < MaxRetry THEN base ELSE MaxRetry)

\* A horizon ends the lease, however its renewals go (expiredAt).
HorizonEnds == horizon # NoHorizon ~> loop = "ended"

\* Stop returns: it never waits for a loop that waits for a stopped timer.
StopReturns == leaseStop = "timer" ~> leaseStop = "done"
=============================================================================
