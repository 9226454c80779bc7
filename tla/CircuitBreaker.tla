--------------------------- MODULE CircuitBreaker ---------------------------
(***************************************************************************)
(* The circuit breaker in front of the AFIP sidecar                        *)
(* (backend/internal/infra/circuit_breaker.go).  One breaker is shared by  *)
(* the invoicing workers, the retry cron and the health endpoint.  Its     *)
(* fields change only under cb.mu, but Execute releases the mutex while fn *)
(* (the HTTP call) runs: a call that was let through in one state may      *)
(* report its result in another.                                           *)
(*                                                                         *)
(* Time is the number of ticks since the last failure, saturating at       *)
(* OpenTimeout: the code only ever asks whether the timeout has elapsed.   *)
(***************************************************************************)
EXTENDS Naturals, FiniteSets

CONSTANTS
    Callers,            \* goroutines that call Execute
    FailureThreshold,   \* failures in a row that trip the breaker
    SuccessThreshold,   \* successes in a row, half-open, that close it
    OpenTimeout         \* ticks to stay open before probing

\* NewCircuitBreaker replaces non-positive parameters by its defaults.
ASSUME ThresholdsPositive ==
    /\ FailureThreshold \in Nat \ {0}
    /\ SuccessThreshold \in Nat \ {0}
    /\ OpenTimeout \in Nat \ {0}

ASSUME CallersFinite == IsFiniteSet(Callers)

VARIABLES
    state,          \* cb.state
    failureCount,   \* cb.failureCount
    successCount,   \* cb.successCount
    elapsed,        \* ticks since cb.lastFailureTime, at most OpenTimeout
    calls,          \* per caller: where its Execute is
    failRun,        \* history: failed results in a row, at most FailureThreshold
    okRun           \* history: successful results in a row, at most SuccessThreshold

cbVars == <<state, failureCount, successCount, elapsed>>
history == <<failRun, okRun>>
vars == <<state, failureCount, successCount, elapsed, calls, failRun, okRun>>

CBState == {"Closed", "Open", "HalfOpen"}

\* A caller is outside Execute, inside fn having been admitted in the
\* closed or in the half-open state, or was refused with ErrCircuitOpen.
CallState == {"idle", "inClosed", "inHalfOpen", "refused"}

InFn(c) == calls[c] \in {"inClosed", "inHalfOpen"}

AtMost(n, bound) == IF n <= bound THEN n ELSE bound

-----------------------------------------------------------------------------

\* The zero lastFailureTime lies far in the past.
Init ==
    /\ state = "Closed"
    /\ failureCount = 0
    /\ successCount = 0
    /\ elapsed = OpenTimeout
    /\ calls = [c \in Callers |-> "idle"]
    /\ failRun = 0
    /\ okRun = 0

\* Faulty variant: State() does not look at the time of the last failure.
TimedOutAtOnce == state = "Open"

\* State(): what it returns, and the fields it leaves behind.
TimedOut == state = "Open" /\ elapsed >= OpenTimeout

StateNow == IF TimedOut THEN "HalfOpen" ELSE state

\* Faulty variant: successes of an earlier half-open period are kept.
ReadStateKeepingSuccesses ==
    /\ state' = StateNow
    /\ UNCHANGED <<failureCount, successCount, elapsed>>

ReadState ==
    /\ state' = StateNow
    /\ successCount' = IF TimedOut THEN 0 ELSE successCount
    /\ UNCHANGED <<failureCount, elapsed>>

\* The health endpoint and the cron look at the breaker without calling fn.
Query ==
    /\ ReadState
    /\ UNCHANGED <<calls, failRun, okRun>>

\* Execute up to the call of fn, or to the return of ErrCircuitOpen.
Begin(c) ==
    /\ ~InFn(c)
    /\ ReadState
    /\ calls' = [calls EXCEPT ![c] =
                    IF StateNow = "Open" THEN "refused"
                    ELSE IF StateNow = "Closed" THEN "inClosed"
                    ELSE "inHalfOpen"]
    /\ UNCHANGED history

\* onFailure, and the end of Execute.
Tripped ==
    \/ state = "Closed" /\ failureCount + 1 >= FailureThreshold
    \/ state = "HalfOpen"

\* Faulty variant: a failed probe leaves the failure count as it was.
OnFailureKeepingCount ==
    /\ state' = IF Tripped THEN "Open" ELSE state
    /\ failureCount' = failureCount + 1
    /\ successCount' = IF Tripped /\ state = "Closed" THEN 0 ELSE successCount
    /\ elapsed' = 0

OnFailure ==
    /\ state' = IF Tripped THEN "Open" ELSE state
    /\ failureCount' = IF state = "HalfOpen" THEN 0 ELSE failureCount + 1
    /\ successCount' = IF Tripped /\ state = "Closed" THEN 0 ELSE successCount
    /\ elapsed' = 0

EndFailure(c) ==
    /\ InFn(c)
    /\ OnFailure
    /\ calls' = [calls EXCEPT ![c] = "idle"]
    /\ failRun' = AtMost(failRun + 1, FailureThreshold)
    /\ okRun' = 0

\* Faulty variant: the first successful probe closes the breaker.
RecoveredAtOnce == state = "HalfOpen"

\* onSuccess, and the end of Execute.
Recovered == state = "HalfOpen" /\ successCount + 1 >= SuccessThreshold

\* Faulty variant: a success in the closed state does not clear the run.
OnSuccessKeepingFailures ==
    /\ state' = IF Recovered THEN "Closed" ELSE state
    /\ failureCount' = IF Recovered THEN 0 ELSE failureCount
    /\ successCount' = IF Recovered THEN 0
                       ELSE IF state = "HalfOpen" THEN successCount + 1
                       ELSE successCount
    /\ UNCHANGED elapsed

\* Faulty variant: a success pays back one failure instead of all.
OnSuccessPayingBack ==
    /\ state' = IF Recovered THEN "Closed" ELSE state
    /\ failureCount' = IF Recovered THEN 0 ELSE failureCount - 1
    /\ successCount' = IF Recovered THEN 0
                       ELSE IF state = "HalfOpen" THEN successCount + 1
                       ELSE successCount
    /\ UNCHANGED elapsed

\* Faulty variant: only the closed state listens to successes.
OnSuccessClosedOnly ==
    /\ failureCount' = IF state = "Closed" THEN 0 ELSE failureCount
    /\ UNCHANGED <<state, successCount, elapsed>>

OnSuccess ==
    /\ state' = IF Recovered THEN "Closed" ELSE state
    /\ failureCount' = IF state = "Closed" \/ Recovered THEN 0 ELSE failureCount
    /\ successCount' = IF Recovered THEN 0
                       ELSE IF state = "HalfOpen" THEN successCount + 1
                       ELSE successCount
    /\ UNCHANGED elapsed

EndSuccess(c) ==
    /\ InFn(c)
    /\ OnSuccess
    /\ calls' = [calls EXCEPT ![c] = "idle"]
    /\ failRun' = 0
    /\ okRun' = AtMost(okRun + 1, SuccessThreshold)

Tick ==
    /\ elapsed < OpenTimeout
    /\ elapsed' = elapsed + 1
    /\ UNCHANGED <<state, failureCount, successCount, calls, failRun, okRun>>

Next ==
    \/ Query
    \/ Tick
    \/ \E c \in Callers : Begin(c) \/ EndFailure(c) \/ EndSuccess(c)

\* The workers and the cron keep calling, the HTTP client has a 30 s
\* timeout so fn always returns, and time passes.  Which of the two ends a
\* call has is the sidecar's choice.
Fairness ==
    /\ WF_vars(Tick)
    /\ \A c \in Callers : WF_vars(Begin(c)) /\ WF_vars(EndFailure(c) \/ EndSuccess(c))

Spec == Init /\ [][Next]_vars

FairSpec == Spec /\ Fairness

-----------------------------------------------------------------------------

TypeOK ==
    /\ state \in CBState
    /\ failureCount \in Nat
    /\ successCount \in Nat
    /\ elapsed \in 0..OpenTimeout
    /\ calls \in [Callers -> CallState]
    /\ failRun \in 0..FailureThreshold
    /\ okRun \in 0..SuccessThreshold

\* While the breaker is closed its counter is exactly the run of failures
\* seen last, and the run is short of the threshold: late results of calls
\* admitted in an earlier state neither hide failures nor invent them
\* ("consecutive failures to trip open", circuit_breaker.go:46).
ClosedCountsConsecutiveFailures ==
    state = "Closed" => failureCount = failRun /\ failRun < FailureThreshold

\* While it is half-open, the successes counted are results that came in a
\* row, and there are fewer of them than it takes to close.
HalfOpenCountsConsecutiveSuccesses ==
    state = "HalfOpen" => successCount <= okRun /\ successCount < SuccessThreshold

\* A step that trips a closed breaker is the last of FailureThreshold
\* failures in a row; a step that closes it is the last of SuccessThreshold
\* successes in a row; a half-open breaker reopens on one failure; an open one
\* becomes half-open only once the timeout has elapsed, and never closes
\* directly, whatever the late results say.
LegalTransition ==
    \/ state' = state
    \/ state = "Closed" /\ state' = "Open" /\ failRun' = FailureThreshold
    \/ state = "HalfOpen" /\ state' = "Closed" /\ okRun' = SuccessThreshold
    \/ state = "HalfOpen" /\ state' = "Open" /\ failRun' > 0
    \/ state = "Open" /\ state' = "HalfOpen" /\ elapsed = OpenTimeout

TransitionsAreEarned == [][LegalTransition]_vars

\* A breaker that has been open for less than the timeout since the last
\* failure lets nobody through: the calls inside fn can only become fewer.
OpenAdmitsNobody ==
    [][state = "Open" /\ elapsed < OpenTimeout =>
         {c \in Callers : InFn(c)'} \subseteq {c \in Callers : InFn(c)}]_vars

\* The failures counted while open come from calls that were already inside
\* fn, so the counter is bounded by the threshold and the callers.
FailureCountBounded == failureCount < FailureThreshold + Cardinality(Callers)

\* If the sidecar fails only finitely often, the breaker ends closed: no
\* interleaving of late results and timeouts leaves it open or half-open.
RecoversWhenHealthy ==
    <>[][\A c \in Callers : ~EndFailure(c)]_vars => <>[](state = "Closed")
=============================================================================
