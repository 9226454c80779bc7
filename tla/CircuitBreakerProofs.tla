------------------------ MODULE CircuitBreakerProofs ------------------------
(***************************************************************************)
(* Proofs about CircuitBreaker, for any set of callers and any thresholds. *)
(***************************************************************************)
EXTENDS CircuitBreaker, FiniteSetTheorems, TLAPS

(***************************************************************************)
(* Type correctness: every step of every caller keeps the breaker's fields *)
(* and the positions of the callers in their types (circuit_breaker.go:    *)
(* Execute, State, onFailure, onSuccess).                                  *)
(***************************************************************************)
THEOREM TypeCorrect == Spec => []TypeOK
<1> USE ThresholdsPositive
<1>1. Init => TypeOK
  BY DEF Init, TypeOK, CBState, CallState
<1>2. TypeOK /\ [Next]_vars => TypeOK'
  <2> SUFFICES ASSUME TypeOK, [Next]_vars PROVE TypeOK'
    OBVIOUS
  <2> USE DEF TypeOK
  <2>1. CASE Query
    BY <2>1 DEF Query, ReadState, StateNow, TimedOut, CBState
  <2>2. CASE Tick
    BY <2>2 DEF Tick
  <2>3. ASSUME NEW c \in Callers, Begin(c) PROVE TypeOK'
    <3>1. StateNow \in CBState
      BY DEF StateNow, CBState
    <3>2. calls' \in [Callers -> CallState]
      BY <2>3, <3>1 DEF Begin, CBState, CallState
    <3>3. QED
      BY <2>3, <3>1, <3>2 DEF Begin, ReadState, history
  <2>4. ASSUME NEW c \in Callers, EndFailure(c) PROVE TypeOK'
    BY <2>4 DEF EndFailure, OnFailure, AtMost, CBState, CallState
  <2>5. ASSUME NEW c \in Callers, EndSuccess(c) PROVE TypeOK'
    BY <2>5 DEF EndSuccess, OnSuccess, AtMost, CBState, CallState
  <2>6. CASE UNCHANGED vars
    BY <2>6 DEF vars
  <2>7. QED
    BY <2>1, <2>2, <2>3, <2>4, <2>5, <2>6 DEF Next
<1>3. QED
  BY <1>1, <1>2, PTL DEF Spec

-----------------------------------------------------------------------------

\* The two counters, each with the history of results it stands for.
CountersInv == ClosedCountsConsecutiveFailures /\ HalfOpenCountsConsecutiveSuccesses

LEMMA CountersInductive ==
    TypeOK /\ CountersInv /\ [Next]_vars => CountersInv'
<1> SUFFICES ASSUME TypeOK, CountersInv, [Next]_vars PROVE CountersInv'
  OBVIOUS
<1> USE ThresholdsPositive
    DEF TypeOK, CountersInv, ClosedCountsConsecutiveFailures,
        HalfOpenCountsConsecutiveSuccesses
<1>1. CASE Query
  BY <1>1 DEF Query, ReadState, StateNow, TimedOut
<1>2. CASE Tick
  BY <1>2 DEF Tick
<1>3. ASSUME NEW c \in Callers, Begin(c) PROVE CountersInv'
  BY <1>3 DEF Begin, ReadState, StateNow, TimedOut, history
<1>4. ASSUME NEW c \in Callers, EndFailure(c) PROVE CountersInv'
  BY <1>4 DEF EndFailure, OnFailure, Tripped, AtMost, CBState
<1>5. ASSUME NEW c \in Callers, EndSuccess(c) PROVE CountersInv'
  BY <1>5 DEF EndSuccess, OnSuccess, Recovered, AtMost, CBState
<1>6. CASE UNCHANGED vars
  BY <1>6 DEF vars
<1>7. QED
  BY <1>1, <1>2, <1>3, <1>4, <1>5, <1>6 DEF Next

(***************************************************************************)
(* While the breaker is closed its failure counter is the length of the    *)
(* current run of failures, below the threshold, for any interleaving of   *)
(* any number of callers (onFailure, onSuccess).                           *)
(***************************************************************************)
THEOREM ClosedCountsFailures == Spec => []ClosedCountsConsecutiveFailures
<1>1. Init => CountersInv
  BY ThresholdsPositive
  DEF Init, CountersInv, ClosedCountsConsecutiveFailures,
      HalfOpenCountsConsecutiveSuccesses
<1>2. CountersInv => ClosedCountsConsecutiveFailures
  BY DEF CountersInv
<1>3. QED
  BY <1>1, <1>2, TypeCorrect, CountersInductive, PTL DEF Spec

(***************************************************************************)
(* While it is half-open the successes counted came in a row, and are too  *)
(* few to close it, although late results of calls admitted earlier are    *)
(* counted there too (onSuccess, State).                                   *)
(***************************************************************************)
THEOREM HalfOpenCountsSuccesses == Spec => []HalfOpenCountsConsecutiveSuccesses
<1>1. Init => CountersInv
  BY ThresholdsPositive
  DEF Init, CountersInv, ClosedCountsConsecutiveFailures,
      HalfOpenCountsConsecutiveSuccesses
<1>2. CountersInv => HalfOpenCountsConsecutiveSuccesses
  BY DEF CountersInv
<1>3. QED
  BY <1>1, <1>2, TypeCorrect, CountersInductive, PTL DEF Spec

(***************************************************************************)
(* A breaker that has been open for less than its timeout lets nobody into *)
(* fn (Execute): whoever is inside after a step was inside before it.      *)
(***************************************************************************)
THEOREM OpenIsClosedToCallers == Spec => OpenAdmitsNobody
<1> DEFINE Shut ==
      state = "Open" /\ elapsed < OpenTimeout =>
          {c \in Callers : InFn(c)'} \subseteq {c \in Callers : InFn(c)}
<1>1. TypeOK /\ [Next]_vars => [Shut]_vars
  <2> SUFFICES ASSUME TypeOK, [Next]_vars, state = "Open", elapsed < OpenTimeout,
                      NEW d \in Callers, InFn(d)'
               PROVE  InFn(d)
    OBVIOUS
  <2> USE ThresholdsPositive DEF TypeOK, InFn
  <2>1. CASE Query \/ Tick \/ UNCHANGED vars
    BY <2>1 DEF Query, Tick, vars
  <2>2. ASSUME NEW c \in Callers, Begin(c) PROVE InFn(d)
    <3>1. StateNow = "Open"
      BY DEF StateNow, TimedOut
    <3>2. QED
      BY <2>2, <3>1 DEF Begin
  <2>3. ASSUME NEW c \in Callers, EndFailure(c) \/ EndSuccess(c) PROVE InFn(d)
    BY <2>3 DEF EndFailure, EndSuccess
  <2>4. QED
    BY <2>1, <2>2, <2>3 DEF Next
<1>2. QED
  BY <1>1, TypeCorrect, PTL DEF Spec, OpenAdmitsNobody

(***************************************************************************)
(* Every change of state is earned: a trip by FailureThreshold failures in *)
(* a row, a close by SuccessThreshold successes in a row, a probe by the   *)
(* timeout; there is no other change of state.                             *)
(***************************************************************************)
THEOREM EarnedTransitions == Spec => TransitionsAreEarned
<1>1. Init => CountersInv
  BY ThresholdsPositive
  DEF Init, CountersInv, ClosedCountsConsecutiveFailures,
      HalfOpenCountsConsecutiveSuccesses
<1>2. TypeOK /\ CountersInv /\ [Next]_vars => [LegalTransition]_vars
  <2> SUFFICES ASSUME TypeOK, CountersInv, [Next]_vars PROVE LegalTransition
    OBVIOUS
  <2> USE ThresholdsPositive
      DEF TypeOK, CountersInv, ClosedCountsConsecutiveFailures,
          HalfOpenCountsConsecutiveSuccesses, LegalTransition
  <2>1. CASE Query
    BY <2>1 DEF Query, ReadState, StateNow, TimedOut
  <2>2. CASE Tick
    BY <2>2 DEF Tick
  <2>3. ASSUME NEW c \in Callers, Begin(c) PROVE LegalTransition
    BY <2>3 DEF Begin, ReadState, StateNow, TimedOut
  <2>4. ASSUME NEW c \in Callers, EndFailure(c) PROVE LegalTransition
    BY <2>4 DEF EndFailure, OnFailure, Tripped, AtMost, CBState
  <2>5. ASSUME NEW c \in Callers, EndSuccess(c) PROVE LegalTransition
    BY <2>5 DEF EndSuccess, OnSuccess, Recovered, AtMost, CBState
  <2>6. CASE UNCHANGED vars
    BY <2>6 DEF vars
  <2>7. QED
    BY <2>1, <2>2, <2>3, <2>4, <2>5, <2>6 DEF Next
<1>3. QED
  BY <1>1, <1>2, TypeCorrect, CountersInductive, PTL
  DEF Spec, TransitionsAreEarned
-----------------------------------------------------------------------------

\* The calls inside fn, each of which may still report a failure.
Pending == {c \in Callers : InFn(c)}

\* While the breaker is open nobody enters fn, so each failure counted there
\* is paid for by a call that leaves.
BoundInv ==
    /\ state = "Closed" => failureCount < FailureThreshold
    /\ state = "Open" =>
         failureCount + Cardinality(Pending) < FailureThreshold + Cardinality(Callers)
    /\ state = "HalfOpen" => failureCount < FailureThreshold + Cardinality(Callers)

LEMMA PendingFinite ==
    /\ IsFiniteSet(Pending) /\ Cardinality(Pending) \in Nat
    /\ Cardinality(Callers) \in Nat
    /\ Cardinality(Pending) <= Cardinality(Callers)
<1>1. Pending \subseteq Callers
  BY DEF Pending
<1>2. QED
  BY <1>1, CallersFinite, FS_Subset, FS_CardinalityType

\* A call that ends leaves the pending set, and nothing else changes in it.
LEMMA EndLeavesPending ==
    ASSUME TypeOK, NEW c \in Callers, InFn(c),
           calls' = [calls EXCEPT ![c] = "idle"]
    PROVE  /\ Cardinality(Pending') = Cardinality(Pending) - 1
           /\ Cardinality(Pending') \in Nat
           /\ Cardinality(Pending') < Cardinality(Callers)
<1>1. Pending' = Pending \ {c} /\ c \in Pending
  BY DEF Pending, InFn, TypeOK
<1>2. IsFiniteSet(Pending')
  BY <1>1, PendingFinite, FS_RemoveElement
<1>3. Cardinality(Pending') = Cardinality(Pending) - 1
  BY <1>1, PendingFinite, FS_RemoveElement
<1>4. Cardinality(Pending') \in Nat
  BY <1>2, FS_CardinalityType
<1>5. QED
  BY <1>3, <1>4, PendingFinite

LEMMA BoundInductive == TypeOK /\ BoundInv /\ [Next]_vars => BoundInv'
<1> SUFFICES ASSUME TypeOK, BoundInv, [Next]_vars PROVE BoundInv'
  OBVIOUS
<1> USE ThresholdsPositive, PendingFinite DEF TypeOK, BoundInv
<1>1. CASE Query
  <2>1. Pending' = Pending
    BY <1>1 DEF Query, Pending, InFn
  <2>2. QED
    BY <1>1, <2>1 DEF Query, ReadState, StateNow, TimedOut
<1>2. CASE Tick
  <2>1. Pending' = Pending
    BY <1>2 DEF Tick, Pending, InFn
  <2>2. QED
    BY <1>2, <2>1 DEF Tick
<1>3. ASSUME NEW c \in Callers, Begin(c) PROVE BoundInv'
  <2>1. CASE StateNow = "Open"
    <3>1. Pending' = Pending
      BY <1>3, <2>1 DEF Begin, Pending, InFn
    <3>2. QED
      BY <1>3, <2>1, <3>1 DEF Begin, ReadState, StateNow, TimedOut
  <2>2. CASE StateNow # "Open"
    BY <1>3, <2>2 DEF Begin, ReadState, StateNow, TimedOut
  <2>3. QED
    BY <2>1, <2>2
<1>4. ASSUME NEW c \in Callers, EndFailure(c) PROVE BoundInv'
  <2>1. /\ Cardinality(Pending') = Cardinality(Pending) - 1
        /\ Cardinality(Pending') \in Nat
        /\ Cardinality(Pending') < Cardinality(Callers)
    BY <1>4, EndLeavesPending DEF EndFailure
  <2>2. QED
    BY <1>4, <2>1 DEF EndFailure, OnFailure, Tripped, CBState
<1>5. ASSUME NEW c \in Callers, EndSuccess(c) PROVE BoundInv'
  <2>1. /\ Cardinality(Pending') = Cardinality(Pending) - 1
        /\ Cardinality(Pending') \in Nat
    BY <1>5, EndLeavesPending DEF EndSuccess
  <2>2. QED
    BY <1>5, <2>1 DEF EndSuccess, OnSuccess, Recovered, CBState
<1>6. CASE UNCHANGED vars
  <2>1. Pending' = Pending
    BY <1>6 DEF vars, Pending, InFn
  <2>2. QED
    BY <1>6, <2>1 DEF vars
<1>7. QED
  BY <1>1, <1>2, <1>3, <1>4, <1>5, <1>6 DEF Next

(***************************************************************************)
(* The failure counter is bounded: late failures of calls admitted before  *)
(* a trip keep being counted while the breaker is open (onFailure has no   *)
(* case for CBOpen), but there are only as many of them as callers.        *)
(***************************************************************************)
THEOREM BoundedFailureCount == Spec => []FailureCountBounded
<1>1. Init => BoundInv
  BY ThresholdsPositive, PendingFinite DEF Init, BoundInv
<1>2. TypeOK /\ BoundInv => FailureCountBounded
  BY ThresholdsPositive, PendingFinite
  DEF TypeOK, BoundInv, FailureCountBounded, CBState
<1>3. QED
  BY <1>1, <1>2, TypeCorrect, BoundInductive, PTL DEF Spec
=============================================================================
