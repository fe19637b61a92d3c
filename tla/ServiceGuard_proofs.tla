------------------------- MODULE ServiceGuard_proofs -------------------------
(***************************************************************************)
(* For any number of callers, thresholds and attempts: the counts that     *)
(* open and close the circuit mean what they say whatever order results    *)
(* arrive in, and a call takes effect no more often than it is attempted.  *)
(***************************************************************************)
EXTENDS ServiceGuard, TLAPS

Steps == {"idle", "check", "admitted", "calling", "ok", "error", "raised"}

USE GuardAssumption DEF Upto

-----------------------------------------------------------------------------
(* The breaker and the counts of its history.  In normal operation the     *)
(* failure count is the run of failures; in a half-open period the success *)
(* count is the number of successes of that period.                        *)
BreakerInv ==
  /\ state \in {"closed", "open", "half_open"}
  /\ failure_count \in 0..FailureThreshold
  /\ success_count \in 0..(SuccessThreshold - 1)
  /\ age \in 0..(Timeout + 1)
  /\ healthy \in BOOLEAN
  /\ streak \in 0..FailureThreshold
  /\ goods \in 0..SuccessThreshold
  /\ state = "closed" => streak = failure_count /\ failure_count < FailureThreshold
  /\ state = "half_open" => goods = success_count

(* What the invariant is about changes in six kinds of step only.          *)
BreakerUntouched ==
  UNCHANGED <<state, failure_count, success_count, age, healthy, streak, goods>>

LEMMA BreakerSteps ==
  ASSUME [Next]_vars
  PROVE  \/ BreakerUntouched
         \/ Tick
         \/ ServiceChanges
         \/ \E c \in Callers : HalfOpen(c) \/ RecordSuccess(c) \/ RecordFailure(c)
<1> USE DEF BreakerUntouched, breaker, history
<1>1. ASSUME NEW c \in Callers, CallerStep(c) \/ FinishLate(c)
      PROVE  BreakerUntouched \/ HalfOpen(c) \/ RecordSuccess(c) \/ RecordFailure(c)
  BY <1>1 DEF CallerStep, Call, Admit, Reject, Execute, Return, Raise, TimeOut, Retry,
              FinishLate
<1>2. CASE UNCHANGED vars
  BY <1>2 DEF vars
<1>3. QED BY <1>1, <1>2 DEF Next

LEMMA BreakerInductive == BreakerInv /\ [Next]_vars => BreakerInv'
<1> SUFFICES ASSUME BreakerInv, [Next]_vars PROVE BreakerInv'
  OBVIOUS
<1> USE DEF BreakerInv
<1>1. CASE BreakerUntouched
  BY <1>1 DEF BreakerUntouched
<1>2. CASE Tick
  BY <1>2 DEF Tick
<1>3. CASE ServiceChanges
  <2>1. healthy' \in BOOLEAN
    BY <1>3 DEF ServiceChanges
  <2>2. QED BY <1>3, <2>1 DEF ServiceChanges, breaker, history
<1>4. ASSUME NEW c \in Callers, HalfOpen(c) PROVE BreakerInv'
  BY <1>4 DEF HalfOpen
<1>5. ASSUME NEW c \in Callers, RecordSuccess(c) PROVE BreakerInv'
  BY <1>5 DEF RecordSuccess
<1>6. ASSUME NEW c \in Callers, RecordFailure(c) PROVE BreakerInv'
  BY <1>6 DEF RecordFailure
<1>7. QED BY <1>1, <1>2, <1>3, <1>4, <1>5, <1>6, BreakerSteps

LEMMA BreakerInvariant == Spec => []BreakerInv
<1>1. Init => BreakerInv
  BY DEF Init, BreakerInv
<1>2. QED BY <1>1, BreakerInductive, PTL DEF Spec

(* The circuit opens on an uninterrupted run of failures.                  *)
THEOREM Opens == Spec => OpensOnStreak
<1>1. BreakerInv /\ [Next]_vars
      => [state = "closed" /\ state' = "open" => streak' = FailureThreshold]_vars
  <2> SUFFICES ASSUME BreakerInv, [Next]_vars, state = "closed", state' = "open"
               PROVE  streak' = FailureThreshold
    OBVIOUS
  <2>1. PICK c \in Callers : RecordFailure(c)
    BY BreakerSteps
       DEF BreakerUntouched, Tick, ServiceChanges, HalfOpen, RecordSuccess, breaker
  <2>2. QED BY <2>1 DEF RecordFailure, BreakerInv
<1>2. QED BY <1>1, BreakerInvariant, PTL DEF Spec, OpensOnStreak

(* It closes on the successes of one half-open period.                     *)
THEOREM Closes == Spec => ClosesOnSuccesses
<1>1. BreakerInv /\ [Next]_vars
      => [state # "closed" /\ state' = "closed" => goods' = SuccessThreshold]_vars
  <2> SUFFICES ASSUME BreakerInv, [Next]_vars, state # "closed", state' = "closed"
               PROVE  goods' = SuccessThreshold
    OBVIOUS
  <2>1. PICK c \in Callers : RecordSuccess(c)
    BY BreakerSteps
       DEF BreakerUntouched, Tick, ServiceChanges, HalfOpen, RecordFailure, breaker
  <2>2. QED BY <2>1 DEF RecordSuccess, BreakerInv
<1>2. QED BY <1>1, BreakerInvariant, PTL DEF Spec, ClosesOnSuccesses

-----------------------------------------------------------------------------
(* Each attempt is used up by one execution that took effect, or may yet.  *)
Pending(c) == IF pc[c] \in {"check", "admitted", "calling"} THEN 1 ELSE 0

CallInv(c) ==
  /\ pc[c] \in Steps
  /\ attempt[c] \in 0..MaxAttempts
  /\ abandoned[c] \in Nat
  /\ effects[c] \in Nat
  /\ effects[c] + abandoned[c] + Pending(c) <= attempt[c]
  /\ pc[c] = "ok" => effects[c] >= 1

CallsInv ==
  /\ pc \in [Callers -> Steps]
  /\ attempt \in [Callers -> Nat]
  /\ abandoned \in [Callers -> Nat]
  /\ effects \in [Callers -> Nat]
  /\ \A c \in Callers : CallInv(c)

LEMMA CallsInductive == CallsInv /\ [Next]_vars => CallsInv'
<1> SUFFICES ASSUME CallsInv, [Next]_vars PROVE CallsInv'
  OBVIOUS
<1>1. ASSUME NEW c \in Callers,
             \/ CallerStep(c)
             \/ FinishLate(c)
      PROVE  /\ pc' \in [Callers -> Steps]
             /\ attempt' \in [Callers -> Nat]
             /\ abandoned' \in [Callers -> Nat]
             /\ effects' \in [Callers -> Nat]
             /\ CallInv(c)'
             /\ \A d \in Callers \ {c} : /\ pc'[d] = pc[d]
                                         /\ attempt'[d] = attempt[d]
                                         /\ abandoned'[d] = abandoned[d]
                                         /\ effects'[d] = effects[d]
  <2> USE DEF CallsInv, CallInv, Pending, Goto, calls, Steps
  <2>1. CASE Call(c)
    BY <2>1 DEF Call
  <2>2. CASE Admit(c) \/ HalfOpen(c) \/ Reject(c) \/ Execute(c)
    BY <2>2 DEF Admit, HalfOpen, Reject, Execute
  <2>3. CASE Return(c)
    BY <2>3 DEF Return
  <2>4. CASE Raise(c)
    BY <2>4 DEF Raise
  <2>5. CASE TimeOut(c)
    BY <2>5 DEF TimeOut
  <2>6. CASE FinishLate(c)
    <3>1. PICK done \in {0, 1} : effects' = [effects EXCEPT ![c] = @ + done]
      BY <2>6 DEF FinishLate
    <3>2. /\ abandoned[c] > 0
          /\ abandoned' = [abandoned EXCEPT ![c] = @ - 1]
          /\ UNCHANGED <<pc, attempt>>
      BY <2>6 DEF FinishLate
    <3>3. effects' \in [Callers -> Nat] /\ effects'[c] \in {effects[c], effects[c] + 1}
      BY <3>1
    <3>4. abandoned' \in [Callers -> Nat] /\ abandoned'[c] = abandoned[c] - 1
      BY <3>2
    <3>5. QED BY <3>1, <3>2, <3>3, <3>4
  <2>7. CASE RecordSuccess(c) \/ RecordFailure(c)
    BY <2>7 DEF RecordSuccess, RecordFailure
  <2>8. CASE Retry(c)
    BY <2>8 DEF Retry
  <2>9. QED BY <1>1, <2>1, <2>2, <2>3, <2>4, <2>5, <2>6, <2>7, <2>8 DEF CallerStep
<1>2. ASSUME NEW c \in Callers, CallerStep(c) \/ FinishLate(c)
      PROVE  CallsInv'
  BY <1>1, <1>2 DEF CallsInv, CallInv, Pending
<1>3. CASE Tick \/ ServiceChanges \/ UNCHANGED vars
  BY <1>3 DEF Tick, ServiceChanges, vars, calls, CallsInv, CallInv, Pending
<1>4. QED BY <1>2, <1>3 DEF Next

LEMMA CallsInvariant == Spec => []CallsInv
<1>1. Init => CallsInv
  BY DEF Init, CallsInv, CallInv, Pending, Steps
<1>2. QED BY <1>1, CallsInductive, PTL DEF Spec

(* A call takes effect at most max_attempts times.                         *)
THEOREM Effects == Spec => []EffectsBounded
<1>1. CallsInv => EffectsBounded
  <2>1. ASSUME CallsInv, NEW c \in Callers
        PROVE  /\ effects[c] + abandoned[c] <= MaxAttempts
               /\ pc[c] = "ok" => effects[c] >= 1
    BY <2>1 DEF CallsInv, CallInv, Pending
  <2>2. QED BY <2>1, Zenon DEF EffectsBounded
<1>2. QED BY <1>1, CallsInvariant, PTL

-----------------------------------------------------------------------------
(* A caller that began an execution while the circuit is open is not       *)
(* admitted for another one before the circuit stops being open.           *)
LeakInv ==
  /\ leaked \in [Callers -> 0..1]
  /\ \A c \in Callers : state = "open" /\ pc[c] = "admitted" => leaked[c] = 0

LEMMA LeakInductive == CallsInv /\ LeakInv /\ [Next]_vars => LeakInv'
<1> SUFFICES ASSUME CallsInv, LeakInv, [Next]_vars PROVE LeakInv'
  OBVIOUS
<1> USE DEF LeakInv, Goto
<1>0. pc \in [Callers -> Steps]
  BY DEF CallsInv
<1>1. ASSUME NEW c \in Callers, Call(c) \/ Reject(c) \/ Retry(c)
      PROVE  LeakInv'
  BY <1>0, <1>1 DEF Call, Reject, Retry, breaker, history, Steps
<1>2. ASSUME NEW c \in Callers, Admit(c) \/ HalfOpen(c)
      PROVE  LeakInv'
  BY <1>0, <1>2 DEF Admit, HalfOpen, breaker, history
<1>3. ASSUME NEW c \in Callers, Execute(c)
      PROVE  LeakInv'
  BY <1>0, <1>3 DEF Execute, breaker
<1>4. ASSUME NEW c \in Callers, Return(c) \/ Raise(c) \/ TimeOut(c)
      PROVE  LeakInv'
  BY <1>0, <1>4 DEF Return, Raise, TimeOut, breaker, history
<1>5. ASSUME NEW c \in Callers, FinishLate(c)
      PROVE  LeakInv'
  BY <1>5 DEF FinishLate, breaker, history
<1>6. ASSUME NEW c \in Callers, RecordSuccess(c)
      PROVE  LeakInv'
  BY <1>0, <1>6 DEF RecordSuccess
<1>7. ASSUME NEW c \in Callers, RecordFailure(c)
      PROVE  LeakInv'
  BY <1>0, <1>7 DEF RecordFailure
<1>8. CASE Tick \/ ServiceChanges \/ UNCHANGED vars
  BY <1>8 DEF Tick, ServiceChanges, vars, breaker, history
<1>9. QED BY <1>1, <1>2, <1>3, <1>4, <1>5, <1>6, <1>7, <1>8 DEF Next, CallerStep

LEMMA LeakInvariant == Spec => []LeakInv
<1>1. Init => LeakInv
  BY DEF Init, LeakInv
<1>2. QED BY <1>1, LeakInductive, CallsInvariant, PTL DEF Spec

(* An open circuit lets each caller begin at most one execution.           *)
THEOREM OpenLeaks == Spec => []OpenAdmitsNoMore
<1>1. LeakInv => OpenAdmitsNoMore
  <2>1. ASSUME LeakInv, NEW c \in Callers PROVE leaked[c] <= 1
    BY <2>1 DEF LeakInv
  <2>2. QED BY <2>1, Zenon DEF OpenAdmitsNoMore
<1>2. QED BY <1>1, LeakInvariant, PTL

(* Every variable keeps its type.                                          *)
THEOREM TypeCorrect == Spec => []TypeOK
<1>1. BreakerInv /\ CallsInv /\ LeakInv => TypeOK
  BY DEF BreakerInv, CallsInv, CallInv, Pending, LeakInv, TypeOK, Steps
<1>2. QED BY <1>1, BreakerInvariant, CallsInvariant, LeakInvariant, PTL
=============================================================================
