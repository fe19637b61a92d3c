---------------------------- MODULE ServiceGuard ----------------------------
(***************************************************************************)
(* The decorators that guard calls of downstream services                  *)
(* (production/src/core/exceptions/error_handling.py), stacked in the      *)
(* order in which each makes use of the other:                             *)
(*                                                                         *)
(*   with_retry ( with_circuit_breaker ( with_timeout ( func ) ) )         *)
(*                                                                         *)
(* Callers are threads.  The three methods of CircuitBreaker hold its lock *)
(* and are one step each; between them a caller holds nothing, so results  *)
(* reach the breaker long after the answer of can_execute they rest on.    *)
(* A timed out execution of func is abandoned, not stopped.                *)
(*                                                                         *)
(*   idle -> check -> admitted -> calling -> ok -> idle                    *)
(*                                  calling -> error -> raised             *)
(*           check -> raised  (rejected)                                   *)
(*                                 raised -> check  or  raised -> idle     *)
(***************************************************************************)
EXTENDS Naturals

CONSTANTS Callers,           \* threads that call the service
          FailureThreshold,  \* failure_threshold
          SuccessThreshold,  \* success_threshold
          Timeout,           \* timeout_seconds, in ticks
          MaxAttempts        \* max_attempts of with_retry

ASSUME GuardAssumption ==
  /\ FailureThreshold \in Nat \ {0}
  /\ SuccessThreshold \in Nat \ {0}
  /\ Timeout \in Nat
  /\ MaxAttempts \in Nat \ {0}

VARIABLES state,          \* CircuitBreaker.state
          failure_count,  \* up to FailureThreshold: the code only compares
          success_count,
          age,            \* ticks since last_failure_time, up to Timeout + 1
          pc,             \* where each caller is
          attempt,        \* executions and rejections of its current call
          abandoned,      \* its timed out executions that are still running
          effects,        \* how often its current call took effect downstream
          healthy,        \* the service answers every execution in time
          streak,         \* history: failures recorded since a success was
          goods,          \* history: successes recorded in this half-open period
          leaked          \* history: executions each caller began since then

breaker == <<state, failure_count, success_count, age>>
calls == <<attempt, abandoned, effects>>
history == <<streak, goods, leaked>>
vars == <<breaker, pc, calls, healthy, history>>

Upto(bound, n) == IF n < bound THEN n ELSE bound

TypeOK ==
  /\ state \in {"closed", "open", "half_open"}
  /\ failure_count \in 0..FailureThreshold
  /\ success_count \in 0..(SuccessThreshold - 1)
  /\ age \in 0..(Timeout + 1)
  /\ pc \in [Callers -> {"idle", "check", "admitted", "calling", "ok", "error", "raised"}]
  /\ attempt \in [Callers -> 0..MaxAttempts]
  /\ abandoned \in [Callers -> 0..MaxAttempts]
  /\ effects \in [Callers -> 0..MaxAttempts]
  /\ healthy \in BOOLEAN
  /\ streak \in 0..FailureThreshold
  /\ goods \in 0..SuccessThreshold
  /\ leaked \in [Callers -> 0..2]

Init ==
  /\ state = "closed"
  /\ failure_count = 0
  /\ success_count = 0
  /\ age = 0
  /\ pc = [c \in Callers |-> "idle"]
  /\ attempt = [c \in Callers |-> 0]
  /\ abandoned = [c \in Callers |-> 0]
  /\ effects = [c \in Callers |-> 0]
  /\ healthy = TRUE
  /\ streak = 0
  /\ goods = 0
  /\ leaked = [c \in Callers |-> 0]

Goto(c, step) == pc' = [pc EXCEPT ![c] = step]

-----------------------------------------------------------------------------
(* Entry into with_retry's loop.  What an earlier call of this caller left *)
(* running is no longer followed.                                          *)
Call(c) ==
  /\ pc[c] = "idle"
  /\ Goto(c, "check")
  /\ attempt' = [attempt EXCEPT ![c] = 1]
  /\ abandoned' = [abandoned EXCEPT ![c] = 0]
  /\ effects' = [effects EXCEPT ![c] = 0]
  /\ UNCHANGED <<breaker, healthy, history>>

(* Mutants of can_execute: it admits in every state; it counts anew at     *)
(* every probe; a half-open period inherits the count of the one before.   *)
AdmitAlways(c) ==
  /\ pc[c] = "check"
  /\ Goto(c, "admitted")
  /\ UNCHANGED <<breaker, calls, healthy, history>>

AdmitCountingAnew(c) ==
  /\ pc[c] = "check"
  /\ state # "open"
  /\ success_count' = 0
  /\ Goto(c, "admitted")
  /\ UNCHANGED <<state, failure_count, age, calls, healthy, history>>

HalfOpenKeepingCount(c) ==
  /\ pc[c] = "check"
  /\ state = "open"
  /\ age > Timeout
  /\ state' = "half_open"
  /\ goods' = 0
  /\ Goto(c, "admitted")
  /\ UNCHANGED <<failure_count, success_count, age, calls, healthy, streak, leaked>>

(* can_execute, in its three cases.                                        *)
Admit(c) ==
  /\ pc[c] = "check"
  /\ state # "open"
  /\ Goto(c, "admitted")
  /\ UNCHANGED <<breaker, calls, healthy, history>>

HalfOpen(c) ==
  /\ pc[c] = "check"
  /\ state = "open"
  /\ age > Timeout
  /\ state' = "half_open"
  /\ success_count' = 0
  /\ goods' = 0
  /\ Goto(c, "admitted")
  /\ UNCHANGED <<failure_count, age, calls, healthy, streak, leaked>>

Reject(c) ==
  /\ pc[c] = "check"
  /\ state = "open"
  /\ age <= Timeout
  /\ Goto(c, "raised")
  /\ UNCHANGED <<breaker, calls, healthy, history>>

-----------------------------------------------------------------------------
(* with_timeout starts a thread that runs func.                            *)
Execute(c) ==
  /\ pc[c] = "admitted"
  /\ Goto(c, "calling")
  /\ leaked' = [leaked EXCEPT ![c] = IF state = "open" THEN Upto(2, @ + 1) ELSE @]
  /\ UNCHANGED <<breaker, calls, healthy, streak, goods>>

(* The thread ends in time: func returned, or raised (and may have taken   *)
(* effect all the same, as when an answer is lost).                        *)
Return(c) ==
  /\ pc[c] = "calling"
  /\ effects' = [effects EXCEPT ![c] = @ + 1]
  /\ Goto(c, "ok")
  /\ UNCHANGED <<breaker, attempt, abandoned, healthy, history>>

Raise(c) ==
  /\ pc[c] = "calling"
  /\ ~healthy
  /\ \E done \in {0, 1} : effects' = [effects EXCEPT ![c] = @ + done]
  /\ Goto(c, "error")
  /\ UNCHANGED <<breaker, attempt, abandoned, healthy, history>>

(* join timed out and the thread is alive: TimeoutError, and func goes on. *)
TimeOut(c) ==
  /\ pc[c] = "calling"
  /\ ~healthy
  /\ abandoned' = [abandoned EXCEPT ![c] = @ + 1]
  /\ Goto(c, "error")
  /\ UNCHANGED <<breaker, attempt, effects, healthy, history>>

FinishLate(c) ==
  /\ abandoned[c] > 0
  /\ abandoned' = [abandoned EXCEPT ![c] = @ - 1]
  /\ \E done \in {0, 1} : effects' = [effects EXCEPT ![c] = @ + done]
  /\ UNCHANGED <<breaker, pc, attempt, healthy, history>>

-----------------------------------------------------------------------------
(* Mutants of record_success: one success too many is asked for; a success *)
(* in normal operation does not clear the failures before it.              *)
RecordSuccessOneMore(c) ==
  /\ pc[c] = "ok"
  /\ \/ /\ state = "half_open"
        /\ success_count + 1 > SuccessThreshold
        /\ state' = "closed"
        /\ success_count' = 0
        /\ failure_count' = 0
     \/ /\ state = "half_open"
        /\ success_count + 1 <= SuccessThreshold
        /\ success_count' = success_count + 1
        /\ UNCHANGED <<state, failure_count>>
     \/ /\ state # "half_open"
        /\ failure_count' = IF state = "closed" THEN 0 ELSE failure_count
        /\ UNCHANGED <<state, success_count>>
  /\ streak' = 0
  /\ goods' = Upto(SuccessThreshold, goods + 1)
  /\ Goto(c, "idle")
  /\ UNCHANGED <<age, calls, healthy, leaked>>

RecordSuccessForgetting(c) ==
  /\ pc[c] = "ok"
  /\ \/ /\ state = "half_open"
        /\ success_count + 1 >= SuccessThreshold
        /\ state' = "closed"
        /\ success_count' = 0
        /\ failure_count' = 0
     \/ /\ state = "half_open"
        /\ success_count + 1 < SuccessThreshold
        /\ success_count' = success_count + 1
        /\ UNCHANGED <<state, failure_count>>
     \/ /\ state # "half_open"
        /\ UNCHANGED <<state, success_count, failure_count>>
  /\ streak' = 0
  /\ goods' = Upto(SuccessThreshold, goods + 1)
  /\ Goto(c, "idle")
  /\ UNCHANGED <<age, calls, healthy, leaked>>

RecordSuccess(c) ==
  /\ pc[c] = "ok"
  /\ \/ /\ state = "half_open"
        /\ success_count + 1 >= SuccessThreshold
        /\ state' = "closed"
        /\ success_count' = 0
        /\ failure_count' = 0
     \/ /\ state = "half_open"
        /\ success_count + 1 < SuccessThreshold
        /\ success_count' = success_count + 1
        /\ UNCHANGED <<state, failure_count>>
     \/ /\ state = "closed"
        /\ failure_count' = 0
        /\ UNCHANGED <<state, success_count>>
     \/ /\ state = "open"
        /\ UNCHANGED <<state, failure_count, success_count>>
  /\ streak' = 0
  /\ goods' = Upto(SuccessThreshold, goods + 1)
  /\ Goto(c, "idle")
  /\ UNCHANGED <<age, calls, healthy, leaked>>

(* A failure also restarts the time the circuit has to stay open.          *)
RecordFailure(c) ==
  /\ pc[c] = "error"
  /\ failure_count' = Upto(FailureThreshold, failure_count + 1)
  /\ age' = 0
  /\ \/ /\ \/ state = "closed" /\ failure_count + 1 >= FailureThreshold
           \/ state = "half_open"
        /\ state' = "open"
        /\ leaked' = [d \in Callers |-> 0]
     \/ /\ \/ state = "closed" /\ failure_count + 1 < FailureThreshold
           \/ state = "open"
        /\ UNCHANGED <<state, leaked>>
  /\ streak' = Upto(FailureThreshold, streak + 1)
  /\ goods' = 0
  /\ Goto(c, "raised")
  /\ UNCHANGED <<success_count, calls, healthy>>

(* Mutant: range(max_attempts + 1).                                        *)
RetryOnceMore(c) ==
  /\ pc[c] = "raised"
  /\ \/ /\ attempt[c] <= MaxAttempts
        /\ attempt' = [attempt EXCEPT ![c] = @ + 1]
        /\ Goto(c, "check")
     \/ /\ attempt[c] > MaxAttempts
        /\ Goto(c, "idle")
        /\ UNCHANGED attempt
  /\ UNCHANGED <<breaker, abandoned, effects, healthy, history>>

(* The except clause of with_retry: the next attempt, after a sleep, or    *)
(* the exception of the last one.                                          *)
Retry(c) ==
  /\ pc[c] = "raised"
  /\ \/ /\ attempt[c] < MaxAttempts
        /\ attempt' = [attempt EXCEPT ![c] = @ + 1]
        /\ Goto(c, "check")
     \/ /\ attempt[c] = MaxAttempts
        /\ Goto(c, "idle")
        /\ UNCHANGED attempt
  /\ UNCHANGED <<breaker, abandoned, effects, healthy, history>>

-----------------------------------------------------------------------------
Tick ==
  /\ age' = Upto(Timeout + 1, age + 1)
  /\ UNCHANGED <<state, failure_count, success_count, pc, calls, healthy, streak, goods, leaked>>

ServiceChanges ==
  /\ healthy' = ~healthy
  /\ UNCHANGED <<breaker, pc, calls, history>>

CallerStep(c) ==
  \/ Call(c)
  \/ Admit(c) \/ HalfOpen(c) \/ Reject(c)
  \/ Execute(c)
  \/ Return(c) \/ Raise(c) \/ TimeOut(c)
  \/ RecordSuccess(c) \/ RecordFailure(c)
  \/ Retry(c)

Next ==
  \/ \E c \in Callers : CallerStep(c) \/ FinishLate(c)
  \/ Tick
  \/ ServiceChanges

Spec == Init /\ [][Next]_vars

(* Time passes; the scheduler runs every thread; callers keep calling.     *)
FairSpec ==
  /\ Spec
  /\ WF_vars(Tick)
  /\ \A c \in Callers : WF_vars(CallerStep(c))

-----------------------------------------------------------------------------
(* The circuit opens out of normal operation only on a run of              *)
(* failure_threshold recorded failures that no recorded success interrupts.*)
OpensOnStreak ==
  [][state = "closed" /\ state' = "open" => streak' = FailureThreshold]_vars

(* It closes only after success_threshold successes in one half-open       *)
(* period, with no failure recorded among them.                            *)
ClosesOnSuccesses ==
  [][state # "closed" /\ state' = "closed" => goods' = SuccessThreshold]_vars

(* From one opening to the next, each caller begins at most one execution  *)
(* while the circuit is open: the one it was admitted for before.          *)
OpenAdmitsNoMore == \A c \in Callers : leaked[c] <= 1

(* One call takes effect at most max_attempts times, whatever still runs   *)
(* of the attempts that timed out; and a call that is about to return      *)
(* normally did take effect.                                               *)
EffectsBounded ==
  \A c \in Callers :
    /\ effects[c] + abandoned[c] <= MaxAttempts
    /\ pc[c] = "ok" => effects[c] >= 1

(* When the service stays healthy, the circuit closes and stays closed.    *)
Recovers == <>[]healthy => <>[](state = "closed")
=============================================================================
