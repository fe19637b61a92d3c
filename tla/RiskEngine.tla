----------------------------- MODULE RiskEngine -----------------------------
(***************************************************************************)
(* InstitutionalRiskEngine (production/src/risk/institutional_risk_engine  *)
(* .py and limits.py): the breaker the execution pipeline asks before      *)
(* every order.  It puts on top of the hard breaker (module HardBreaker) a *)
(* soft breaker and a trailing drawdown limit that live in memory only,    *)
(* and the risk gate of ExecutionPipeline.process_signal is its client.    *)
(*                                                                         *)
(* A call of the engine that triggers the hard breaker sets the soft one   *)
(* when trigger returns.  Nothing reads the soft breaker before that and a *)
(* crash drops it, so the model sets it in trigger's first step.           *)
(*                                                                         *)
(* Money is in percent of the initial capital; losses are positive.        *)
(***************************************************************************)
EXTENDS Integers, FiniteSets

CONSTANTS RecoveryDays, ClosePositions, AllowOverride, MaxTick,
          Capital,         \* capital the engine and the allocator start with
          MaxDailyLoss,    \* max_daily_loss_pct
          MaxWeeklyLoss,   \* max_weekly_loss_pct
          MaxDrawdownPct,  \* max_dd_from_peak_pct
          Navs,            \* values update_nav may report
          DailyLosses,     \* losses callers may report
          WeeklyLosses     \* (0 also stands for weekly_pnl=None)

ASSUME EngineAssumption ==
  /\ RecoveryDays \in Nat /\ MaxTick \in Nat
  /\ ClosePositions \in BOOLEAN /\ AllowOverride \in BOOLEAN
  /\ Navs \subseteq Nat
  /\ Capital \in Navs
  /\ MaxDailyLoss \in Nat \ {0} /\ MaxWeeklyLoss \in Nat \ {0}
  /\ MaxDrawdownPct \in Nat
  /\ DailyLosses \subseteq Int /\ WeeklyLosses \subseteq Int

VARIABLES state, file, pc, now, badSave, shutdowns,  \* of HardBreaker
          circuit_breaker_active,         \* the soft breaker
          circuit_breaker_recovery_days,
          current_peak_equity,
          in_recovery_mode,
          nav,         \* current_nav of the portfolio allocator
          orders,      \* parity of the orders passed on: each one is a step
          loss_today,  \* history: a loss at or over a limit was reported today
          breach_peak, \* history: the peak to be passed since a drawdown stop
          restarted,   \* history: the engine was restarted since that stop
          halt_ended   \* history: the halt it triggered was reset or lost

soft == <<circuit_breaker_active, circuit_breaker_recovery_days>>
drawdown == <<current_peak_equity, in_recovery_mode>>
stop == <<breach_peak, restarted, halt_ended>>
history == <<loss_today, stop>>
hard == <<state, file, pc, now, badSave, shutdowns>>
vars == <<hard, soft, drawdown, nav, orders, history>>

Hard == INSTANCE HardBreaker

Larger(a, b) == IF a >= b THEN a ELSE b

TypeOK ==
  /\ Hard!TypeOK
  /\ circuit_breaker_active \in BOOLEAN
  /\ circuit_breaker_recovery_days \in 0..Larger(3, RecoveryDays)
  /\ current_peak_equity \in Navs
  /\ in_recovery_mode \in BOOLEAN
  /\ nav \in Navs
  /\ orders \in {0, 1}
  /\ loss_today \in BOOLEAN
  /\ breach_peak \in Navs \union {0}
  /\ restarted \in BOOLEAN
  /\ halt_ended \in BOOLEAN

(* What __init__ of the engine and of the allocator sets: nothing of it is *)
(* read back from disk.  A loss is one of the running process; a drawdown  *)
(* stop is remembered by the history, though not by the engine.            *)
Fresh ==
  /\ circuit_breaker_active' = FALSE
  /\ circuit_breaker_recovery_days' = 0
  /\ current_peak_equity' = Capital
  /\ in_recovery_mode' = FALSE
  /\ nav' = Capital
  /\ loss_today' = FALSE

Init ==
  /\ Hard!Init
  /\ circuit_breaker_active = FALSE
  /\ circuit_breaker_recovery_days = 0
  /\ current_peak_equity = Capital
  /\ in_recovery_mode = FALSE
  /\ nav = Capital
  /\ orders = 0
  /\ loss_today = FALSE
  /\ breach_peak = 0
  /\ restarted = FALSE
  /\ halt_ended = FALSE

-----------------------------------------------------------------------------
(* The soft breaker follows the hard one: the branch of the checks taken   *)
(* when the hard breaker is, or has just become, active.                   *)
TriggerHard ==
  \/ /\ Hard!Trigger
     /\ circuit_breaker_recovery_days' = RecoveryDays
     /\ circuit_breaker_active' = TRUE
  \/ /\ state.is_active  \* trigger returns False
     /\ circuit_breaker_recovery_days' = state.recovery_days_remaining
     /\ circuit_breaker_active' = TRUE
     /\ UNCHANGED hard

HardLimitPassed(daily, weekly) ==
  daily > MaxDailyLoss \/ weekly > MaxWeeklyLoss

(* check_circuit_breaker of limits.py: the recovery days of a loss at the  *)
(* limit, where the daily limit is looked at first.                        *)
LegacyDays(daily, weekly) ==
  IF daily >= MaxDailyLoss
  THEN Larger(circuit_breaker_recovery_days, 1)
  ELSE Larger(circuit_breaker_recovery_days, 3)

LegacyLimitReached(daily, weekly) ==
  daily >= MaxDailyLoss \/ weekly >= MaxWeeklyLoss

(* Mutant: a loss at the limit is answered, but the answer is not kept.    *)
CheckCircuitBreakerUnlatched(daily, weekly) ==
  /\ pc = "idle"
  /\ \/ /\ HardLimitPassed(daily, weekly) \/ state.is_active
        /\ TriggerHard
     \/ /\ ~HardLimitPassed(daily, weekly) /\ ~state.is_active
        /\ LegacyLimitReached(daily, weekly)
        /\ circuit_breaker_recovery_days' = LegacyDays(daily, weekly)
        /\ UNCHANGED <<hard, circuit_breaker_active>>
  /\ loss_today' = (loss_today \/ LegacyLimitReached(daily, weekly))
  /\ UNCHANGED <<drawdown, nav, orders, stop>>

(* check_circuit_breaker of the engine, called with the losses of the day  *)
(* and of the week.                                                        *)
CheckCircuitBreaker(daily, weekly) ==
  /\ pc = "idle"
  /\ \/ /\ HardLimitPassed(daily, weekly) \/ state.is_active
        /\ TriggerHard
     \/ /\ ~HardLimitPassed(daily, weekly) /\ ~state.is_active
        /\ LegacyLimitReached(daily, weekly)
        /\ circuit_breaker_active' = TRUE
        /\ circuit_breaker_recovery_days' = LegacyDays(daily, weekly)
        /\ UNCHANGED hard
  /\ loss_today' = (loss_today \/ LegacyLimitReached(daily, weekly))
  /\ UNCHANGED <<drawdown, nav, orders, stop>>

-----------------------------------------------------------------------------
(* check_trailing_drawdown_limit of limits.py.                             *)
NewPeak == Larger(nav, current_peak_equity)
DrawdownBreached == (NewPeak - nav) * 100 > MaxDrawdownPct * NewPeak

(* Mutant: the limit forgets, at the next check, that it was breached.     *)
ShouldStopOnlyInDrawdown == DrawdownBreached

ShouldStop ==
  \/ DrawdownBreached
  \/ in_recovery_mode /\ ~(nav > current_peak_equity)

(* The state the check leaves, whether it says stop or not.                *)
RecordDrawdown ==
  /\ current_peak_equity' = NewPeak
  /\ in_recovery_mode' = ShouldStop
  /\ \/ /\ DrawdownBreached
        /\ breach_peak' = NewPeak
     \/ /\ ~DrawdownBreached /\ nav > breach_peak
        /\ breach_peak' = 0
     \/ /\ ~DrawdownBreached /\ ~(nav > breach_peak)
        /\ UNCHANGED breach_peak
  /\ restarted' = (restarted /\ ~DrawdownBreached /\ breach_peak' > 0)
  /\ halt_ended' = (halt_ended /\ ~DrawdownBreached /\ breach_peak' > 0)
  /\ UNCHANGED <<nav, loss_today>>

CheckTrailingDrawdown ==
  /\ pc = "idle"
  /\ RecordDrawdown
  /\ \/ ShouldStop /\ TriggerHard
     \/ ~ShouldStop /\ UNCHANGED <<hard, soft>>
  /\ UNCHANGED orders

(* The risk gate of process_signal: check_circuit_breaker(0.0), then the   *)
(* drawdown check.  A signal turned away by the soft breaker alone changes *)
(* nothing, and so is no step of its own.                                  *)
RejectSignal ==
  /\ pc = "idle"
  /\ \/ /\ state.is_active
        /\ TriggerHard
        /\ UNCHANGED <<drawdown, nav, history>>
     \/ /\ ~state.is_active
        /\ ~circuit_breaker_active
        /\ ShouldStop
        /\ TriggerHard
        /\ RecordDrawdown
  /\ UNCHANGED orders

(* Mutant: the gate asks the soft breaker alone.                           *)
PassSignalOnSoftBreaker ==
  /\ pc = "idle"
  /\ ~circuit_breaker_active
  /\ ~ShouldStop
  /\ RecordDrawdown
  /\ orders' = 1 - orders
  /\ UNCHANGED <<hard, soft>>

PassSignal ==
  /\ pc = "idle"
  /\ ~state.is_active
  /\ ~circuit_breaker_active
  /\ ~ShouldStop
  /\ RecordDrawdown
  /\ orders' = 1 - orders
  /\ UNCHANGED <<hard, soft>>

-----------------------------------------------------------------------------
(* Mutant: the days are counted down past zero.                            *)
EndOfDayUpdateUnguarded ==
  /\ pc = "idle"
  /\ circuit_breaker_active
  /\ circuit_breaker_recovery_days' = circuit_breaker_recovery_days - 1
  /\ circuit_breaker_active' = (circuit_breaker_recovery_days # 1)
  /\ loss_today' = FALSE
  /\ UNCHANGED <<hard, drawdown, nav, orders, stop>>

EndOfDayUpdate ==
  /\ pc = "idle"
  /\ \/ /\ circuit_breaker_active
        /\ circuit_breaker_recovery_days > 0
        /\ circuit_breaker_recovery_days' = circuit_breaker_recovery_days - 1
        /\ circuit_breaker_active' = (circuit_breaker_recovery_days > 1)
     \/ /\ ~circuit_breaker_active \/ circuit_breaker_recovery_days = 0
        /\ UNCHANGED soft
  /\ loss_today' = FALSE
  /\ UNCHANGED <<hard, drawdown, nav, orders, stop>>

(* update_nav of the portfolio allocator, whose value the gate reads.      *)
UpdateNav ==
  /\ pc = "idle"
  /\ nav' \in Navs
  /\ UNCHANGED <<hard, soft, drawdown, orders, history>>

(* A restart forgets the peak and the recovery mode; the halt it finds on  *)
(* disk is lost when the file was badly saved or could not be read.        *)
Restart ==
  /\ Hard!Start
  /\ Fresh
  /\ restarted' = (breach_peak > 0)
  /\ halt_ended' = (halt_ended \/ (breach_peak > 0 /\ badSave' /\ ~state'.is_active))
  /\ UNCHANGED <<orders, breach_peak>>

ResetHard ==
  /\ \E force \in BOOLEAN : Hard!Reset(force)
  /\ halt_ended' = (breach_peak > 0)
  /\ UNCHANGED <<soft, drawdown, nav, orders, loss_today, breach_peak, restarted>>

(* The other steps of the breaker, its process and the clock.              *)
BreakerStep ==
  /\ \/ Hard!SaveState
     \/ Hard!ExecuteShutdown
     \/ Hard!Crash
     \/ Hard!Tick
  /\ UNCHANGED <<soft, drawdown, nav, orders, history>>

Next ==
  \/ \E daily \in DailyLosses, weekly \in WeeklyLosses :
       CheckCircuitBreaker(daily, weekly)
  \/ CheckTrailingDrawdown
  \/ RejectSignal
  \/ PassSignal
  \/ EndOfDayUpdate
  \/ UpdateNav
  \/ Restart
  \/ ResetHard
  \/ BreakerStep

Spec == Init /\ [][Next]_vars

(* What the operator and the process owe for the soft breaker to clear: a  *)
(* day ends, the process finishes the step it is in and comes back up.     *)
Fairness ==
  /\ WF_vars(EndOfDayUpdate)
  /\ WF_vars(Restart)
  /\ WF_vars(Hard!SaveState /\ UNCHANGED <<soft, drawdown, nav, orders, history>>)
  /\ WF_vars(Hard!ExecuteShutdown /\ UNCHANGED <<soft, drawdown, nav, orders, history>>)

FairSpec == Spec /\ Fairness

-----------------------------------------------------------------------------
(* No order passes the gate while the file says that trading is halted,    *)
(* through any crash and restart, unless the last save, or the read of the *)
(* last start, went wrong.                                                 *)
NoOrderWhileFileSaysHalted ==
  [][PassSignal => badSave \/ ~Hard!LoadState.is_active]_vars

(* Once a loss at or over a limit was reported, no order passes the gate   *)
(* before an end-of-day update or a restart, whatever is reset in between. *)
LossStopsTheDay == [][PassSignal => ~loss_today]_vars

(* After a drawdown stop, no order passes the gate until the NAV exceeds   *)
(* the peak it fell from.  Lifting the halt alone does not resume trading, *)
(* and neither does a restart alone: below the peak an order passes only   *)
(* when the process was restarted since the stop, which forgets the peak,  *)
(* and the halt the stop had triggered was reset, or lost to a bad save or *)
(* a failed read.                                                          *)
StoppedUntilNewPeak ==
  [][PassSignal => \/ breach_peak = 0
                   \/ nav > breach_peak
                   \/ restarted /\ halt_ended]_vars

(* "Circuit breaker reset successfully": once the hard breaker is reset    *)
(* the soft one stops blocking orders too, as the days end.                *)
SoftBreakerRecovers ==
  (circuit_breaker_active /\ ~state.is_active /\ pc = "idle")
    ~> (~circuit_breaker_active \/ state.is_active \/ pc # "idle")
=============================================================================
