---------------------------- MODULE HardBreaker ----------------------------
(***************************************************************************)
(* HardCircuitBreaker (production/src/risk/institutional_risk_engine.py):  *)
(* the breaker that halts trading, keeps the halt in a JSON file so that   *)
(* it survives a restart, and lets an operator lift it after the recovery  *)
(* period.                                                                 *)
(*                                                                         *)
(* One thread runs the breaker, so a method is a sequence of steps that    *)
(* only a crash or the clock can interrupt.  `pc' names the step reached:  *)
(*                                                                         *)
(*   __init__   down -> recovery_save -> idle     (or down -> idle)        *)
(*   trigger    idle -> trigger_save -> shutdown -> shutdown_save -> idle  *)
(*   reset      idle -> reset_save -> idle                                 *)
(*                                                                         *)
(* The clock ticks every twelve hours, because the code counts whole days  *)
(* between two instants that need not fall at the same hour.               *)
(***************************************************************************)
EXTENDS Integers

CONSTANTS RecoveryDays,    \* recovery_days: length of a halt
          ClosePositions,  \* close_positions: does a shutdown close positions?
          AllowOverride,   \* allow_manual_override: may reset(force=True) pass?
          MaxTick          \* bound on the clock

ASSUME BreakerAssumption ==
  /\ RecoveryDays \in Nat
  /\ ClosePositions \in BOOLEAN
  /\ AllowOverride \in BOOLEAN
  /\ MaxTick \in Nat

VARIABLES state,     \* self.state, in memory
          file,      \* the state file
          pc,        \* the step the process has reached, or "down"
          now,       \* the clock, in ticks
          badSave,   \* history: the last save, or the last start's read,
                     \* was interrupted or failed
          shutdowns  \* history: trigger times whose shutdown sequence ran

vars == <<state, file, pc, now, badSave, shutdowns>>

TicksPerDay == 2
Ticks == 0..MaxTick
Days(ticks) == ticks \div TicksPerDay

CircuitBreakerState ==
  [is_active               : BOOLEAN,
   trigger_time            : Ticks,
   recovery_days_remaining : 0..RecoveryDays,
   positions_closed        : BOOLEAN,
   orders_cancelled        : BOOLEAN]

(* The state of a breaker that is not active; trigger_time None is 0.      *)
Cleared ==
  [is_active               |-> FALSE,
   trigger_time            |-> 0,
   recovery_days_remaining |-> 0,
   positions_closed        |-> FALSE,
   orders_cancelled        |-> FALSE]

StateFile == [status : {"absent", "torn", "good"}, data : CircuitBreakerState]
NoFile == [status |-> "absent", data |-> Cleared]
TornFile == [status |-> "torn", data |-> Cleared]

Saving == {"recovery_save", "trigger_save", "shutdown_save", "reset_save"}

AfterSave(step) == IF step = "trigger_save" THEN "shutdown" ELSE "idle"

TypeOK ==
  /\ state \in CircuitBreakerState
  /\ file \in StateFile
  /\ pc \in Saving \union {"down", "idle", "shutdown"}
  /\ now \in Ticks
  /\ badSave \in BOOLEAN
  /\ shutdowns \subseteq Ticks

Init ==
  /\ state = Cleared
  /\ file = NoFile
  /\ pc = "down"
  /\ now = 0
  /\ badSave = FALSE
  /\ shutdowns = {}

-----------------------------------------------------------------------------
(* _load_state: a missing file, and one that cannot be parsed, both load   *)
(* as a breaker that is not active.  What the file says, read without an   *)
(* error of the disk; Start has the read that fails.                       *)
LoadState == IF file.status = "good" THEN file.data ELSE Cleared

(* Mutants of _check_recovery: the count may go negative; a day that has   *)
(* begun counts as one that has passed.                                    *)
CheckRecoveryUnclamped(s) ==
  [s EXCEPT !.recovery_days_remaining =
     RecoveryDays - Days(now - s.trigger_time)]

CheckRecoveryRoundedUp(s) ==
  LET elapsed == Days(now - s.trigger_time + 1)
  IN  [s EXCEPT !.recovery_days_remaining =
         IF elapsed >= RecoveryDays THEN 0 ELSE RecoveryDays - elapsed]

(* _check_recovery: the days left, from the whole days since the trigger.  *)
CheckRecovery(s) ==
  LET elapsed == Days(now - s.trigger_time)
  IN  [s EXCEPT !.recovery_days_remaining =
         IF elapsed >= RecoveryDays THEN 0 ELSE RecoveryDays - elapsed]

(* Mutant: the start recounts the days left and does not save them.        *)
StartWithoutSave ==
  /\ pc = "down"
  /\ state' = IF LoadState.is_active THEN CheckRecovery(LoadState) ELSE LoadState
  /\ pc' = "idle"
  /\ UNCHANGED <<file, now, badSave, shutdowns>>

(* __init__ on a halt, on none, and on one it fails to read: any error of  *)
(* the read is swallowed and answered with a breaker that is not active.   *)
Start ==
  /\ pc = "down"
  /\ \/ /\ LoadState.is_active
        /\ state' = CheckRecovery(LoadState)
        /\ pc' = "recovery_save"
        /\ UNCHANGED badSave
     \/ /\ ~LoadState.is_active
        /\ state' = LoadState
        /\ pc' = "idle"
        /\ UNCHANGED badSave
     \/ /\ LoadState.is_active
        /\ state' = Cleared
        /\ pc' = "idle"
        /\ badSave' = TRUE
  /\ UNCHANGED <<file, now, shutdowns>>

(* _save_state: open(file, 'w') truncates before json.dump writes, and any *)
(* exception is swallowed, so a save may leave the file as it was (open    *)
(* failed) or torn (the write failed) and the method carries on.           *)
SaveState ==
  /\ pc \in Saving
  /\ \/ /\ file' = [status |-> "good", data |-> state]
        /\ badSave' = FALSE
     \/ /\ file' \in {file, TornFile}
        /\ badSave' = TRUE
  /\ pc' = AfterSave(pc)
  /\ UNCHANGED <<state, now, shutdowns>>

(* Mutants of trigger: it starts a halt over when one is on; it announces  *)
(* the cancelled orders before anything cancelled them.                    *)
TriggerAgain ==
  /\ pc = "idle"
  /\ state' = [state EXCEPT !.is_active = TRUE,
                            !.trigger_time = now,
                            !.recovery_days_remaining = RecoveryDays]
  /\ pc' = "trigger_save"
  /\ UNCHANGED <<file, now, badSave, shutdowns>>

TriggerAnnouncing ==
  /\ pc = "idle"
  /\ ~state.is_active
  /\ state' = [state EXCEPT !.is_active = TRUE,
                            !.trigger_time = now,
                            !.recovery_days_remaining = RecoveryDays,
                            !.orders_cancelled = TRUE]
  /\ pc' = "trigger_save"
  /\ UNCHANGED <<file, now, badSave, shutdowns>>

(* trigger, up to its first save; on an active breaker it does nothing.    *)
Trigger ==
  /\ pc = "idle"
  /\ ~state.is_active
  /\ state' = [state EXCEPT !.is_active = TRUE,
                            !.trigger_time = now,
                            !.recovery_days_remaining = RecoveryDays]
  /\ pc' = "trigger_save"
  /\ UNCHANGED <<file, now, badSave, shutdowns>>

(* _execute_shutdown, up to its save.  The callback's own exceptions are   *)
(* swallowed; one that ends the process is a Crash at this step.           *)
ExecuteShutdown ==
  /\ pc = "shutdown"
  /\ state' = [state EXCEPT !.orders_cancelled = TRUE,
                            !.positions_closed = @ \/ ClosePositions]
  /\ shutdowns' = shutdowns \union {state.trigger_time}
  /\ pc' = "shutdown_save"
  /\ UNCHANGED <<file, now, badSave>>

(* Mutant: reset looks only at the authority to force, not at the days.    *)
ResetEarly(force) ==
  /\ pc = "idle"
  /\ state.is_active
  /\ ~force \/ AllowOverride
  /\ state' = Cleared
  /\ pc' = "reset_save"
  /\ UNCHANGED <<file, now, badSave, shutdowns>>

(* reset(force) on an active breaker; a refused call changes nothing.      *)
Reset(force) ==
  /\ pc = "idle"
  /\ state.is_active
  /\ force \/ state.recovery_days_remaining = 0
  /\ ~force \/ AllowOverride
  /\ state' = Cleared
  /\ pc' = "reset_save"
  /\ UNCHANGED <<file, now, badSave, shutdowns>>

(* The process dies; in the middle of a save the file may be left torn.    *)
Crash ==
  /\ pc # "down"
  /\ \/ /\ pc \in Saving
        /\ file' \in {file, TornFile}
        /\ badSave' = TRUE
     \/ /\ pc \notin Saving
        /\ UNCHANGED <<file, badSave>>
  /\ pc' = "down"
  /\ state' = Cleared
  /\ UNCHANGED <<now, shutdowns>>

Tick ==
  /\ now < MaxTick
  /\ now' = now + 1
  /\ UNCHANGED <<state, file, pc, badSave, shutdowns>>

Next ==
  \/ Start
  \/ SaveState
  \/ Trigger
  \/ ExecuteShutdown
  \/ \E force \in BOOLEAN : Reset(force)
  \/ Crash
  \/ Tick

Spec == Init /\ [][Next]_vars

-----------------------------------------------------------------------------
(* The days left, in memory and on disk, are never fewer than the whole    *)
(* days that must still pass: whatever sequence of restarts recomputes     *)
(* them, a halt is never counted down early.                               *)
RecoveryCounted(s) ==
  s.is_active =>
    /\ s.trigger_time <= now
    /\ s.recovery_days_remaining + Days(now - s.trigger_time) >= RecoveryDays

RecoveryNeverShortened ==
  /\ RecoveryCounted(state)
  /\ RecoveryCounted(file.data)

(* The flags "orders cancelled" and "positions closed", in memory or read  *)
(* back from disk after a crash, are only ever true of a halt whose        *)
(* shutdown sequence really ran.                                           *)
FlagsBacked(s) ==
  s.orders_cancelled \/ s.positions_closed =>
    /\ s.is_active
    /\ s.trigger_time \in shutdowns

FlagsTruthful ==
  /\ FlagsBacked(state)
  /\ FlagsBacked(file.data)

(* A process that dies outside a save, after a save that succeeded, leaves *)
(* on disk exactly the state it had: a restart that can read the file      *)
(* continues the same halt.                                                *)
FileIsCurrent ==
  pc \in {"idle", "shutdown"} /\ ~badSave => LoadState = state

(* The shutdown sequence is never run again for a halt that had its orders *)
(* cancelled, however often trigger is called and the process restarted:   *)
(* neither memory nor (unless a save or a read went wrong) the file knows  *)
(* of one.                                                                 *)
ShutdownOncePerHalt ==
  [][ExecuteShutdown =>
       /\ ~state.orders_cancelled
       /\ badSave \/ ~LoadState.orders_cancelled]_vars

-----------------------------------------------------------------------------
(* The breaker seen from outside: the halt of the running process, or the  *)
(* one its next start will load.                                           *)
Visible == IF pc = "down" THEN LoadState ELSE state

Halt == INSTANCE TradingHalt WITH
  RecoveryTicks <- RecoveryDays * TicksPerDay,
  halted <- Visible.is_active,
  since  <- Visible.trigger_time,
  fault  <- badSave

(* The breaker implements TradingHalt: a halt ends only after its recovery *)
(* period, by an authorised override, or because a save or a read of the   *)
(* file went wrong.                                                        *)
ImplementsTradingHalt == Halt!Spec
=============================================================================
