------------------------- MODULE HardBreaker_proofs -------------------------
(***************************************************************************)
(* The safety of the hard circuit breaker for every recovery period, every *)
(* length of run and every pattern of crashes and failed saves, and the    *)
(* proof that it implements TradingHalt.                                   *)
(***************************************************************************)
EXTENDS HardBreaker, TLAPS

(* The record values of the model have their types.                        *)
LEMMA ClearedType == Cleared \in CircuitBreakerState
  BY BreakerAssumption DEF Cleared, CircuitBreakerState, Ticks

LEMMA FileTypes ==
  /\ NoFile \in StateFile
  /\ TornFile \in StateFile
  /\ \A s \in CircuitBreakerState : [status |-> "good", data |-> s] \in StateFile
  BY ClearedType DEF NoFile, TornFile, StateFile

LEMMA LoadedType == TypeOK => LoadState \in CircuitBreakerState
  BY ClearedType DEF TypeOK, LoadState, StateFile

(* Assigning a field of the state keeps its type.                          *)
LEMMA UpdateTypes ==
  ASSUME NEW s \in CircuitBreakerState
  PROVE  /\ \A b \in BOOLEAN : [s EXCEPT !.is_active = b] \in CircuitBreakerState
         /\ \A t \in Ticks : [s EXCEPT !.trigger_time = t] \in CircuitBreakerState
         /\ \A d \in 0..RecoveryDays :
              [s EXCEPT !.recovery_days_remaining = d] \in CircuitBreakerState
         /\ \A b \in BOOLEAN : [s EXCEPT !.orders_cancelled = b] \in CircuitBreakerState
         /\ \A b \in BOOLEAN : [s EXCEPT !.positions_closed = b] \in CircuitBreakerState
<1>1. \A b \in BOOLEAN : [s EXCEPT !.is_active = b] \in CircuitBreakerState
  BY DEF CircuitBreakerState
<1>2. \A t \in Ticks : [s EXCEPT !.trigger_time = t] \in CircuitBreakerState
  BY DEF CircuitBreakerState
<1>3. \A d \in 0..RecoveryDays :
        [s EXCEPT !.recovery_days_remaining = d] \in CircuitBreakerState
  BY DEF CircuitBreakerState
<1>4. \A b \in BOOLEAN : [s EXCEPT !.orders_cancelled = b] \in CircuitBreakerState
  BY DEF CircuitBreakerState
<1>5. \A b \in BOOLEAN : [s EXCEPT !.positions_closed = b] \in CircuitBreakerState
  BY DEF CircuitBreakerState
<1>6. QED BY <1>1, <1>2, <1>3, <1>4, <1>5

(* The days left are a number of days of the recovery period.              *)
LEMMA CheckRecoveryType ==
  ASSUME TypeOK, NEW s \in CircuitBreakerState, s.trigger_time <= now
  PROVE  CheckRecovery(s) \in CircuitBreakerState
<1> DEFINE elapsed == Days(now - s.trigger_time)
<1>1. elapsed \in Nat
  BY BreakerAssumption DEF TypeOK, CircuitBreakerState, Ticks, Days, TicksPerDay
<1>2. (IF elapsed >= RecoveryDays THEN 0 ELSE RecoveryDays - elapsed) \in 0..RecoveryDays
  BY <1>1, BreakerAssumption
<1>3. QED BY <1>2 DEF CheckRecovery, CircuitBreakerState

(* Every state of the breaker and of its file has the declared type, and   *)
(* no halt it holds begins in the future.                                  *)
ClockInv ==
  /\ state.trigger_time <= now
  /\ file.data.trigger_time <= now

LEMMA LoadedBeforeNow == TypeOK /\ ClockInv => LoadState.trigger_time <= now
  BY DEF LoadState, Cleared, ClockInv, TypeOK, Ticks

THEOREM TypeCorrect == Spec => [](TypeOK /\ ClockInv)
<1>1. Init => TypeOK /\ ClockInv
  <2> SUFFICES ASSUME Init PROVE TypeOK /\ ClockInv
    OBVIOUS
  <2>1. TypeOK
    <3>1. state \in CircuitBreakerState /\ file \in StateFile
      BY ClearedType, FileTypes DEF Init
    <3>2. now \in Ticks /\ shutdowns \subseteq Ticks
      BY BreakerAssumption DEF Init, Ticks
    <3>3. pc \in Saving \union {"down", "idle", "shutdown"} /\ badSave \in BOOLEAN
      BY DEF Init
    <3>4. QED BY <3>1, <3>2, <3>3 DEF TypeOK
  <2>2. ClockInv
    BY DEF Init, ClockInv, Cleared, NoFile
  <2>3. QED BY <2>1, <2>2
<1>2. TypeOK /\ ClockInv /\ [Next]_vars => TypeOK' /\ ClockInv'
  <2> SUFFICES ASSUME TypeOK, ClockInv, [Next]_vars PROVE TypeOK' /\ ClockInv'
    OBVIOUS
  <2>2. CASE Start
    <3>1. CheckRecovery(LoadState) \in CircuitBreakerState
      BY LoadedType, LoadedBeforeNow, CheckRecoveryType
    <3>2. TypeOK'
      <4>1. state' \in CircuitBreakerState
        BY <2>2, <3>1, LoadedType, ClearedType DEF Start
      <4>2. badSave' \in BOOLEAN
        BY <2>2, Zenon DEF Start, TypeOK
      <4>3. QED BY <2>2, <4>1, <4>2 DEF Start, TypeOK, Saving
    <3>3. ClockInv'
      BY <2>2, LoadedBeforeNow, LoadedType
         DEF Start, ClockInv, CheckRecovery, CircuitBreakerState, Cleared, TypeOK, Ticks
    <3>4. QED BY <3>2, <3>3
  <2>3. CASE SaveState
    <3>1. TypeOK'
      BY <2>3, FileTypes DEF SaveState, TypeOK, AfterSave
    <3>2. ClockInv'
      BY <2>3 DEF SaveState, ClockInv, TornFile, Cleared, TypeOK, Ticks
    <3>3. QED BY <3>1, <3>2
  <2>4. CASE Trigger
    <3> DEFINE s1 == [state EXCEPT !.is_active = TRUE]
               s2 == [s1 EXCEPT !.trigger_time = now]
               s3 == [s2 EXCEPT !.recovery_days_remaining = RecoveryDays]
    <3>a. s1 \in CircuitBreakerState
      BY UpdateTypes DEF TypeOK
    <3>b. s2 \in CircuitBreakerState
      <4> HIDE DEF s1
      <4> QED BY <3>a, UpdateTypes DEF TypeOK
    <3>c. s3 \in CircuitBreakerState
      <4> HIDE DEF s2
      <4> QED BY <3>b, UpdateTypes, BreakerAssumption DEF TypeOK
    <3>1. state' \in CircuitBreakerState
      BY <2>4, <3>c DEF Trigger
    <3>2. QED BY <2>4, <3>1 DEF Trigger, TypeOK, ClockInv, Saving, CircuitBreakerState, Ticks
  <2>5. CASE ExecuteShutdown
    <3>1. state' \in CircuitBreakerState /\ state'.trigger_time = state.trigger_time
      BY <2>5, BreakerAssumption DEF ExecuteShutdown, TypeOK, CircuitBreakerState
    <3>2. QED BY <2>5, <3>1 DEF ExecuteShutdown, TypeOK, ClockInv, Saving, CircuitBreakerState
  <2>6. ASSUME NEW force \in BOOLEAN, Reset(force) PROVE TypeOK' /\ ClockInv'
    BY <2>6, ClearedType DEF Reset, TypeOK, ClockInv, Saving, Cleared, Ticks
  <2>7. CASE Crash
    <3>1. TypeOK'
      BY <2>7, ClearedType, FileTypes DEF Crash, TypeOK
    <3>2. ClockInv'
      BY <2>7 DEF Crash, ClockInv, TypeOK, Cleared, TornFile, Ticks
    <3>3. QED BY <3>1, <3>2
  <2>8. CASE Tick
    BY <2>8, BreakerAssumption DEF Tick, TypeOK, ClockInv, Ticks, CircuitBreakerState, StateFile
  <2>9. CASE UNCHANGED vars
    BY <2>9 DEF vars, TypeOK, ClockInv
  <2>10. QED BY <2>2, <2>3, <2>4, <2>5, <2>6, <2>7, <2>8, <2>9 DEF Next
<1>3. QED BY <1>1, <1>2, PTL DEF Spec

-----------------------------------------------------------------------------
(* Days passed only grow with the clock.                                   *)
LEMMA DaysGrow ==
  ASSUME NEW t \in Ticks, NEW n \in Ticks, t <= n
  PROVE  /\ Days(n - t) \in Nat
         /\ Days(n + 1 - t) >= Days(n - t)
         /\ Days(0) = 0
         /\ n - t >= TicksPerDay * Days(n - t)
  BY BreakerAssumption DEF Ticks, Days, TicksPerDay

(* What _check_recovery computes never undercounts the days to wait.       *)
LEMMA CheckRecoveryCounts ==
  ASSUME TypeOK, NEW s \in CircuitBreakerState, s.trigger_time <= now
  PROVE  RecoveryCounted(CheckRecovery(s))
<1>1. /\ CheckRecovery(s).trigger_time = s.trigger_time
      /\ CheckRecovery(s).recovery_days_remaining =
           IF Days(now - s.trigger_time) >= RecoveryDays
           THEN 0 ELSE RecoveryDays - Days(now - s.trigger_time)
  BY DEF CheckRecovery, CircuitBreakerState
<1>2. s.trigger_time \in Ticks /\ now \in Ticks
  BY DEF TypeOK, CircuitBreakerState
<1>3. Days(now - s.trigger_time) \in Nat
  BY <1>2, DaysGrow
<1>4. QED BY <1>1, <1>3, BreakerAssumption DEF RecoveryCounted

(* No sequence of saves, crashes and restarts shortens a recovery period.  *)
THEOREM RecoverySafe == Spec => []RecoveryNeverShortened
<1>1. Init => RecoveryNeverShortened
  BY DEF Init, RecoveryNeverShortened, RecoveryCounted, Cleared, NoFile
<1>2. TypeOK /\ ClockInv /\ RecoveryNeverShortened /\ [Next]_vars
      => RecoveryNeverShortened'
  <2> SUFFICES ASSUME TypeOK, ClockInv, RecoveryNeverShortened, [Next]_vars
               PROVE  RecoveryNeverShortened'
    OBVIOUS
  <2>1. RecoveryCounted(Cleared) /\ RecoveryCounted(LoadState)
    BY DEF RecoveryNeverShortened, RecoveryCounted, Cleared, LoadState
  <2>2. CASE Start
    <3>1. RecoveryCounted(CheckRecovery(LoadState))
      BY LoadedType, LoadedBeforeNow, CheckRecoveryCounts
    <3>2. QED BY <2>1, <2>2, <3>1 DEF Start, RecoveryNeverShortened, RecoveryCounted
  <2>3. CASE SaveState
    BY <2>3 DEF SaveState, RecoveryNeverShortened, RecoveryCounted, TornFile, Cleared
  <2>4. CASE Trigger
    <3>1. /\ state'.trigger_time = now
          /\ state'.recovery_days_remaining = RecoveryDays
      BY <2>4 DEF Trigger, TypeOK, CircuitBreakerState
    <3>2. Days(now - now) \in Nat /\ now \in Ticks
      BY DaysGrow DEF TypeOK, Ticks
    <3>3. RecoveryCounted(state)'
      BY <2>4, <3>1, <3>2, BreakerAssumption DEF Trigger, RecoveryCounted, Ticks
    <3>4. QED BY <2>4, <3>3 DEF Trigger, RecoveryNeverShortened, RecoveryCounted
  <2>5. CASE ExecuteShutdown
    <3>1. /\ state'.is_active = state.is_active
          /\ state'.trigger_time = state.trigger_time
          /\ state'.recovery_days_remaining = state.recovery_days_remaining
      BY <2>5 DEF ExecuteShutdown, TypeOK, CircuitBreakerState
    <3>2. QED BY <2>5, <3>1 DEF ExecuteShutdown, RecoveryNeverShortened, RecoveryCounted
  <2>6. ASSUME NEW force \in BOOLEAN, Reset(force) PROVE RecoveryNeverShortened'
    BY <2>6 DEF Reset, RecoveryNeverShortened, RecoveryCounted, Cleared
  <2>7. CASE Crash
    BY <2>7 DEF Crash, RecoveryNeverShortened, RecoveryCounted, TornFile, Cleared
  <2>8. CASE Tick
    <3>1. /\ state.trigger_time \in Ticks /\ file.data.trigger_time \in Ticks
          /\ state.recovery_days_remaining \in Nat
          /\ file.data.recovery_days_remaining \in Nat
          /\ now \in Ticks
      BY BreakerAssumption DEF TypeOK, CircuitBreakerState, StateFile
    <3>2. /\ Days(now + 1 - state.trigger_time) \in Int
          /\ Days(now + 1 - file.data.trigger_time) \in Int
          /\ Days(now + 1 - state.trigger_time) >= Days(now - state.trigger_time)
          /\ Days(now + 1 - file.data.trigger_time) >= Days(now - file.data.trigger_time)
          /\ Days(now - state.trigger_time) \in Nat
          /\ Days(now - file.data.trigger_time) \in Nat
      BY <3>1 DEF ClockInv, Days, TicksPerDay, Ticks
    <3>3. RecoveryCounted(state)'
      BY <2>8, <3>1, <3>2, BreakerAssumption
         DEF Tick, RecoveryNeverShortened, RecoveryCounted, ClockInv, Ticks
    <3>4. RecoveryCounted(file.data)'
      BY <2>8, <3>1, <3>2, BreakerAssumption
         DEF Tick, RecoveryNeverShortened, RecoveryCounted, ClockInv, Ticks
    <3>5. QED BY <3>3, <3>4 DEF RecoveryNeverShortened
  <2>9. CASE UNCHANGED vars
    BY <2>9 DEF vars, RecoveryNeverShortened, RecoveryCounted
  <2>10. QED BY <2>2, <2>3, <2>4, <2>5, <2>6, <2>7, <2>8, <2>9 DEF Next
<1>3. QED BY <1>1, <1>2, TypeCorrect, PTL DEF Spec

-----------------------------------------------------------------------------
(* The steps of trigger before the flags are set run on an active state    *)
(* whose flags are still false, and a save at the end of _execute_shutdown *)
(* or of a restart is the save of an active state.                         *)
StepsInv ==
  /\ pc \in {"trigger_save", "shutdown"} =>
       /\ state.is_active
       /\ ~state.orders_cancelled
       /\ ~state.positions_closed
  /\ pc = "shutdown_save" => state.is_active

(* What trigger and _execute_shutdown assign, field by field.              *)
LEMMA TriggerFields ==
  ASSUME TypeOK, Trigger
  PROVE  /\ state'.is_active
         /\ state'.trigger_time = now
         /\ state'.orders_cancelled = state.orders_cancelled
         /\ state'.positions_closed = state.positions_closed
  BY DEF Trigger, TypeOK, CircuitBreakerState

LEMMA ShutdownFields ==
  ASSUME TypeOK, ExecuteShutdown
  PROVE  /\ state'.is_active = state.is_active
         /\ state'.trigger_time = state.trigger_time
         /\ state'.orders_cancelled
  BY DEF ExecuteShutdown, TypeOK, CircuitBreakerState

LEMMA CheckRecoveryFields ==
  ASSUME NEW s \in CircuitBreakerState
  PROVE  /\ CheckRecovery(s).is_active = s.is_active
         /\ CheckRecovery(s).trigger_time = s.trigger_time
         /\ CheckRecovery(s).orders_cancelled = s.orders_cancelled
         /\ CheckRecovery(s).positions_closed = s.positions_closed
  BY DEF CheckRecovery, CircuitBreakerState

(* The shutdown flags are never true of a halt whose shutdown did not run. *)
THEOREM FlagsSafe == Spec => [](FlagsTruthful /\ StepsInv)
<1>1. Init => FlagsTruthful /\ StepsInv
  BY DEF Init, FlagsTruthful, FlagsBacked, StepsInv, Cleared, NoFile
<1>2. TypeOK /\ FlagsTruthful /\ StepsInv /\ [Next]_vars => FlagsTruthful' /\ StepsInv'
  <2> SUFFICES ASSUME TypeOK, FlagsTruthful, StepsInv, [Next]_vars
               PROVE  FlagsTruthful' /\ StepsInv'
    OBVIOUS
  <2>1. FlagsBacked(Cleared) /\ FlagsBacked(LoadState)
    BY DEF FlagsTruthful, FlagsBacked, Cleared, LoadState
  <2>2. CASE Start
    <3>1. CASE state' = CheckRecovery(LoadState)
      <4>1. pc' \in {"recovery_save", "idle"} /\ UNCHANGED <<file, shutdowns>>
        BY <2>2 DEF Start
      <4>2. FlagsBacked(state)'
        BY <3>1, <4>1, <2>1, LoadedType, CheckRecoveryFields DEF FlagsBacked
      <4>3. QED BY <4>1, <4>2 DEF FlagsTruthful, FlagsBacked, StepsInv
    <3>2. CASE state' = LoadState \/ state' = Cleared
      BY <2>1, <2>2, <3>2 DEF Start, FlagsTruthful, FlagsBacked, StepsInv
    <3>3. QED BY <2>2, <3>1, <3>2 DEF Start
  <2>3. CASE SaveState
    BY <2>1, <2>3 DEF SaveState, FlagsTruthful, FlagsBacked, StepsInv, TornFile, AfterSave, TypeOK, Saving
  <2>4. CASE Trigger
    BY <2>4, TriggerFields DEF Trigger, FlagsTruthful, FlagsBacked, StepsInv
  <2>5. CASE ExecuteShutdown
    <3>1. state.is_active
      BY <2>5 DEF ExecuteShutdown, StepsInv
    <3>2. FlagsBacked(state)'
      BY <2>5, <3>1, ShutdownFields DEF ExecuteShutdown, FlagsBacked
    <3>3. FlagsBacked(file.data)'
      BY <2>5 DEF ExecuteShutdown, FlagsTruthful, FlagsBacked
    <3>4. StepsInv'
      BY <2>5, <3>1, ShutdownFields DEF ExecuteShutdown, StepsInv
    <3>5. QED BY <3>2, <3>3, <3>4 DEF FlagsTruthful
  <2>6. ASSUME NEW force \in BOOLEAN, Reset(force) PROVE FlagsTruthful' /\ StepsInv'
    BY <2>1, <2>6 DEF Reset, FlagsTruthful, FlagsBacked, StepsInv
  <2>7. CASE Crash
    BY <2>1, <2>7 DEF Crash, FlagsTruthful, FlagsBacked, StepsInv, TornFile
  <2>8. CASE Tick
    BY <2>8 DEF Tick, FlagsTruthful, FlagsBacked, StepsInv
  <2>9. CASE UNCHANGED vars
    BY <2>9 DEF vars, FlagsTruthful, FlagsBacked, StepsInv
  <2>10. QED BY <2>2, <2>3, <2>4, <2>5, <2>6, <2>7, <2>8, <2>9 DEF Next
<1>3. QED BY <1>1, <1>2, TypeCorrect, PTL DEF Spec

(* After a save that succeeded, the file holds the state of the process.   *)
THEOREM FileCurrent == Spec => []FileIsCurrent
<1>1. Init => FileIsCurrent
  BY DEF Init, FileIsCurrent
<1>2. TypeOK /\ FileIsCurrent /\ [Next]_vars => FileIsCurrent'
  <2> SUFFICES ASSUME TypeOK, FileIsCurrent, [Next]_vars PROVE FileIsCurrent'
    OBVIOUS
  <2>1. CASE Start
    BY <2>1 DEF Start, FileIsCurrent, LoadState
  <2>2. CASE SaveState
    BY <2>2 DEF SaveState, FileIsCurrent, LoadState
  <2>3. CASE Trigger \/ ExecuteShutdown \/ \E force \in BOOLEAN : Reset(force)
    BY <2>3 DEF Trigger, ExecuteShutdown, Reset, FileIsCurrent
  <2>4. CASE Crash
    BY <2>4 DEF Crash, FileIsCurrent
  <2>5. CASE Tick \/ UNCHANGED vars
    BY <2>5 DEF Tick, vars, FileIsCurrent, LoadState
  <2>6. QED BY <2>1, <2>2, <2>3, <2>4, <2>5 DEF Next
<1>3. QED BY <1>1, <1>2, TypeCorrect, PTL DEF Spec

(* A halt's shutdown sequence is never run a second time.                  *)
THEOREM ShutdownOnce == Spec => ShutdownOncePerHalt
<1>1. StepsInv /\ FileIsCurrent /\ [Next]_vars
      => [ExecuteShutdown => /\ ~state.orders_cancelled
                             /\ badSave \/ ~LoadState.orders_cancelled]_vars
  BY DEF ExecuteShutdown, StepsInv, FileIsCurrent
<1>2. QED BY <1>1, FlagsSafe, FileCurrent, PTL DEF Spec, ShutdownOncePerHalt

-----------------------------------------------------------------------------
(* The breaker implements the abstract halt: for every recovery period, a  *)
(* halt ends only after it, by an authorised override, or by a bad save.   *)
THEOREM Refinement == Spec => ImplementsTradingHalt
<1>1. Init => Halt!Init
  BY DEF Init, Halt!Init, Visible, LoadState, Cleared, NoFile
<1>2. /\ TypeOK /\ ClockInv /\ RecoveryNeverShortened /\ FileIsCurrent
      /\ [Next]_vars
      => [Halt!Next]_Halt!vars
  <2> SUFFICES ASSUME TypeOK, ClockInv, RecoveryNeverShortened, FileIsCurrent, [Next]_vars
               PROVE  [Halt!Next]_Halt!vars
    OBVIOUS
  <2> USE DEF Visible
  <2>1. CASE Start
    <3>1. CASE state' = Cleared /\ badSave' = TRUE
      <4>1. Halt!RestartFromStaleCopy
        <5>1. Cleared.is_active = FALSE /\ Cleared.trigger_time = 0 /\ 0 \in 0..now
          BY DEF Cleared, TypeOK, Ticks
        <5>2. QED BY <2>1, <3>1, <5>1 DEF Start, Halt!RestartFromStaleCopy
      <4>2. QED BY <4>1 DEF Halt!Next
    <3>2. CASE /\ state' \in {LoadState, CheckRecovery(LoadState)}
               /\ UNCHANGED badSave
      <4>1. /\ Visible'.is_active = Visible.is_active
            /\ Visible'.trigger_time = Visible.trigger_time
        BY <2>1, <3>2, LoadedType, CheckRecoveryFields DEF Start
      <4>2. QED BY <2>1, <3>2, <4>1 DEF Start, Halt!vars
    <3>3. QED BY <2>1, <3>1, <3>2 DEF Start
  <2>2. CASE SaveState
    <3>1. Halt!Persist
      BY <2>2 DEF SaveState, Halt!Persist, Saving, AfterSave, TypeOK
    <3>2. QED BY <3>1 DEF Halt!Next
  <2>3. CASE Trigger
    <3>1. Halt!Halt
      BY <2>3, TriggerFields DEF Trigger, Halt!Halt, TypeOK, CircuitBreakerState
    <3>2. QED BY <3>1 DEF Halt!Next
  <2>4. CASE ExecuteShutdown
    BY <2>4, ShutdownFields DEF ExecuteShutdown, Halt!vars
  <2>5. ASSUME NEW force \in BOOLEAN, Reset(force) PROVE [Halt!Next]_Halt!vars
    <3>1. AllowOverride \/ now - state.trigger_time >= RecoveryDays * TicksPerDay
      <4>1. CASE force
        BY <2>5, <4>1 DEF Reset
      <4>2. CASE ~force
        <5>1. Days(now - state.trigger_time) >= RecoveryDays
          BY <2>5, <4>2, DaysGrow, BreakerAssumption
             DEF Reset, RecoveryNeverShortened, RecoveryCounted, TypeOK,
                 CircuitBreakerState, ClockInv
        <5>2. now - state.trigger_time >= TicksPerDay * Days(now - state.trigger_time)
          BY DaysGrow DEF TypeOK, CircuitBreakerState, ClockInv
        <5>3. /\ now - state.trigger_time \in Int
              /\ Days(now - state.trigger_time) \in Nat
          BY DaysGrow DEF TypeOK, CircuitBreakerState, ClockInv, Ticks
        <5>4. QED BY <5>1, <5>2, <5>3, BreakerAssumption DEF TicksPerDay
      <4>3. QED BY <4>1, <4>2
    <3>2. Halt!Resume
      BY <2>5, <3>1 DEF Reset, Halt!Resume, Cleared, TypeOK, CircuitBreakerState
    <3>3. QED BY <3>2 DEF Halt!Next
  <2>6. CASE Crash
    <3>1. CASE badSave'
      <4>1. LoadState'.is_active \in BOOLEAN /\ LoadState'.trigger_time \in 0..now
        <5>1. LoadState' \in {LoadState, Cleared}
          BY <2>6 DEF Crash, LoadState, TornFile
        <5>2. /\ LoadState \in CircuitBreakerState /\ Cleared \in CircuitBreakerState
              /\ LoadState.trigger_time <= now /\ Cleared.trigger_time <= now
          BY LoadedType, LoadedBeforeNow, ClearedType DEF Cleared, TypeOK, Ticks
        <5>3. QED BY <5>1, <5>2 DEF CircuitBreakerState, Ticks
      <4>2. Halt!RestartFromStaleCopy
        BY <2>6, <3>1, <4>1 DEF Crash, Halt!RestartFromStaleCopy
      <4>3. QED BY <4>2 DEF Halt!Next
    <3>2. CASE ~badSave'
      <4>1. LoadState' = state
        BY <2>6, <3>2 DEF Crash, FileIsCurrent, LoadState, TypeOK
      <4>2. QED BY <2>6, <3>2, <4>1 DEF Crash, Halt!vars, TypeOK
    <3>3. QED BY <3>1, <3>2
  <2>7. CASE Tick
    BY <2>7 DEF Tick, LoadState, Halt!Next, Halt!Tick
  <2>8. CASE UNCHANGED vars
    BY <2>8 DEF vars, LoadState, Halt!vars
  <2>9. QED BY <2>1, <2>2, <2>3, <2>4, <2>5, <2>6, <2>7, <2>8 DEF Next
<1>3. QED BY <1>1, <1>2, TypeCorrect, RecoverySafe, FileCurrent, PTL
         DEF Spec, ImplementsTradingHalt, Halt!Spec
=============================================================================
