-------------------------- MODULE RiskEngine_proofs --------------------------
(***************************************************************************)
(* The risk engine drives the hard breaker only through its own steps, so  *)
(* it inherits what is proved of HardBreaker; and the three safety         *)
(* properties of the risk gate, for every limit and every recovery period. *)
(***************************************************************************)
EXTENDS RiskEngine, TLAPS

(* Each operation of the engine is a step of the breaker, or leaves it.    *)
LEMMA HardStep == [Next]_vars => [Hard!Next]_Hard!vars
<1> SUFFICES ASSUME [Next]_vars PROVE [Hard!Next]_Hard!vars
  OBVIOUS
<1>1. UNCHANGED hard => UNCHANGED Hard!vars
  BY DEF hard, Hard!vars
<1>2. TriggerHard => Hard!Next \/ UNCHANGED Hard!vars
  BY <1>1 DEF TriggerHard, Hard!Next
<1>3. ASSUME NEW daily \in DailyLosses, NEW weekly \in WeeklyLosses,
             CheckCircuitBreaker(daily, weekly)
      PROVE  [Hard!Next]_Hard!vars
  BY <1>1, <1>2, <1>3 DEF CheckCircuitBreaker
<1>4. CASE CheckTrailingDrawdown
  BY <1>1, <1>2, <1>4 DEF CheckTrailingDrawdown
<1>5. CASE RejectSignal
  BY <1>2, <1>5 DEF RejectSignal
<1>6. CASE PassSignal \/ EndOfDayUpdate \/ UpdateNav
  BY <1>1, <1>6 DEF PassSignal, EndOfDayUpdate, UpdateNav
<1>7. CASE Restart
  BY <1>7 DEF Restart, Hard!Next
<1>8. CASE BreakerStep \/ ResetHard
  BY <1>8 DEF BreakerStep, ResetHard, Hard!Next
<1>9. CASE UNCHANGED vars
  BY <1>1, <1>9 DEF vars
<1>10. QED BY <1>3, <1>4, <1>5, <1>6, <1>7, <1>8, <1>9 DEF Next

(* The engine's behaviour, seen at the breaker, is one of HardBreaker.     *)
THEOREM EngineDrivesHardBreaker == Spec => Hard!Spec
<1>1. Init => Hard!Init
  BY DEF Init
<1>2. QED BY <1>1, HardStep, PTL DEF Spec, Hard!Spec

-----------------------------------------------------------------------------
(* The breaker inside the engine is the one whose theorems are proved in   *)
(* HardBreaker_proofs.                                                     *)
HB == INSTANCE HardBreaker_proofs

(* The two instances are the same, definition by definition.              *)
LEMMA HardIsHB ==
  /\ Hard!TypeOK <=> HB!TypeOK
  /\ Hard!FileIsCurrent <=> HB!FileIsCurrent
  /\ Hard!Init <=> HB!Init
  /\ Hard!Next <=> HB!Next
  /\ Hard!vars = HB!vars
<1>1. Hard!CircuitBreakerState = HB!CircuitBreakerState /\ Hard!Cleared = HB!Cleared
  BY DEF Hard!CircuitBreakerState, HB!CircuitBreakerState, Hard!Ticks, HB!Ticks, Hard!Cleared, HB!Cleared
<1>2. /\ Hard!StateFile = HB!StateFile
      /\ Hard!NoFile = HB!NoFile /\ Hard!TornFile = HB!TornFile
      /\ Hard!LoadState = HB!LoadState
  BY <1>1 DEF Hard!StateFile, HB!StateFile, Hard!NoFile, HB!NoFile, Hard!TornFile, HB!TornFile, Hard!LoadState, HB!LoadState
<1>3. \A s : Hard!CheckRecovery(s) = HB!CheckRecovery(s)
  BY DEF Hard!CheckRecovery, HB!CheckRecovery, Hard!Days, HB!Days, Hard!TicksPerDay, HB!TicksPerDay
<1>4. Hard!TypeOK <=> HB!TypeOK
  BY <1>1, <1>2 DEF Hard!TypeOK, HB!TypeOK, Hard!Saving, HB!Saving, Hard!Ticks, HB!Ticks
<1>5. Hard!Init <=> HB!Init
  BY <1>1, <1>2 DEF Hard!Init, HB!Init
<1>6. Hard!Start <=> HB!Start
  BY <1>1, <1>2, <1>3, Zenon DEF Hard!Start, HB!Start
<1>7. Hard!SaveState <=> HB!SaveState
  BY <1>2 DEF Hard!SaveState, HB!SaveState, Hard!Saving, HB!Saving, Hard!AfterSave, HB!AfterSave
<1>8. /\ Hard!Trigger <=> HB!Trigger
      /\ Hard!ExecuteShutdown <=> HB!ExecuteShutdown
      /\ Hard!Tick <=> HB!Tick
  BY DEF Hard!Trigger, HB!Trigger, Hard!ExecuteShutdown, HB!ExecuteShutdown, Hard!Tick, HB!Tick
<1>9. Hard!Crash <=> HB!Crash
  BY <1>1, <1>2 DEF Hard!Crash, HB!Crash, Hard!Saving, HB!Saving
<1>10. \A force : Hard!Reset(force) <=> HB!Reset(force)
  BY <1>1 DEF Hard!Reset, HB!Reset
<1>11. Hard!Next <=> HB!Next
  BY <1>6, <1>7, <1>8, <1>9, <1>10 DEF Hard!Next, HB!Next
<1>12. Hard!vars = HB!vars
  BY DEF Hard!vars, HB!vars
<1>13. Hard!FileIsCurrent <=> HB!FileIsCurrent
  BY <1>2 DEF Hard!FileIsCurrent, HB!FileIsCurrent
<1>14. QED BY <1>4, <1>5, <1>11, <1>12, <1>13

(* So that every theorem of HB holds of the engine.                        *)
LEMMA HardIsProved == Spec => HB!Spec
<1>1. Init => HB!Init
  BY HardIsHB DEF Init
<1>2. [Next]_vars => [HB!Next]_HB!vars
  BY HardIsHB, HardStep DEF Hard!vars, HB!vars
<1>3. QED BY <1>1, <1>2, PTL DEF Spec, HB!Spec

(* Driven by the engine, which triggers it on losses and restarts it, the  *)
(* breaker still implements the abstract halt, keeps it for its recovery   *)
(* period and tells the truth of its shutdown.                             *)
THEOREM EngineKeepsHalts ==
  Spec => HB!ImplementsTradingHalt /\ HB!ShutdownOncePerHalt
            /\ [](HB!RecoveryNeverShortened /\ HB!FlagsTruthful)
<1>1. HB!Spec => HB!ImplementsTradingHalt /\ HB!ShutdownOncePerHalt
  BY HB!Refinement, HB!ShutdownOnce, EngineAssumption DEF HB!BreakerAssumption
<1>2. HB!Spec => []HB!RecoveryNeverShortened /\ [](HB!FlagsTruthful /\ HB!StepsInv)
  BY HB!RecoverySafe, HB!FlagsSafe, EngineAssumption DEF HB!BreakerAssumption
<1>3. QED BY HardIsProved, <1>1, <1>2, PTL

(* No order passes while the file says halted, after a save that worked.   *)
THEOREM FileHaltsOrders == Spec => NoOrderWhileFileSaysHalted
<1>1. HB!Spec => []HB!FileIsCurrent
  BY HB!FileCurrent, EngineAssumption DEF HB!BreakerAssumption
<1>2. HB!FileIsCurrent => Hard!FileIsCurrent
  BY HardIsHB
<1>3. Hard!FileIsCurrent
      => [PassSignal => badSave \/ ~Hard!LoadState.is_active]_vars
  BY DEF PassSignal, Hard!FileIsCurrent
<1>4. QED BY HardIsProved, <1>1, <1>2, <1>3, PTL DEF NoOrderWhileFileSaysHalted, Spec

-----------------------------------------------------------------------------
(* Types: those of the breaker are proved, and the copies the engine keeps *)
(* are in the range of what they are copied from.                          *)
LEMMA HardTypes == Spec => []Hard!TypeOK
<1>1. HB!Spec => [](HB!TypeOK /\ HB!ClockInv)
  BY HB!TypeCorrect, EngineAssumption DEF HB!BreakerAssumption
<1>2. HB!TypeOK => Hard!TypeOK
  BY HardIsHB
<1>3. QED BY HardIsProved, <1>1, <1>2, PTL

(* The types of what the engine keeps in addition to the breaker.          *)
SoftTypes ==
  /\ circuit_breaker_active \in BOOLEAN
  /\ circuit_breaker_recovery_days \in 0..Larger(3, RecoveryDays)
  /\ current_peak_equity \in Navs
  /\ in_recovery_mode \in BOOLEAN
  /\ nav \in Navs
  /\ orders \in {0, 1}
  /\ loss_today \in BOOLEAN
  /\ breach_peak \in Navs \union {0}
  /\ restarted \in BOOLEAN
  /\ halt_ended \in BOOLEAN

(* Days copied from the breaker and those of the legacy check fit the type.*)
LEMMA DaysTypes ==
  /\ RecoveryDays \in 0..Larger(3, RecoveryDays)
  /\ 0..RecoveryDays \subseteq 0..Larger(3, RecoveryDays)
  /\ Larger(3, RecoveryDays) \in Nat /\ Larger(3, RecoveryDays) >= 3
BY EngineAssumption DEF Larger

(* So they do after a trigger.                                             *)
LEMMA TriggerTypes ==
  Hard!TypeOK /\ TriggerHard =>
    /\ circuit_breaker_active' \in BOOLEAN
    /\ circuit_breaker_recovery_days' \in 0..Larger(3, RecoveryDays)
<1> SUFFICES ASSUME Hard!TypeOK, TriggerHard
             PROVE  /\ circuit_breaker_active' \in BOOLEAN
                    /\ circuit_breaker_recovery_days' \in 0..Larger(3, RecoveryDays)
  OBVIOUS
<1>1. state.recovery_days_remaining \in 0..RecoveryDays
  BY DEF Hard!TypeOK, Hard!CircuitBreakerState
<1>2. QED BY <1>1, DaysTypes DEF TriggerHard

(* What the drawdown check stores is a value of the NAV.                   *)
LEMMA RecordTypes ==
  SoftTypes /\ RecordDrawdown =>
    /\ current_peak_equity' \in Navs /\ in_recovery_mode' \in BOOLEAN
    /\ nav' \in Navs /\ loss_today' \in BOOLEAN
    /\ breach_peak' \in Navs \union {0}
    /\ restarted' \in BOOLEAN /\ halt_ended' \in BOOLEAN
<1> SUFFICES ASSUME SoftTypes, RecordDrawdown
             PROVE  /\ current_peak_equity' \in Navs /\ in_recovery_mode' \in BOOLEAN
                    /\ nav' \in Navs /\ loss_today' \in BOOLEAN
                    /\ breach_peak' \in Navs \union {0}
                    /\ restarted' \in BOOLEAN /\ halt_ended' \in BOOLEAN
  OBVIOUS
<1>1. NewPeak \in Navs
  BY DEF NewPeak, Larger, SoftTypes
<1>2. ShouldStop \in BOOLEAN
  BY DEF ShouldStop
<1>3. in_recovery_mode' \in BOOLEAN
  BY <1>2, Zenon DEF RecordDrawdown
<1>4. current_peak_equity' \in Navs
  BY <1>1 DEF RecordDrawdown
<1>5. breach_peak' \in Navs \union {0}
  BY <1>1 DEF RecordDrawdown, SoftTypes
<1>6. nav' \in Navs /\ loss_today' \in BOOLEAN
  BY DEF RecordDrawdown, SoftTypes
<1>7. restarted' \in BOOLEAN /\ halt_ended' \in BOOLEAN
  <2>1. /\ (restarted /\ ~DrawdownBreached /\ breach_peak' > 0) \in BOOLEAN
        /\ (halt_ended /\ ~DrawdownBreached /\ breach_peak' > 0) \in BOOLEAN
    OBVIOUS
  <2>2. QED BY <2>1, Zenon DEF RecordDrawdown
<1>8. QED BY <1>3, <1>4, <1>5, <1>6, <1>7

(* Every variable of the engine and of its breaker keeps its type.         *)
THEOREM TypeCorrect == Spec => []TypeOK
<1>1. Init => SoftTypes
  <2>1. 0 \in 0..Larger(3, RecoveryDays) /\ Capital \in Navs
    BY DaysTypes, EngineAssumption
  <2>2. QED BY <2>1 DEF Init, SoftTypes
<1>2. SoftTypes /\ Hard!TypeOK /\ [Next]_vars => SoftTypes'
  <2> SUFFICES ASSUME SoftTypes, Hard!TypeOK, [Next]_vars PROVE SoftTypes'
    OBVIOUS
  <2>1. ASSUME NEW daily \in DailyLosses, NEW weekly \in WeeklyLosses,
               CheckCircuitBreaker(daily, weekly)
        PROVE  SoftTypes'
    <3>1. LegacyDays(daily, weekly) \in 0..Larger(3, RecoveryDays)
      BY EngineAssumption DEF LegacyDays, Larger, SoftTypes
    <3>2. loss_today' \in BOOLEAN
      <4>1. (loss_today \/ LegacyLimitReached(daily, weekly)) \in BOOLEAN
        OBVIOUS
      <4>2. QED BY <2>1, <4>1, Zenon DEF CheckCircuitBreaker
    <3>3. /\ circuit_breaker_active' \in BOOLEAN
          /\ circuit_breaker_recovery_days' \in 0..Larger(3, RecoveryDays)
      BY <2>1, <3>1, TriggerTypes DEF CheckCircuitBreaker
    <3>4. QED BY <2>1, <3>2, <3>3 DEF CheckCircuitBreaker, SoftTypes, drawdown, stop
  <2>2. CASE CheckTrailingDrawdown
    BY <2>2, TriggerTypes, RecordTypes DEF CheckTrailingDrawdown, SoftTypes, soft
  <2>3. CASE RejectSignal
    BY <2>3, TriggerTypes, RecordTypes DEF RejectSignal, SoftTypes, drawdown, history, stop
  <2>4. CASE PassSignal
    BY <2>4, RecordTypes DEF PassSignal, SoftTypes, soft
  <2>5. CASE EndOfDayUpdate
    <3>1. circuit_breaker_active' \in BOOLEAN
      <4>1. (circuit_breaker_recovery_days > 1) \in BOOLEAN
        OBVIOUS
      <4>2. QED BY <2>5, <4>1, Zenon DEF EndOfDayUpdate, SoftTypes, soft
    <3>2. circuit_breaker_recovery_days' \in 0..Larger(3, RecoveryDays)
      BY <2>5, DaysTypes DEF EndOfDayUpdate, SoftTypes, soft
    <3>3. QED BY <2>5, <3>1, <3>2 DEF EndOfDayUpdate, SoftTypes, drawdown, stop
  <2>6. CASE UpdateNav \/ BreakerStep \/ UNCHANGED vars
    BY <2>6 DEF UpdateNav, BreakerStep, vars, SoftTypes, soft, drawdown, history, stop
  <2>7. CASE Restart
    <3>1. 0 \in 0..Larger(3, RecoveryDays) /\ Capital \in Navs /\ orders \in {0, 1}
      BY DaysTypes, EngineAssumption DEF SoftTypes
    <3>2. restarted' \in BOOLEAN /\ halt_ended' \in BOOLEAN
      <4>1. /\ (breach_peak > 0) \in BOOLEAN
            /\ (halt_ended \/ (breach_peak > 0 /\ badSave' /\ ~state'.is_active)) \in BOOLEAN
        OBVIOUS
      <4>2. QED BY <2>7, <4>1, Zenon DEF Restart
    <3>3. QED BY <2>7, <3>1, <3>2 DEF Restart, Fresh, SoftTypes
  <2>8. CASE ResetHard
    <3>1. halt_ended' \in BOOLEAN
      <4>1. (breach_peak > 0) \in BOOLEAN
        OBVIOUS
      <4>2. QED BY <2>8, <4>1, Zenon DEF ResetHard
    <3>2. QED BY <2>8, <3>1 DEF ResetHard, SoftTypes, soft, drawdown
  <2>9. QED BY <2>1, <2>2, <2>3, <2>4, <2>5, <2>6, <2>7, <2>8 DEF Next
<1>3. SoftTypes /\ Hard!TypeOK => TypeOK
  BY DEF SoftTypes, TypeOK
<1>4. QED BY HardTypes, <1>1, <1>2, <1>3, PTL DEF Spec

-----------------------------------------------------------------------------
(* A loss at a limit sets the soft breaker, and only what also forgets the *)
(* loss - an end of day, a restart - clears it.                            *)
LossInv ==
  /\ circuit_breaker_active \in BOOLEAN
  /\ loss_today => circuit_breaker_active

THEOREM LossStops == Spec => LossStopsTheDay
<1>1. Init => LossInv
  BY DEF Init, LossInv
<1>2. LossInv /\ [Next]_vars => LossInv'
  <2> SUFFICES ASSUME LossInv, [Next]_vars PROVE LossInv'
    OBVIOUS
  <2> USE DEF LossInv
  <2>1. TriggerHard => circuit_breaker_active' = TRUE
    BY DEF TriggerHard
  <2>2. ASSUME NEW daily \in DailyLosses, NEW weekly \in WeeklyLosses,
               CheckCircuitBreaker(daily, weekly)
        PROVE  LossInv'
    BY <2>1, <2>2 DEF CheckCircuitBreaker
  <2>3. CASE CheckTrailingDrawdown
    <3>1. loss_today' = loss_today
      BY <2>3 DEF CheckTrailingDrawdown, RecordDrawdown
    <3>2. circuit_breaker_active' \in {TRUE, circuit_breaker_active}
      BY <2>1, <2>3 DEF CheckTrailingDrawdown, soft
    <3>3. QED BY <3>1, <3>2
  <2>4. CASE RejectSignal
    BY <2>1, <2>4 DEF RejectSignal, RecordDrawdown, history
  <2>5. CASE PassSignal
    BY <2>5 DEF PassSignal, RecordDrawdown, soft
  <2>6. CASE EndOfDayUpdate
    <3>1. loss_today' = FALSE
      BY <2>6 DEF EndOfDayUpdate
    <3>2. circuit_breaker_active' \in BOOLEAN
      <4>1. (circuit_breaker_recovery_days > 1) \in BOOLEAN
        OBVIOUS
      <4>2. QED BY <2>6, <4>1, Zenon DEF EndOfDayUpdate, soft
    <3>3. QED BY <3>1, <3>2
  <2>7. CASE UpdateNav \/ BreakerStep \/ ResetHard \/ UNCHANGED vars
    BY <2>7 DEF UpdateNav, BreakerStep, ResetHard, vars, soft, history
  <2>8. CASE Restart
    BY <2>8 DEF Restart, Fresh
  <2>9. QED BY <2>2, <2>3, <2>4, <2>5, <2>6, <2>7, <2>8 DEF Next
<1>3. LossInv => [PassSignal => ~loss_today]_vars
  BY DEF LossInv, PassSignal
<1>4. QED BY <1>1, <1>2, <1>3, PTL DEF Spec, LossStopsTheDay

-----------------------------------------------------------------------------
(* A drawdown stop is kept twice: by the engine in memory, as long as the  *)
(* process lives, and by the hard breaker it triggered, until that halt is *)
(* reset or lost.                                                          *)
MemoryHolds ==
  breach_peak > 0 /\ ~restarted =>
    in_recovery_mode /\ current_peak_equity = breach_peak

BreakerHolds ==
  breach_peak > 0 /\ ~halt_ended =>
    \/ pc # "down" /\ state.is_active
    \/ pc = "down" /\ (badSave \/ Hard!LoadState.is_active)

DrawdownInv ==
  /\ nav \in Nat
  /\ current_peak_equity \in Nat
  /\ breach_peak \in Nat
  /\ in_recovery_mode \in BOOLEAN
  /\ MemoryHolds

LEMMA RecordKeepsMemory == DrawdownInv /\ RecordDrawdown => DrawdownInv'
<1> SUFFICES ASSUME DrawdownInv, RecordDrawdown PROVE DrawdownInv'
  OBVIOUS
<1> USE DEF DrawdownInv, MemoryHolds
<1>1. /\ NewPeak \in Nat
      /\ nav > current_peak_equity => NewPeak = nav
      /\ ~(nav > current_peak_equity) => NewPeak = current_peak_equity
  BY DEF NewPeak, Larger
<1>2. nav' = nav /\ current_peak_equity' = NewPeak
      /\ in_recovery_mode' = ShouldStop
  BY DEF RecordDrawdown
<1>3. ShouldStop \in BOOLEAN
  BY DEF ShouldStop
<1>4. CASE DrawdownBreached
  <2>1. breach_peak' = NewPeak
    BY <1>4 DEF RecordDrawdown
  <2>2. ShouldStop
    BY <1>4 DEF ShouldStop
  <2>3. QED BY <1>1, <1>2, <2>1, <2>2
<1>5. CASE ~DrawdownBreached /\ nav > breach_peak
  <2>1. breach_peak' = 0
    BY <1>5 DEF RecordDrawdown
  <2>2. QED BY <1>1, <1>2, <1>3, <2>1
<1>6. CASE ~DrawdownBreached /\ ~(nav > breach_peak)
  <2>1. /\ breach_peak' = breach_peak
        /\ breach_peak > 0 /\ ~restarted' => ~restarted
    BY <1>6 DEF RecordDrawdown
  <2>2. ASSUME breach_peak > 0, ~restarted
        PROVE  ~(nav > current_peak_equity) /\ ShouldStop
    BY <1>6, <2>2 DEF ShouldStop
  <2>3. QED BY <1>1, <1>2, <1>3, <2>1, <2>2
<1>7. QED BY <1>4, <1>5, <1>6

LEMMA MemoryStep ==
  /\ Init => DrawdownInv
  /\ DrawdownInv /\ [Next]_vars => DrawdownInv'
<1>0. Capital \in Nat /\ 0 \in Nat /\ ~(0 > 0)
  BY EngineAssumption
<1>1. Init => DrawdownInv
  BY <1>0 DEF Init, DrawdownInv, MemoryHolds
<1>2. ASSUME DrawdownInv, [Next]_vars PROVE DrawdownInv'
  <2>1. UNCHANGED <<drawdown, nav, breach_peak, restarted>> => DrawdownInv'
    BY <1>2 DEF DrawdownInv, MemoryHolds, drawdown
  <2>2. ASSUME NEW daily \in DailyLosses, NEW weekly \in WeeklyLosses,
               CheckCircuitBreaker(daily, weekly)
        PROVE  DrawdownInv'
    BY <2>1, <2>2 DEF CheckCircuitBreaker, stop
  <2>3. CASE CheckTrailingDrawdown \/ PassSignal
    BY <1>2, <2>3, RecordKeepsMemory DEF CheckTrailingDrawdown, PassSignal
  <2>4. CASE RejectSignal
    BY <1>2, <2>1, <2>4, RecordKeepsMemory DEF RejectSignal, history, stop
  <2>5. CASE EndOfDayUpdate \/ BreakerStep \/ ResetHard \/ UNCHANGED vars
    BY <2>1, <2>5 DEF EndOfDayUpdate, BreakerStep, ResetHard, vars, history, stop
  <2>6. CASE UpdateNav
    BY <1>2, <2>6, EngineAssumption
       DEF UpdateNav, DrawdownInv, MemoryHolds, drawdown, history, stop
  <2>7. CASE Restart
    BY <1>0, <1>2, <2>7 DEF Restart, Fresh, DrawdownInv, MemoryHolds
  <2>8. QED BY <1>2, <2>2, <2>3, <2>4, <2>5, <2>6, <2>7 DEF Next
<1>3. QED BY <1>1, <1>2

(* A stop triggers the hard breaker, and what ends that halt is recorded.  *)
LEMMA RecordKeepsHalt ==
  /\ TypeOK /\ BreakerHolds /\ pc = "idle" /\ RecordDrawdown /\ TriggerHard
     => BreakerHolds'
  /\ TypeOK /\ BreakerHolds /\ RecordDrawdown /\ ~ShouldStop /\ UNCHANGED hard
     => BreakerHolds'
<1>1. ASSUME TypeOK, BreakerHolds, pc = "idle", TriggerHard PROVE BreakerHolds'
  <2>1. pc' # "down" /\ state'.is_active
    <3>1. CASE Hard!Trigger
      BY <1>1, <3>1 DEF Hard!Trigger, TypeOK, Hard!TypeOK, Hard!CircuitBreakerState
    <3>2. CASE state.is_active /\ UNCHANGED hard
      BY <1>1, <3>2 DEF hard
    <3>3. QED BY <1>1, <3>1, <3>2 DEF TriggerHard
  <2>2. QED BY <2>1 DEF BreakerHolds
<1>2. ASSUME TypeOK, BreakerHolds, RecordDrawdown, ~ShouldStop, UNCHANGED hard
      PROVE  BreakerHolds'
  <2>1. ~DrawdownBreached
    BY <1>2 DEF ShouldStop
  <2>2. /\ breach_peak' \in {0, breach_peak}
        /\ breach_peak' > 0 /\ ~halt_ended' => ~halt_ended
    BY <1>2, <2>1 DEF RecordDrawdown
  <2>3. QED BY <1>2, <2>2 DEF BreakerHolds, hard, Hard!LoadState
<1>3. QED BY <1>1, <1>2

(* What is loaded is a state, and recounting its days keeps the halt.      *)
LEMMA LoadedActive ==
  TypeOK => Hard!CheckRecovery(Hard!LoadState).is_active = Hard!LoadState.is_active
<1> SUFFICES ASSUME TypeOK
             PROVE  Hard!CheckRecovery(Hard!LoadState).is_active = Hard!LoadState.is_active
  OBVIOUS
<1>1. Hard!LoadState \in Hard!CircuitBreakerState
  BY EngineAssumption
     DEF TypeOK, Hard!TypeOK, Hard!LoadState, Hard!StateFile, Hard!Cleared,
         Hard!CircuitBreakerState, Hard!Ticks
<1>2. QED BY <1>1 DEF Hard!CheckRecovery, Hard!CircuitBreakerState

LEMMA HaltStep ==
  /\ Init => BreakerHolds
  /\ TypeOK /\ Hard!FileIsCurrent /\ BreakerHolds /\ [Next]_vars => BreakerHolds'
<1>1. Init => BreakerHolds
  BY DEF Init, BreakerHolds
<1>2. ASSUME TypeOK, Hard!FileIsCurrent, BreakerHolds, [Next]_vars
      PROVE  BreakerHolds'
  <2>1. UNCHANGED <<hard, breach_peak, halt_ended>> => BreakerHolds'
    BY <1>2 DEF BreakerHolds, hard, Hard!LoadState
  <2>2. ASSUME pc = "idle", TriggerHard, UNCHANGED stop PROVE BreakerHolds'
    <3>1. pc' # "down" /\ state'.is_active
      <4>1. CASE Hard!Trigger
        BY <1>2, <4>1 DEF Hard!Trigger, TypeOK, Hard!TypeOK, Hard!CircuitBreakerState
      <4>2. CASE state.is_active /\ UNCHANGED hard
        BY <2>2, <4>2 DEF hard
      <4>3. QED BY <2>2, <4>1, <4>2 DEF TriggerHard
    <3>2. QED BY <3>1 DEF BreakerHolds
  <2>3. ASSUME NEW daily \in DailyLosses, NEW weekly \in WeeklyLosses,
               CheckCircuitBreaker(daily, weekly)
        PROVE  BreakerHolds'
    BY <2>1, <2>2, <2>3 DEF CheckCircuitBreaker, stop
  <2>4. CASE CheckTrailingDrawdown \/ PassSignal
    BY <1>2, <2>4, RecordKeepsHalt DEF CheckTrailingDrawdown, PassSignal
  <2>5. CASE RejectSignal
    BY <1>2, <2>2, <2>5, RecordKeepsHalt DEF RejectSignal, history
  <2>6. CASE EndOfDayUpdate \/ UpdateNav \/ UNCHANGED vars
    BY <2>1, <2>6 DEF EndOfDayUpdate, UpdateNav, vars, history, stop
  <2>7. CASE Restart
    <3>1. breach_peak' = breach_peak /\ pc = "down" /\ pc' # "down"
      BY <2>7 DEF Restart, Hard!Start
    <3>2. ASSUME breach_peak > 0, ~halt_ended' PROVE state'.is_active
      <4>1. ~halt_ended /\ (~badSave' \/ state'.is_active)
        BY <2>7, <3>2 DEF Restart
      <4>2. CASE ~badSave'
        <5>1. ~badSave
          BY <2>7, <4>2 DEF Restart, Hard!Start
        <5>2. Hard!LoadState.is_active
          BY <1>2, <3>1, <3>2, <4>1, <5>1 DEF BreakerHolds
        <5>3. state' = Hard!CheckRecovery(Hard!LoadState)
          BY <2>7, <4>2, <5>2 DEF Restart, Hard!Start
        <5>4. QED BY <1>2, <5>2, <5>3, LoadedActive
      <4>3. QED BY <4>1, <4>2
    <3>3. QED BY <3>1, <3>2 DEF BreakerHolds
  <2>8. CASE ResetHard
    BY <2>8 DEF ResetHard, BreakerHolds
  <2>9. CASE BreakerStep
    <3>1. UNCHANGED <<breach_peak, halt_ended>>
      BY <2>9 DEF BreakerStep, history, stop
    <3>2. CASE Hard!SaveState \/ Hard!ExecuteShutdown
      <4>1. pc # "down" /\ pc' # "down" /\ state'.is_active = state.is_active
        BY <1>2, <3>2
           DEF Hard!SaveState, Hard!ExecuteShutdown, Hard!Saving, Hard!AfterSave,
               TypeOK, Hard!TypeOK, Hard!CircuitBreakerState
      <4>2. QED BY <1>2, <3>1, <4>1 DEF BreakerHolds
    <3>3. CASE Hard!Crash
      <4>1. pc # "down" /\ pc' = "down"
        BY <3>3 DEF Hard!Crash
      <4>2. CASE badSave'
        BY <4>1, <4>2 DEF BreakerHolds
      <4>3. CASE ~badSave'
        <5>1. Hard!LoadState' = state
          BY <1>2, <3>3, <4>3
             DEF Hard!Crash, Hard!FileIsCurrent, Hard!LoadState, Hard!Saving,
                 TypeOK, Hard!TypeOK
        <5>2. QED BY <1>2, <3>1, <4>1, <5>1 DEF BreakerHolds
      <4>4. QED BY <4>2, <4>3
    <3>4. CASE Hard!Tick
      BY <1>2, <3>1, <3>4 DEF Hard!Tick, BreakerHolds, Hard!LoadState
    <3>5. QED BY <2>9, <3>2, <3>3, <3>4 DEF BreakerStep
  <2>10. QED BY <1>2, <2>3, <2>4, <2>5, <2>6, <2>7, <2>8, <2>9 DEF Next
<1>3. QED BY <1>1, <1>2

(* So an order below the peak needs both a restart and the end of the halt.*)
THEOREM DrawdownStops == Spec => StoppedUntilNewPeak
<1>1. HB!Spec => []HB!FileIsCurrent
  BY HB!FileCurrent, EngineAssumption DEF HB!BreakerAssumption
<1>2. HB!FileIsCurrent => Hard!FileIsCurrent
  BY HardIsHB
<1>3. DrawdownInv /\ BreakerHolds
      => [PassSignal => \/ breach_peak = 0
                        \/ nav > breach_peak
                        \/ restarted /\ halt_ended]_vars
  BY DEF DrawdownInv, MemoryHolds, BreakerHolds, PassSignal, ShouldStop
<1>4. QED BY HardIsProved, TypeCorrect, MemoryStep, HaltStep, <1>1, <1>2, <1>3, PTL
         DEF Spec, StoppedUntilNewPeak
=============================================================================
