---------------------------- MODULE TradingHalt ----------------------------
(***************************************************************************)
(* What the hard circuit breaker promises, without its file, its process   *)
(* or its program steps: trading is halted or it is not, a halt lasts its  *)
(* whole recovery period, and only a storage fault or an authorised manual *)
(* override ends one early.  HardBreaker implements this specification.    *)
(***************************************************************************)
EXTENDS Integers

CONSTANTS RecoveryTicks,  \* length of a halt, in clock ticks
          AllowOverride,  \* may an operator end a halt early?
          MaxTick         \* bound on the clock

VARIABLES halted,  \* is trading halted?
          since,   \* when the halt began (0 when there is none)
          now,     \* the clock
          fault    \* the stored copy of the halt is not up to date

vars == <<halted, since, now, fault>>

Init ==
  /\ halted = FALSE
  /\ since = 0
  /\ now = 0
  /\ fault = FALSE

Halt ==
  /\ ~halted
  /\ halted' = TRUE
  /\ since' = now
  /\ UNCHANGED <<now, fault>>

Resume ==
  /\ halted
  /\ AllowOverride \/ now - since >= RecoveryTicks
  /\ halted' = FALSE
  /\ since' = 0
  /\ UNCHANGED <<now, fault>>

(* A save succeeds or fails: the stored copy becomes current or stale.     *)
Persist ==
  /\ fault' \in BOOLEAN
  /\ UNCHANGED <<halted, since, now>>

(* A process that restarts from a stale copy may have lost a halt, or find *)
(* one that had been lifted.                                               *)
RestartFromStaleCopy ==
  /\ fault' = TRUE
  /\ halted' \in BOOLEAN
  /\ since' \in 0..now
  /\ UNCHANGED now

Tick ==
  /\ now < MaxTick
  /\ now' = now + 1
  /\ UNCHANGED <<halted, since, fault>>

Next == Halt \/ Resume \/ Persist \/ RestartFromStaleCopy \/ Tick

Spec == Init /\ [][Next]_vars
=============================================================================
