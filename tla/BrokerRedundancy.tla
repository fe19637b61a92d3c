-------------------------- MODULE BrokerRedundancy --------------------------
(***************************************************************************)
(* BrokerRedundancyManager and its adapters                                *)
(* (production/market_data/providers/broker_redundancy.py): an order goes  *)
(* to the first healthy broker in priority order, and on to the next one   *)
(* when that one's answer is a failure.                                    *)
(*                                                                         *)
(* A broker is its place in sorted_brokers.  One with a client (Live) may  *)
(* be down, and a call to it may raise after the order was taken: the      *)
(* adapter turns every exception into a failed OrderResponse.  One without *)
(* a client is a mock: it answers success, and holds nothing.  The manager *)
(* has one caller at a time; brokers fail and recover while it runs.       *)
(***************************************************************************)
EXTENDS Integers, FiniteSets

CONSTANTS NumBrokers,  \* the enabled brokers
          Live,        \* those whose adapter has a client
          MockOnline,  \* those whose mock reports ONLINE (Upstox; not Zerodha)
          Orders,      \* order requests, each placed by one call
          MaxRetries   \* max_retries

Brokers == 1..NumBrokers

ASSUME BrokersAssumption ==
  /\ NumBrokers \in Nat
  /\ Live \subseteq Brokers
  /\ MaxRetries \in Nat

VARIABLES health_status,  \* by broker; UNKNOWN: no entry
          order, attempt, at,  \* the call under way: its order, round, broker
          answer,   \* by order: the broker that succeeded, or 0 for a failure
          up,       \* the live brokers whose service answers
          held,     \* by order: the brokers that took it and may execute it
          tried     \* history, by order: how often each broker was asked

call == <<order, attempt, at>>
vars == <<health_status, call, answer, up, held, tried>>

Unanswered == -1
Idle == order = Unanswered

ASSUME OrdersAssumption == Unanswered \notin Orders

TypeOK ==
  /\ health_status \in [Brokers -> {"UNKNOWN", "ONLINE", "OFFLINE", "DEGRADED"}]
  /\ order \in Orders \union {Unanswered}
  /\ attempt \in 1..(MaxRetries + 1)
  /\ at \in 1..(NumBrokers + 1)
  /\ answer \in [Orders -> {Unanswered, 0} \union Brokers]
  /\ up \subseteq Live
  /\ held \in [Orders -> SUBSET Live]
  /\ tried \in [Orders -> [Brokers -> Nat]]

Init ==
  /\ health_status = [b \in Brokers |-> "UNKNOWN"]
  /\ order = Unanswered /\ attempt = 1 /\ at = 1
  /\ answer = [o \in Orders |-> Unanswered]
  /\ up = Live
  /\ held = [o \in Orders |-> {}]
  /\ tried = [o \in Orders |-> [b \in Brokers |-> 0]]

-----------------------------------------------------------------------------
(* place_order_with_redundancy: a step for each broker of each round.      *)
PlaceOrder(o) ==
  /\ Idle
  /\ answer[o] = Unanswered
  /\ order' = o /\ attempt' = 1 /\ at' = 1
  /\ UNCHANGED <<health_status, answer, up, held, tried>>

At(b) == ~Idle /\ at = b
Healthy(b) == health_status[b] \in {"UNKNOWN", "ONLINE"}
Ask(b) == At(b) /\ Healthy(b) /\ tried' = [tried EXCEPT ![order][b] = @ + 1]
Return(response) ==
  /\ answer' = [answer EXCEPT ![order] = response]
  /\ order' = Unanswered /\ attempt' = 1 /\ at' = 1

Skip(b) ==
  /\ At(b)
  /\ ~Healthy(b)
  /\ at' = b + 1
  /\ UNCHANGED <<health_status, order, attempt, answer, up, held, tried>>

Accept(b) ==
  /\ b \in Live => b \in up
  /\ Ask(b)
  /\ held' = [held EXCEPT ![order] = @ \union ({b} \intersect Live)]
  /\ Return(b)
  /\ UNCHANGED <<health_status, up>>

(* Mutant of Fail: the broker is not marked, so the next round asks again. *)
FailUnmarked(b, taken) ==
  /\ b \in Live
  /\ taken => b \in up
  /\ Ask(b)
  /\ held' = [held EXCEPT ![order] = IF taken THEN @ \union {b} ELSE @]
  /\ at' = b + 1
  /\ UNCHANGED <<health_status, order, attempt, answer, up>>

(* place_order of the client raises; the broker may have taken the order.  *)
Fail(b, taken) ==
  /\ b \in Live
  /\ taken => b \in up
  /\ Ask(b)
  /\ held' = [held EXCEPT ![order] = IF taken THEN @ \union {b} ELSE @]
  /\ health_status' = [health_status EXCEPT ![b] = "DEGRADED"]
  /\ at' = b + 1
  /\ UNCHANGED <<order, attempt, answer, up>>

(* Mutant of the loop: it does not stop after max_retries.                 *)
NextRoundAgain ==
  /\ At(NumBrokers + 1)
  /\ attempt <= MaxRetries + 1
  /\ attempt' = attempt + 1 /\ at' = 1
  /\ UNCHANGED <<health_status, order, answer, up, held, tried>>

NextRound ==
  /\ At(NumBrokers + 1)
  /\ attempt <= MaxRetries
  /\ attempt' = attempt + 1 /\ at' = 1
  /\ UNCHANGED <<health_status, order, answer, up, held, tried>>

AllFailed ==
  /\ At(NumBrokers + 1)
  /\ attempt = MaxRetries + 1
  /\ Return(0)
  /\ UNCHANGED <<health_status, up, held, tried>>

(* run_health_checks; an adapter's health_check catches every exception.   *)
RunHealthChecks ==
  /\ Idle
  /\ health_status' = [b \in Brokers |->
       IF b \in Live THEN IF b \in up THEN "ONLINE" ELSE "OFFLINE"
       ELSE IF b \in MockOnline THEN "ONLINE" ELSE "DEGRADED"]
  /\ UNCHANGED <<call, answer, up, held, tried>>

(* cancel_order at the broker that answered: True, or False (the client    *)
(* raised), and then the broker may have cancelled it or not.              *)
CancelOrder(o) ==
  /\ Idle
  /\ answer[o] \in held[o]
  /\ answer[o] \in up
  /\ held' = [held EXCEPT ![o] = @ \ {answer[o]}]
  /\ UNCHANGED <<health_status, call, answer, up, tried>>

ServiceChanges(b) ==
  /\ b \in Live
  /\ up' = IF b \in up THEN up \ {b} ELSE up \union {b}
  /\ UNCHANGED <<health_status, call, answer, held, tried>>

Next ==
  \/ \E o \in Orders : PlaceOrder(o) \/ CancelOrder(o)
  \/ \E b \in Brokers : Skip(b) \/ Accept(b) \/ ServiceChanges(b)
  \/ \E b \in Brokers, taken \in BOOLEAN : Fail(b, taken)
  \/ NextRound \/ AllFailed
  \/ RunHealthChecks

Spec == Init /\ [][Next]_vars

-----------------------------------------------------------------------------
(* However many rounds are allowed, a call sends an order to each broker   *)
(* at most once: a broker that may hold it is not asked for it again.      *)
TriedOnce == \A o \in Orders, b \in Brokers : tried[o][b] <= 1

(* When a call answers, every broker it passed over - all of them when it  *)
(* failed - is marked as not healthy, and every other broker that holds    *)
(* the order as degraded: no copy that the health status does not point to.*)
PassedOverAreMarked ==
  [][\A o \in Orders : answer'[o] # answer[o] =>
       /\ \A b \in Brokers : answer'[o] = 0 \/ b < answer'[o] => ~Healthy(b)'
       /\ \A b \in held'[o] \ {answer'[o]} : health_status'[b] = "DEGRADED"]_vars
=============================================================================
