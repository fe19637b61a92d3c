----------------------- MODULE BrokerRedundancy_proofs -----------------------
(***************************************************************************)
(* Proofs about BrokerRedundancy, for any number of brokers, orders and    *)
(* rounds.                                                                 *)
(***************************************************************************)
EXTENDS BrokerRedundancy, TLAPS

(* No order has been sent anywhere before its call, and what was sent in   *)
(* a call is marked until the call answers: the status only changes for    *)
(* the worse while a call is under way.                                    *)
Untried(o) == held[o] = {} /\ \A b \in Brokers : tried[o][b] = 0
Marked(o) ==
  /\ \A b \in Brokers : tried[o][b] <= 1
  /\ \A b \in Brokers : tried[o][b] = 1 => ~Healthy(b)
  /\ \A b \in held[o] : tried[o][b] = 1 /\ health_status[b] = "DEGRADED"
  /\ \A b \in Brokers : b < at => ~Healthy(b)

CallInv ==
  /\ TypeOK
  /\ TriedOnce
  /\ \A o \in Orders : answer[o] = Unanswered /\ o # order => Untried(o)
  /\ ~Idle => answer[order] = Unanswered /\ Marked(order)

LEMMA InitInv == Init => CallInv
BY BrokersAssumption, OrdersAssumption
   DEF Init, CallInv, TypeOK, TriedOnce, Untried, Brokers, Unanswered, Idle

LEMMA StepInv == CallInv /\ [Next]_vars => CallInv'
<1> SUFFICES ASSUME CallInv, [Next]_vars PROVE CallInv'
  OBVIOUS
<1> USE BrokersAssumption, OrdersAssumption DEF CallInv, TypeOK, Brokers, Idle, Unanswered
<1>1. ASSUME NEW o \in Orders, PlaceOrder(o) PROVE CallInv'
  BY <1>1 DEF PlaceOrder, TriedOnce, Untried, Marked, Healthy
<1>2. ASSUME NEW o \in Orders, CancelOrder(o) PROVE CallInv'
  BY <1>2 DEF CancelOrder, call, TriedOnce, Untried, Marked, Healthy
<1>3. ASSUME NEW b \in Brokers, Skip(b) PROVE CallInv'
  BY <1>3 DEF Skip, At, TriedOnce, Untried, Marked, Healthy
<1>4. ASSUME NEW b \in Brokers, Accept(b) PROVE CallInv'
  BY <1>4 DEF Accept, Ask, At, Return, TriedOnce, Untried, Marked, Healthy
<1>5. ASSUME NEW b \in Brokers, NEW taken \in BOOLEAN, Fail(b, taken) PROVE CallInv'
  BY <1>5 DEF Fail, Ask, At, TriedOnce, Untried, Marked, Healthy
<1>6. CASE NextRound
  BY <1>6 DEF NextRound, At, TriedOnce, Untried, Marked, Healthy
<1>7. CASE AllFailed
  BY <1>7 DEF AllFailed, At, Return, TriedOnce, Untried, Marked, Healthy
<1>8. CASE RunHealthChecks
  BY <1>8 DEF RunHealthChecks, call, TriedOnce, Untried, Marked, Healthy
<1>9. ASSUME NEW b \in Brokers, ServiceChanges(b) PROVE CallInv'
  BY <1>9 DEF ServiceChanges, call, TriedOnce, Untried, Marked, Healthy
<1>10. CASE UNCHANGED vars
  BY <1>10 DEF vars, call, TriedOnce, Untried, Marked, Healthy
<1> QED BY <1>1, <1>2, <1>3, <1>4, <1>5, <1>6, <1>7, <1>8, <1>9, <1>10 DEF Next

(* Types, and no broker asked twice in a call: the rounds after the first  *)
(* ask nobody, as no health check comes in between.                        *)
THEOREM TypeCorrect == Spec => []TypeOK
<1>1. CallInv => TypeOK BY DEF CallInv
<1> QED BY <1>1, InitInv, StepInv, PTL DEF Spec

THEOREM AskedOnce == Spec => []TriedOnce
<1>1. CallInv => TriedOnce BY DEF CallInv
<1> QED BY <1>1, InitInv, StepInv, PTL DEF Spec

(* Brokers passed over, and copies an answer does not name, are marked.    *)
THEOREM FailoverMarks == Spec => PassedOverAreMarked
<1> DEFINE Mark(o) == answer'[o] # answer[o] =>
       /\ \A b \in Brokers : answer'[o] = 0 \/ b < answer'[o] => ~Healthy(b)'
       /\ \A b \in held'[o] \ {answer'[o]} : health_status'[b] = "DEGRADED"
<1>1. ASSUME CallInv, [Next]_vars, NEW o \in Orders PROVE Mark(o)
  <2> USE <1>1, BrokersAssumption, OrdersAssumption
      DEF CallInv, TypeOK, Brokers, Idle, Unanswered
  <2>1. ASSUME NEW b \in Brokers, Accept(b) PROVE Mark(o)
    BY <2>1 DEF Accept, Ask, At, Return, Marked, Healthy
  <2>2. CASE AllFailed
    BY <2>2 DEF AllFailed, At, Return, Marked, Healthy
  <2>3. CASE UNCHANGED answer
    BY <2>3
  <2> QED
    BY <2>1, <2>2, <2>3 DEF Next, vars, PlaceOrder, CancelOrder, Skip, Fail, NextRound,
       RunHealthChecks, ServiceChanges
<1>2. CallInv /\ [Next]_vars => [\A o \in Orders : Mark(o)]_vars
  BY <1>1
<1> QED BY <1>2, InitInv, StepInv, PTL DEF Spec, PassedOverAreMarked
=============================================================================
