------------------------------ MODULE OrderFlow ------------------------------
(***************************************************************************)
(* An order's way through ExecutionEngine (production/src/execution/       *)
(* engine.py): OrderManager (order_manager/order_manager.py) keeps its     *)
(* status, SmartOrderRouter (smart_order_router/smart_order_router.py)     *)
(* picks a broker, and its adapter (brokers/zerodha_adapter.py,            *)
(* adapters/paper.py) places it.                                           *)
(*                                                                         *)
(* One thread calls these.  Brokers are numbered in the order of the       *)
(* router's list, to which a broker is added once.  A quantity is a float; *)
(* a broker is asked for its whole shares (int), and fills whole shares,   *)
(* at any later time.  A fill may be reported twice, or for more than was  *)
(* executed.  Orders are of as many whole shares each, some of a part of a *)
(* share more.  A fill reported of an identifier that no order has raises  *)
(* and changes no order.  Every quote has a bid and an ask, so that a      *)
(* broker's score is that of its class's metrics.                          *)
(***************************************************************************)
EXTENDS Integers, FiniteSets

CONSTANTS Orders,      \* order ids (uuid4)
          Quantity,    \* the whole shares of an order
          Odd,         \* the orders of a part of a share more
          MaxTold,     \* bound on the shares reported filled of an order
          NumBrokers,
          Paper,       \* the PaperAdapters among them; the others are Zerodha's
          MaxScore,    \* scores are 0..MaxScore
          DefaultScore,\* the score of fresh metrics
          MaxSubmits   \* bound on the submissions, of all orders

Brokers == 1..NumBrokers

ASSUME FlowAssumption ==
  /\ Quantity \in Nat \ {0}
  /\ Odd \subseteq Orders
  /\ MaxTold \in Nat
  /\ NumBrokers \in Nat
  /\ Paper \subseteq Brokers
  /\ MaxScore \in Nat /\ DefaultScore \in 0..MaxScore
  /\ MaxSubmits \in Nat

VARIABLES status,   \* order_status, "none" for an order not created
          fills,    \* the sum of an order's fills, in shares
          brokers,  \* the router's list
          metrics,  \* broker_metrics, as the score they give; by class
          connected, kite,  \* is_connected; a Zerodha adapter with a client
          added,    \* history: the brokers ever in the list are 1..added
          unfilled, \* by order: what brokers took and have not reported filled
          submits,  \* counts the submissions, for the bound
          astray    \* history: orders that were sent again, cancelled while a broker
                    \* may have them, or reported filled beyond what was executed

links == <<brokers, metrics, connected, kite, added>>
vars == <<status, fills, links, unfilled, submits, astray>>

Statuses == {"none", "PENDING", "PLACED", "PARTIALLY_FILLED", "FILLED", "CANCELLED", "REJECTED"}
Classes == {"ZerodhaAdapter", "PaperAdapter"}
Class(b) == IF b \in Paper THEN "PaperAdapter" ELSE "ZerodhaAdapter"
Sent == {"PLACED", "PARTIALLY_FILLED"}

(* The least number of whole shares that is not below the order's quantity.*)
Needed(o) == IF o \in Odd THEN Quantity + 1 ELSE Quantity

TypeOK ==
  /\ status \in [Orders -> Statuses]
  /\ fills \in [Orders -> 0..MaxTold]
  /\ brokers \subseteq 1..added
  /\ metrics \in [Classes -> 0..MaxScore]
  /\ connected \subseteq Brokers
  /\ kite \subseteq connected \ Paper
  /\ added \in 0..NumBrokers
  /\ unfilled \in [Orders -> Nat]
  /\ submits \in 0..MaxSubmits
  /\ astray \subseteq Orders

Init ==
  /\ status = [o \in Orders |-> "none"]
  /\ fills = [o \in Orders |-> 0]
  /\ brokers = {} /\ added = 0
  /\ metrics = [c \in Classes |-> DefaultScore]
  /\ connected = {} /\ kite = {}
  /\ unfilled = [o \in Orders |-> 0]
  /\ submits = 0
  /\ astray = {}

-----------------------------------------------------------------------------
CreateOrder(o) ==
  /\ status[o] = "none"
  /\ status' = [status EXCEPT ![o] = "PENDING"]
  /\ UNCHANGED <<fills, links, unfilled, submits, astray>>

(* get_quote raises unless connected; the paper adapter's never does.      *)
Quoting == {b \in brokers : b \in connected \/ b \in Paper}

(* Mutant of route: brokers without a quote are scored like the others.    *)
BestOfAll(b) ==
  /\ b \in brokers
  /\ \A d \in brokers : \/ metrics[Class(d)] < metrics[Class(b)]
                        \/ metrics[Class(d)] = metrics[Class(b)] /\ b <= d

(* route: the best score, the first of the list among equals; without any  *)
(* quote the first of the list.                                            *)
Best(b) ==
  IF Quoting = {} THEN b \in brokers /\ \A d \in brokers : b <= d
  ELSE /\ b \in Quoting
       /\ \A d \in Quoting : \/ metrics[Class(d)] < metrics[Class(b)]
                             \/ metrics[Class(d)] = metrics[Class(b)] /\ b <= d

(* submit_order looks at no status.                                        *)
Submit(o) ==
  /\ status[o] # "none"
  /\ submits < MaxSubmits
  /\ submits' = submits + 1
  /\ astray' = IF status[o] \in {"PENDING", "REJECTED"} THEN astray ELSE astray \union {o}
  /\ UNCHANGED <<fills, links>>

(* place_order of a connected broker.  One with a client may take the      *)
(* order's whole shares, or fail to, or raise after it took them: an       *)
(* exception makes the adapter return a mock identifier, and the order is  *)
(* PLACED all the same.                                                    *)
SubmitPlaced(o) ==
  /\ Submit(o)
  /\ \E b \in connected : Best(b) /\ unfilled' \in
       {unfilled} \union IF b \in kite THEN {[unfilled EXCEPT ![o] = @ + Quantity]} ELSE {}
  /\ status' = [status EXCEPT ![o] = "PLACED"]

(* There is no broker, or the one chosen is not connected.                 *)
SubmitRejected(o) ==
  /\ Submit(o)
  /\ brokers = {} \/ \E b \in brokers \ connected : Best(b)
  /\ status' = [status EXCEPT ![o] = "REJECTED"]
  /\ UNCHANGED unfilled

(* cancel_order tells no broker.                                           *)
CancelOrder(o) ==
  /\ status[o] \notin {"none", "FILLED", "CANCELLED"}
  /\ status' = [status EXCEPT ![o] = "CANCELLED"]
  /\ astray' = IF status[o] \in Sent THEN astray \union {o} ELSE astray
  /\ UNCHANGED <<fills, links, unfilled, submits>>

(* Mutant of add_fill: the status is taken from the last fill alone.       *)
AddFillLast(o, q, executed) ==
  /\ status[o] # "none"
  /\ executed <= unfilled[o] /\ fills[o] + q <= MaxTold
  /\ unfilled' = [unfilled EXCEPT ![o] = @ - executed]
  /\ fills' = [fills EXCEPT ![o] = @ + q]
  /\ status' = [status EXCEPT ![o] = IF q >= Needed(o) THEN "FILLED" ELSE "PARTIALLY_FILLED"]
  /\ astray' = IF executed = q THEN astray ELSE astray \union {o}
  /\ UNCHANGED <<links, submits>>

(* add_fill takes any fill, whatever the status: q shares are reported, of *)
(* which a broker has executed that many since the last report.            *)
AddFill(o, q, executed) ==
  /\ status[o] # "none"
  /\ executed <= unfilled[o] /\ fills[o] + q <= MaxTold
  /\ unfilled' = [unfilled EXCEPT ![o] = @ - executed]
  /\ fills' = [fills EXCEPT ![o] = @ + q]
  /\ status' = [status EXCEPT ![o] =
                  IF fills[o] + q >= Needed(o) THEN "FILLED" ELSE "PARTIALLY_FILLED"]
  /\ astray' = IF executed = q THEN astray ELSE astray \union {o}
  /\ UNCHANGED <<links, submits>>

-----------------------------------------------------------------------------
(* connect: with a client, or without one (no access token: a mock).       *)
Connect(b, client) ==
  /\ b \notin connected
  /\ client => b \notin Paper
  /\ connected' = connected \union {b}
  /\ kite' = IF client THEN kite \union {b} ELSE kite
  /\ UNCHANGED <<status, fills, brokers, metrics, added, unfilled, submits, astray>>

(* Mutant of disconnect: the client stays.                                 *)
DisconnectKeepingClient(b) ==
  /\ b \in connected
  /\ connected' = connected \ {b}
  /\ UNCHANGED <<status, fills, brokers, metrics, kite, added, unfilled, submits, astray>>

Disconnect(b) ==
  /\ b \in connected
  /\ connected' = connected \ {b}
  /\ kite' = kite \ {b}
  /\ UNCHANGED <<status, fills, brokers, metrics, added, unfilled, submits, astray>>

(* The metrics of a class are those of all its brokers: adding or removing *)
(* one of them makes them fresh for the others.                            *)
AddBroker ==
  /\ added < NumBrokers
  /\ added' = added + 1
  /\ brokers' = brokers \union {added + 1}
  /\ metrics' = [metrics EXCEPT ![Class(added + 1)] = DefaultScore]
  /\ UNCHANGED <<status, fills, connected, kite, unfilled, submits, astray>>

RemoveBroker(b) ==
  /\ b \in brokers
  /\ brokers' = brokers \ {b}
  /\ metrics' = [metrics EXCEPT ![Class(b)] = DefaultScore]
  /\ UNCHANGED <<status, fills, connected, kite, added, unfilled, submits, astray>>

UpdateMetrics(c, score) ==
  /\ metrics' = [metrics EXCEPT ![c] = score]
  /\ UNCHANGED <<status, fills, brokers, connected, kite, added, unfilled, submits, astray>>

Next ==
  \/ \E o \in Orders :
       \/ CreateOrder(o) \/ SubmitPlaced(o) \/ SubmitRejected(o) \/ CancelOrder(o)
       \/ \E q \in 1..MaxTold : \E executed \in 0..q : AddFill(o, q, executed)
  \/ \E b \in Brokers :
       \/ \E client \in BOOLEAN : Connect(b, client)
       \/ Disconnect(b) \/ RemoveBroker(b)
  \/ AddBroker
  \/ \E c \in Classes, score \in 0..MaxScore : UpdateMetrics(c, score)

Spec == Init /\ [][Next]_vars

-----------------------------------------------------------------------------
(* The status of an order that is not astray tells what brokers may still  *)
(* execute of it: nothing when it is FILLED, REJECTED or CANCELLED.  What  *)
(* they may execute of one that is astray grows only when it is sent.      *)
Life == INSTANCE OrderLife WITH life <- status, exposure <- unfilled
ImplementsOrderLife == Life!Spec

(* An order is rejected only if no broker of the list is connected, or a   *)
(* paper broker that is not outbids those that are.                        *)
RejectedOnlyUnconnected ==
  [][\A o \in Orders : SubmitRejected(o) =>
       \/ brokers \intersect connected = {}
       \/ \E p \in (brokers \intersect Paper) \ connected :
            \A b \in brokers \intersect connected : metrics[Class(b)] <= metrics["PaperAdapter"]]_vars
==============================================================================
