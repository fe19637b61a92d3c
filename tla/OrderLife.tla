------------------------------ MODULE OrderLife ------------------------------
(***************************************************************************)
(* What an order's status promises.  While an order is used as intended -  *)
(* sent at most once, or again after a rejection, cancelled only while no  *)
(* broker has it, and each fill reported once - the status tells what      *)
(* brokers may still execute.  The steps that lead an order astray are     *)
(* named, each with what it leaves at the brokers.                         *)
(***************************************************************************)
EXTENDS Integers

CONSTANTS Orders,
          Quantity, \* the whole shares of an order, a positive number
          Odd       \* the orders of a part of a share more, which no broker takes

VARIABLES life,     \* by order: its status, "none" before it is created
          exposure, \* by order: the shares brokers may still execute
          astray    \* the orders whose status does not tell

Set(o, l, e) ==
  /\ life' = [life EXCEPT ![o] = l]
  /\ exposure' = [exposure EXCEPT ![o] = e]

Init ==
  /\ life = [o \in Orders |-> "none"]
  /\ exposure = [o \in Orders |-> 0]
  /\ astray = {}

Create(o) == life[o] = "none" /\ Set(o, "PENDING", 0)

(* The broker may have taken an order that counts as placed, or not.       *)
Place(o) ==
  /\ life[o] \in {"PENDING", "REJECTED"}
  /\ \E e \in {0, Quantity} : Set(o, "PLACED", e)

Refuse(o) == life[o] \in {"PENDING", "REJECTED"} /\ Set(o, "REJECTED", 0)

Cancel(o) == life[o] \in {"PENDING", "REJECTED"} /\ Set(o, "CANCELLED", 0)

(* FILLED is said of an order exactly when nothing is left of it.  One of  *)
(* a part of a share stays PARTIALLY_FILLED with nothing left to execute.  *)
Fill(o) ==
  /\ life[o] \in {"PLACED", "PARTIALLY_FILLED"}
  /\ \E q \in 1..exposure[o] :
       Set(o, IF q = exposure[o] /\ o \notin Odd THEN "FILLED" ELSE "PARTIALLY_FILLED",
           exposure[o] - q)

Regular(o) ==
  /\ o \notin astray
  /\ Create(o) \/ Place(o) \/ Refuse(o) \/ Cancel(o) \/ Fill(o)
  /\ UNCHANGED astray

(* A broker may have the order, or had it: it is sent once more.           *)
SendAgain(o) ==
  /\ o \in astray \/ life[o] \notin {"none", "PENDING", "REJECTED"}
  /\ \/ \E e \in {0, Quantity} : Set(o, "PLACED", exposure[o] + e)
     \/ Set(o, "REJECTED", exposure[o])

(* The broker hears nothing of it, and what it has may still be filled.    *)
CancelUnheard(o) ==
  /\ o \in astray \/ life[o] \in {"PLACED", "PARTIALLY_FILLED"}
  /\ life[o] \notin {"FILLED", "CANCELLED"}
  /\ Set(o, "CANCELLED", exposure[o])

(* A fill beyond what was executed, or any of an order that is astray: a   *)
(* cancelled order may so become FILLED.                                   *)
FillAstray(o) ==
  /\ life[o] # "none"
  /\ \E e \in 0..exposure[o], l \in {"FILLED", "PARTIALLY_FILLED"} : Set(o, l, e)

Irregular(o) ==
  /\ SendAgain(o) \/ CancelUnheard(o) \/ FillAstray(o)
  /\ astray' = astray \union {o}

Next == \E o \in Orders : Regular(o) \/ Irregular(o)

Spec == Init /\ [][Next]_<<life, exposure, astray>>
==============================================================================
