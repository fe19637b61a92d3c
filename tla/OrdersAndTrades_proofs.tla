----------------------- MODULE OrdersAndTrades_proofs -----------------------
(***************************************************************************)
(* Proofs about OrderFlow, for any orders, brokers and scores, and about   *)
(* TradeLog, for any trades, instants, profits and numbers of crashes.     *)
(***************************************************************************)
EXTENDS OrderFlow, TradeLog, TLAPS

LEMMA TypeInit == Init => TypeOK
BY FlowAssumption DEF Init, TypeOK, Statuses, Classes

LEMMA TypeStep == TypeOK /\ [Next]_vars => TypeOK'
<1> SUFFICES ASSUME TypeOK, [Next]_vars PROVE TypeOK'
  OBVIOUS
<1> USE FlowAssumption DEF TypeOK, Statuses, Classes, Class, Brokers, links
<1>1. ASSUME NEW o \in Orders, CreateOrder(o) PROVE TypeOK'
  BY <1>1 DEF CreateOrder
<1>2. ASSUME NEW o \in Orders, SubmitPlaced(o) PROVE TypeOK'
  BY <1>2 DEF SubmitPlaced, Submit
<1>3. ASSUME NEW o \in Orders, SubmitRejected(o) PROVE TypeOK'
  BY <1>3 DEF SubmitRejected, Submit
<1>4. ASSUME NEW o \in Orders, CancelOrder(o) PROVE TypeOK'
  BY <1>4 DEF CancelOrder
<1>5. ASSUME NEW o \in Orders, NEW q \in 1..MaxTold, NEW executed \in 0..q, AddFill(o, q, executed)
      PROVE TypeOK'
  BY <1>5 DEF AddFill
<1>6. ASSUME NEW b \in Brokers, NEW client \in BOOLEAN, Connect(b, client) PROVE TypeOK'
  BY <1>6 DEF Connect
<1>7. ASSUME NEW b \in Brokers, Disconnect(b) PROVE TypeOK'
  BY <1>7 DEF Disconnect
<1>8. ASSUME NEW b \in Brokers, RemoveBroker(b) PROVE TypeOK'
  BY <1>8 DEF RemoveBroker
<1>9. CASE AddBroker
  BY <1>9 DEF AddBroker
<1>10. ASSUME NEW c \in Classes, NEW score \in 0..MaxScore, UpdateMetrics(c, score) PROVE TypeOK'
  BY <1>10 DEF UpdateMetrics
<1>11. CASE UNCHANGED vars
  BY <1>11 DEF vars
<1> QED
  BY <1>1, <1>2, <1>3, <1>4, <1>5, <1>6, <1>7, <1>8, <1>9, <1>10, <1>11 DEF Next

(* Every variable keeps its type; a client belongs to a connected adapter. *)
THEOREM TypeCorrect == Spec => []TypeOK
BY TypeInit, TypeStep, PTL DEF Spec

-----------------------------------------------------------------------------
(* What the status of an order that is not astray says of its fills.       *)
Told(o) ==
  /\ status[o] \in {"none", "PENDING"} => o \notin astray
  /\ o \notin astray =>
       /\ status[o] \notin Sent \union {"FILLED"} => unfilled[o] = 0
       /\ status[o] \notin {"PARTIALLY_FILLED", "FILLED"} => fills[o] = 0
       /\ status[o] = "PLACED" => unfilled[o] \in {0, Quantity}
       /\ status[o] = "PARTIALLY_FILLED" => fills[o] + unfilled[o] = Quantity
       /\ status[o] = "FILLED" => unfilled[o] = 0

StatusInv == TypeOK /\ \A o \in Orders : Told(o)

LEMMA StatusInit == Init => StatusInv
BY TypeInit DEF Init, StatusInv, Told, Sent

LEMMA StatusStep == StatusInv /\ [Next]_vars => StatusInv'
<1> SUFFICES ASSUME StatusInv, [Next]_vars, NEW p \in Orders PROVE Told(p)'
  BY TypeStep DEF StatusInv
<1> USE FlowAssumption DEF StatusInv, Told, TypeOK, Sent, Statuses
<1>1. ASSUME NEW o \in Orders, CreateOrder(o) PROVE Told(p)'
  BY <1>1 DEF CreateOrder
<1>2. ASSUME NEW o \in Orders, SubmitPlaced(o) PROVE Told(p)'
  BY <1>2 DEF SubmitPlaced, Submit
<1>3. ASSUME NEW o \in Orders, SubmitRejected(o) PROVE Told(p)'
  BY <1>3 DEF SubmitRejected, Submit
<1>4. ASSUME NEW o \in Orders, CancelOrder(o) PROVE Told(p)'
  BY <1>4 DEF CancelOrder
<1>5. ASSUME NEW o \in Orders, NEW q \in 1..MaxTold, NEW executed \in 0..q, AddFill(o, q, executed)
      PROVE Told(p)'
  BY <1>5 DEF AddFill, Needed
<1>6. CASE UNCHANGED <<status, fills, unfilled, astray>>
  BY <1>6
<1> QED
  BY <1>1, <1>2, <1>3, <1>4, <1>5, <1>6
  DEF Next, vars, Connect, Disconnect, RemoveBroker, AddBroker, UpdateMetrics

(* The order manager implements OrderLife: the status of an order that is  *)
(* sent once, not cancelled behind the broker's back and told no more      *)
(* fills than were executed tells what brokers may still execute of it;    *)
(* what they may execute of the others grows only when they are sent.      *)
THEOREM Refinement == Spec => ImplementsOrderLife
<1> DEFINE Moves(o, l, e) == /\ status' = [status EXCEPT ![o] = l]
                            /\ unfilled' = [unfilled EXCEPT ![o] = e]
<1>1. Init => Life!Init
  BY DEF Init, Life!Init
<1>2. StatusInv /\ [Next]_vars => [Life!Next]_<<status, unfilled, astray>>
  <2> SUFFICES ASSUME StatusInv, [Next]_vars
               PROVE  Life!Next \/ UNCHANGED <<status, unfilled, astray>>
    OBVIOUS
  <2> USE FlowAssumption DEF StatusInv, TypeOK
  <2>1. ASSUME NEW o \in Orders, CreateOrder(o) PROVE Life!Regular(o)
    <3>1. /\ o \notin astray /\ status[o] = "none" /\ Moves(o, "PENDING", 0)
          /\ UNCHANGED astray
      BY <2>1 DEF CreateOrder, Told, Sent
    <3> QED BY <3>1 DEF Life!Regular, Life!Create, Life!Set
  <2>2. ASSUME NEW o \in Orders, SubmitPlaced(o) PROVE Life!Regular(o) \/ Life!Irregular(o)
    <3>1. PICK e \in {0, Quantity} : Moves(o, "PLACED", unfilled[o] + e)
      BY <2>2 DEF SubmitPlaced
    <3>2. CASE o \in astray'
      <4>1. /\ astray' = astray \union {o}
            /\ o \in astray \/ status[o] \notin {"none", "PENDING", "REJECTED"}
        BY <2>2, <3>2 DEF SubmitPlaced, Submit
      <4> QED BY <3>1, <4>1 DEF Life!Irregular, Life!SendAgain, Life!Set
    <3>3. CASE o \notin astray'
      <4>1. status[o] \in {"PENDING", "REJECTED"} /\ o \notin astray /\ astray' = astray
        BY <2>2, <3>3 DEF SubmitPlaced, Submit
      <4>2. unfilled[o] = 0
        BY <4>1 DEF Told, Sent
      <4>3. Moves(o, "PLACED", e)
        BY <3>1, <4>2
      <4> QED BY <4>1, <4>3 DEF Life!Regular, Life!Place, Life!Set
    <3> QED BY <3>2, <3>3
  <2>3. ASSUME NEW o \in Orders, SubmitRejected(o) PROVE Life!Regular(o) \/ Life!Irregular(o)
    <3>1. Moves(o, "REJECTED", unfilled[o])
      BY <2>3 DEF SubmitRejected
    <3>2. CASE o \in astray'
      <4>1. /\ astray' = astray \union {o}
            /\ o \in astray \/ status[o] \notin {"none", "PENDING", "REJECTED"}
        BY <2>3, <3>2 DEF SubmitRejected, Submit
      <4> QED BY <3>1, <4>1 DEF Life!Irregular, Life!SendAgain, Life!Set
    <3>3. CASE o \notin astray'
      <4>1. status[o] \in {"PENDING", "REJECTED"} /\ o \notin astray /\ astray' = astray
        BY <2>3, <3>3 DEF SubmitRejected, Submit
      <4>2. unfilled[o] = 0
        BY <4>1 DEF Told, Sent
      <4> QED BY <3>1, <4>1, <4>2 DEF Life!Regular, Life!Refuse, Life!Set
    <3> QED BY <3>2, <3>3
  <2>4. ASSUME NEW o \in Orders, CancelOrder(o) PROVE Life!Regular(o) \/ Life!Irregular(o)
    <3>1. Moves(o, "CANCELLED", unfilled[o]) /\ status[o] \notin {"none", "FILLED", "CANCELLED"}
      BY <2>4 DEF CancelOrder
    <3>2. CASE o \in astray'
      <4>1. /\ astray' = astray \union {o}
            /\ o \in astray \/ status[o] \in {"PLACED", "PARTIALLY_FILLED"}
        BY <2>4, <3>2 DEF CancelOrder, Sent
      <4> QED BY <3>1, <4>1 DEF Life!Irregular, Life!CancelUnheard, Life!Set
    <3>3. CASE o \notin astray'
      <4>1. status[o] \in {"PENDING", "REJECTED"} /\ o \notin astray /\ astray' = astray
        BY <2>4, <3>1, <3>3 DEF CancelOrder, Sent, Statuses
      <4>2. unfilled[o] = 0
        BY <4>1 DEF Told, Sent
      <4> QED BY <3>1, <4>1, <4>2 DEF Life!Regular, Life!Cancel, Life!Set
    <3> QED BY <3>2, <3>3
  <2>5. ASSUME NEW o \in Orders, NEW q \in 1..MaxTold, NEW executed \in 0..q,
               AddFill(o, q, executed)
        PROVE  Life!Regular(o) \/ Life!Irregular(o)
    <3> DEFINE l == IF fills[o] + q >= Needed(o) THEN "FILLED" ELSE "PARTIALLY_FILLED"
    <3>1. /\ Moves(o, l, unfilled[o] - executed)
          /\ unfilled[o] - executed \in 0..unfilled[o]
          /\ status[o] # "none" /\ executed <= unfilled[o]
      BY <2>5 DEF AddFill
    <3>2. CASE o \in astray'
      <4>1. astray' = astray \union {o}
        BY <2>5, <3>2 DEF AddFill
      <4>2. l \in {"FILLED", "PARTIALLY_FILLED"}
        OBVIOUS
      <4> QED BY <3>1, <4>1, <4>2 DEF Life!Irregular, Life!FillAstray, Life!Set
    <3>3. CASE o \notin astray'
      <4>1. executed = q /\ o \notin astray /\ astray' = astray
        BY <2>5, <3>3 DEF AddFill
      <4>2. q \in 1..unfilled[o]
        BY <3>1, <4>1
      <4>3. status[o] \in {"PLACED", "PARTIALLY_FILLED"}
        BY <3>1, <4>1, <4>2 DEF Told, Sent
      <4>4. fills[o] + unfilled[o] = Quantity
        BY <4>1, <4>2, <4>3 DEF Told
      <4>5. l = IF q = unfilled[o] /\ o \notin Odd THEN "FILLED" ELSE "PARTIALLY_FILLED"
        BY <4>2, <4>4 DEF Needed
      <4>6. Moves(o, IF q = unfilled[o] /\ o \notin Odd THEN "FILLED" ELSE "PARTIALLY_FILLED",
                  unfilled[o] - q)
        BY ONLY <3>1, <4>1, <4>5
      <4>7. Life!Fill(o)
        BY ONLY <4>2, <4>3, <4>6 DEF Life!Fill, Life!Set
      <4> QED BY <4>1, <4>7 DEF Life!Regular
    <3> QED BY <3>2, <3>3
  <2>6. CASE UNCHANGED <<status, unfilled, astray>>
    BY <2>6
  <2> QED
    BY <2>1, <2>2, <2>3, <2>4, <2>5, <2>6
    DEF Next, Life!Next, vars, Connect, Disconnect, RemoveBroker, AddBroker, UpdateMetrics
<1> QED BY <1>1, <1>2, StatusInit, StatusStep, PTL DEF Spec, ImplementsOrderLife, Life!Spec

(* A rejection means that nobody was connected, or that a paper broker     *)
(* which was not outbid those that were: the router only falls back to a   *)
(* broker without a quote when no broker has one.                          *)
THEOREM Rejections == Spec => RejectedOnlyUnconnected
<1>1. ASSUME TypeOK, NEW o \in Orders, SubmitRejected(o)
      PROVE  \/ brokers \intersect connected = {}
             \/ \E p \in (brokers \intersect Paper) \ connected :
                  \A b \in brokers \intersect connected :
                    metrics[Class(b)] <= metrics["PaperAdapter"]
  <2>1. CASE brokers \intersect connected = {}
    BY <2>1
  <2>2. ASSUME NEW c \in brokers \intersect connected,
               NEW b \in brokers \ connected, Best(b)
        PROVE  /\ b \in Paper
               /\ \A d \in brokers \intersect connected : metrics[Class(d)] <= metrics[Class(b)]
    <3>1. \A d \in brokers : metrics[Class(d)] \in 0..MaxScore
      BY <1>1 DEF TypeOK, Class, Classes
    <3> QED BY <2>2, <3>1, FlowAssumption DEF Best, Quoting
  <2>3. brokers = {} \/ \E b \in brokers \ connected : Best(b)
    BY <1>1 DEF SubmitRejected
  <2>4. CASE \E c : c \in brokers \intersect connected
    <3>1. PICK b \in brokers \ connected : Best(b)
      BY <2>3, <2>4
    <3>2. /\ b \in (brokers \intersect Paper) \ connected
          /\ \A d \in brokers \intersect connected : metrics[Class(d)] <= metrics["PaperAdapter"]
      BY <2>2, <2>4, <3>1 DEF Class
    <3> QED BY <3>2
  <2> QED BY <2>1, <2>4
<1>2. TypeOK /\ [Next]_vars => [\A o \in Orders : SubmitRejected(o) =>
        \/ brokers \intersect connected = {}
        \/ \E p \in (brokers \intersect Paper) \ connected :
             \A b \in brokers \intersect connected :
               metrics[Class(b)] <= metrics["PaperAdapter"]]_vars
  BY <1>1
<1> QED BY <1>2, TypeInit, TypeStep, PTL DEF Spec, RejectedOnlyUnconnected

-----------------------------------------------------------------------------
(* TradeLog: the trades in memory and on disk, and the history of profits. *)

LogTyped(log) == DOMAIN log \subseteq Ids /\ \A id \in DOMAIN log : log[id] \in Trade

(* What is read of a file of trades, cut or not, are trades.               *)
LEMMA ReadTrades ==
  ASSUME NEW log, LogTyped(log), NEW read \in Readable(log)
  PROVE  LogTyped(read)
<1>1. PICK S \in SUBSET DOMAIN log, cut \in {{}} \union {{id} : id \in DOMAIN log} :
        read = [id \in S |-> IF id \in cut THEN [exit |-> log[id].exit, pnl |-> 0] ELSE log[id]]
  BY DEF Readable
<1>2. ASSUME NEW t \in Trade PROVE [exit |-> t.exit, pnl |-> 0] \in Trade
  BY DEF Trade
<1>3. ASSUME NEW id \in S PROVE read[id] \in Trade
  <2>1. log[id] \in Trade
    BY DEF LogTyped
  <2> QED
    BY <1>1, <1>2, <2>1
<1> QED
  BY <1>1, <1>3 DEF LogTyped

(* What is read of a history, cut or not, is a bag of entries.             *)
LEMMA ReadEntries ==
  ASSUME NEW bag \in [Entry -> Nat], NEW read \in ReadableEntries(bag)
  PROVE  read \in [Entry -> Nat]
<1> DEFINE present == {e \in Entry : bag[e] > 0}
           parts == {b \in [present -> 0..MaxCalls] : \A e \in present : b[e] <= bag[e]}
           cut == {[e \in Entry |-> IF e \in present THEN b[e] ELSE 0] : b \in parts}
           more == {[b EXCEPT ![e] = @ + 1] : b \in cut, e \in Entry}
<1>1. ASSUME NEW b \in cut PROVE b \in [Entry -> Nat]
  <2>1. PICK p \in parts : b = [e \in Entry |-> IF e \in present THEN p[e] ELSE 0]
    OBVIOUS
  <2>2. \A e \in present : p[e] \in Nat
    BY LogAssumption
  <2> QED
    BY <2>1, <2>2
<1>2. CASE read \in cut
  BY <1>1, <1>2
<1>3. ASSUME NEW b \in cut, NEW e \in Entry, read = [b EXCEPT ![e] = @ + 1] PROVE read \in [Entry -> Nat]
  BY <1>1, <1>3
<1>4. ReadableEntries(bag) = cut \union more
  BY DEF ReadableEntries
<1> HIDE DEF cut
<1>5. read \in cut \/ \E b \in cut, e \in Entry : read = [b EXCEPT ![e] = @ + 1]
  BY <1>4
<1> QED
  BY <1>2, <1>3, <1>5

LEMMA LogTypeInit == LogInit => LogTypeOK
BY LogAssumption DEF LogInit, LogTypeOK, NoTrades, NoEntries, Files

LEMMA ChangeTypes ==
  ASSUME LogTypeOK, NEW id \in Ids, NEW t \in Closing \union {Open}, Change(id, t),
         exempt' \subseteq Ids, (Closed(t) /\ Append(t)) \/ UNCHANGED history
  PROVE  LogTypeOK'
<1> USE LogAssumption DEF LogTypeOK
<1>1. t \in Trade
  BY DEF Closing, Open, Trade
<1>2. \A log \in {trades, tradesFile}' : DOMAIN log \subseteq Ids /\ \A x \in DOMAIN log : log[x] \in Trade
  <2>1. DOMAIN trades' = DOMAIN trades \union {id} /\ trades'[id] = t
          /\ \A x \in DOMAIN trades \ {id} : trades'[x] = trades[x]
    BY DEF Change
  <2>2. tradesFile' = tradesFile
    BY DEF Change, disk
  <2> QED
    BY <1>1, <2>1, <2>2
<1>3. Closed(t) => t.exit \in Instants /\ <<t.exit, t.pnl>> \in Entry
  BY DEF Closed, Closing, Open, Entry
<1>4. history' \in [Entry -> Nat] /\ asNumber' \subseteq DOMAIN trades'
  BY <1>3 DEF Append, Change
<1>5. historyFile' \in [Entry -> Nat] /\ torn' \subseteq Files /\ pc' \in Files \union {"idle", "down"}
  BY DEF Change, disk, Files
<1>6. unsaved' \in [Files -> SUBSET Ids] /\ apart' \subseteq Ids
  BY DEF Change
<1>7. closings' \in [Instants -> SUBSET Ids]
  BY <1>3 DEF Change
<1>8. calls' \in 0..MaxCalls /\ crashes' \in 0..MaxCrashes
  BY DEF Change
<1> QED
  BY <1>2, <1>4, <1>5, <1>6, <1>7, <1>8

LEMMA LogTypeStep == LogTypeOK /\ [LogNext]_logVars => LogTypeOK'
<1> SUFFICES ASSUME LogTypeOK, [LogNext]_logVars PROVE LogTypeOK'
  OBVIOUS
<1>1. ASSUME NEW id \in Ids, NEW t \in Closing \union {Open}, LogTrade(id, t) PROVE LogTypeOK'
  BY <1>1, ChangeTypes DEF LogTrade, LogTypeOK
<1>2. ASSUME NEW id \in Ids, NEW t \in Closing \union {Open}, UpdateTrade(id, t) PROVE LogTypeOK'
  BY <1>2, ChangeTypes DEF UpdateTrade, LogTypeOK
<1>3. CASE SaveTrades
  <2>1. torn' \subseteq Files /\ unsaved' \in [Files -> SUBSET Ids] /\ apart' \subseteq Ids
    BY <1>3 DEF SaveTrades, Files, Written, NotWritten, LogTypeOK, Other
  <2>2. tradesFile' \in {trades, tradesFile}
    BY <1>3 DEF SaveTrades, Written, NotWritten
  <2> QED
    BY <1>3, <2>1, <2>2 DEF SaveTrades, memory, LogTypeOK, Files
<1>4. CASE SaveHistory
  <2>1. torn' \subseteq Files /\ unsaved' \in [Files -> SUBSET Ids] /\ apart' \subseteq Ids
    BY <1>4 DEF SaveHistory, Files, Written, NotWritten, LogTypeOK, Other
  <2>2. historyFile' \in {history, historyFile}
    BY <1>4 DEF SaveHistory, Written, NotWritten
  <2> QED
    BY <1>4, <2>1, <2>2 DEF SaveHistory, memory, LogTypeOK, Files
<1>5. CASE Crash
  <2>1. tradesFile' \in {trades, tradesFile} /\ historyFile' \in {history, historyFile} /\ torn' \subseteq Files
    BY <1>5 DEF Crash, disk, LogTypeOK, Files
  <2>2. trades' = NoTrades /\ history' \in [Entry -> Nat] /\ asNumber' = {}
    BY <1>5 DEF Crash, NoEntries
  <2>3. exempt' \subseteq Ids /\ unsaved' \in [Files -> SUBSET Ids] /\ apart' = {}
    BY <1>5 DEF Crash, LogTypeOK, Files
  <2>4. pc' = "down" /\ calls' \in 0..MaxCalls /\ crashes' \in 0..MaxCrashes
    BY <1>5, LogAssumption DEF Crash, LogTypeOK
  <2> QED
    BY <1>5, <2>1, <2>2, <2>3, <2>4 DEF Crash, LogTypeOK, NoTrades
<1>6. CASE Restart
  <2>1. LogTyped(trades')
    BY <1>6, ReadTrades DEF Restart, LogTyped, LogTypeOK
  <2>2. history' \in [Entry -> Nat]
    BY <1>6, ReadEntries DEF Restart, LogTypeOK
  <2>3. asNumber' \subseteq DOMAIN trades'
    BY <1>6 DEF Restart
  <2> QED
    BY <1>6, <2>1, <2>2, <2>3 DEF Restart, LogTypeOK, LogTyped, disk
<1>7. CASE UNCHANGED logVars
  BY <1>7 DEF logVars, memory, disk, LogTypeOK
<1> QED
  BY <1>1, <1>2, <1>3, <1>4, <1>5, <1>6, <1>7 DEF LogNext

(* Every variable of the logger keeps its type, also through what is read  *)
(* back of a file that was cut in the middle of a write.                   *)
THEOREM LogTypes == LogSpec => []LogTypeOK
BY LogTypeInit, LogTypeStep, PTL DEF LogSpec

-----------------------------------------------------------------------------
(* What a log of trades says of an entry.                                  *)
Says(log, id, e) == id \in DOMAIN log /\ log[id].exit = e[1] /\ log[id].pnl = e[2]

(* A log of trades and a bag of entries that tell the same of some trades: *)
(* a closed one is among those that closed at its exit, and the entries of *)
(* an instant at which no other ever closed are what it says.              *)
Book(log, bag, ids) ==
  /\ \A id \in ids, i \in Instants : id \in DOMAIN log /\ log[id].exit = i => id \in closings[i]
  /\ \A id \in ids, e \in Entry :
       closings[e[1]] \subseteq {id} => bag[e] = IF Says(log, id, e) THEN 1 ELSE 0

(* A file that is not cut is behind the memory only in what changed since  *)
(* it was last written.                                                    *)
TradesSaved ==
  \A id \in Ids \ (exempt \union unsaved["trades"]) :
    /\ id \in DOMAIN tradesFile <=> id \in DOMAIN trades
    /\ id \in DOMAIN trades => tradesFile[id] = trades[id]
HistorySaved ==
  \A e \in Entry :
    closings[e[1]] \intersect (exempt \union unsaved["history"]) = {} => historyFile[e] = history[e]

(* The two files are a book of the trades whose changes both have.         *)
FilesAgree == torn = {} => Book(tradesFile, historyFile, Ids \ (exempt \union apart))

(* What is in memory is a book, and what is in the files, of the trades of *)
(* which something is claimed; after a crash that found or left a file cut *)
(* there are none.                                                         *)
LogInv ==
  \/ exempt = Ids
  \/ /\ FilesAgree
     /\ pc = "down" => torn = {} /\ apart = {}
     /\ pc # "down" => /\ Book(trades, history, Ids \ exempt)
                       /\ "trades" \in torn \/ TradesSaved
                       /\ "history" \in torn \/ HistorySaved

LEMMA BooksInit == LogInit => LogInv
BY LogAssumption
DEF LogInit, LogInv, FilesAgree, Book, Says, TradesSaved, HistorySaved, NoTrades, NoEntries, Entry

(* A call that finds the books in order: of the trade it changes, whose    *)
(* entry depends on the call, the last assumption says what is needed.     *)
LEMMA ChangeBooks ==
  ASSUME LogTypeOK, FilesAgree, Book(trades, history, Ids \ exempt),
         "trades" \in torn \/ TradesSaved, "history" \in torn \/ HistorySaved,
         NEW id \in Ids, NEW t \in Closing \union {Open}, Change(id, t),
         (Closed(t) /\ Append(t)) \/ UNCHANGED history,
         exempt \subseteq exempt',
         ASSUME id \notin exempt', NEW e \in Entry, closings'[e[1]] \subseteq {id}
         PROVE  history'[e] = IF e[1] = t.exit /\ e[2] = t.pnl THEN 1 ELSE 0
  PROVE  /\ FilesAgree'
         /\ Book(trades, history, Ids \ exempt)'
         /\ "trades" \in torn' \/ TradesSaved'
         /\ "history" \in torn' \/ HistorySaved'
<1>1. DOMAIN trades' = DOMAIN trades \union {id} /\ trades'[id] = t
        /\ \A x \in DOMAIN trades \ {id} : trades'[x] = trades[x]
  BY DEF Change
<1>2. \A i \in Instants : closings'[i] = IF t.exit = i THEN closings[i] \union {id} ELSE closings[i]
  BY LogAssumption DEF Change, Closed, LogTypeOK, Closing, Open
<1>3. ASSUME NEW e \in Entry, e[1] # t.exit PROVE history'[e] = history[e]
  BY <1>3 DEF Append, LogTypeOK
<1>4. \A e \in Entry : e[1] \in Instants
  BY DEF Entry
<1>5. ASSUME NEW x \in Ids \ exempt', NEW i \in Instants, x \in DOMAIN trades', trades'[x].exit = i
      PROVE  x \in closings'[i]
  <2>1. CASE x # id
    <3>1. x \in Ids \ exempt /\ x \in DOMAIN trades /\ trades[x].exit = i
      BY <1>1, <1>5, <2>1
    <3>2. x \in closings[i]
      BY <3>1 DEF Book
    <3> QED
      BY <1>2, <3>2
  <2>2. CASE x = id
    BY <1>1, <1>2, <1>5, <2>2
  <2> QED
    BY <2>1, <2>2
<1>6. ASSUME NEW x \in Ids \ exempt', NEW e \in Entry, closings'[e[1]] \subseteq {x}
      PROVE  history'[e] = IF Says(trades, x, e)' THEN 1 ELSE 0
  <2>1. CASE x # id
    <3>1. e[1] # t.exit /\ closings[e[1]] \subseteq {x}
      <4>1. closings'[e[1]] = IF t.exit = e[1] THEN closings[e[1]] \union {id} ELSE closings[e[1]]
        BY <1>2, <1>4
      <4> QED
        BY ONLY <1>6, <2>1, <4>1
    <3>2. history[e] = IF Says(trades, x, e) THEN 1 ELSE 0
      BY <3>1 DEF Book
    <3>3. Says(trades, x, e)' <=> Says(trades, x, e)
      BY <1>1, <2>1 DEF Says
    <3> QED
      BY <1>3, <3>1, <3>2, <3>3
  <2>2. CASE x = id
    <3>1. Says(trades, x, e)' <=> e[1] = t.exit /\ e[2] = t.pnl
      BY <1>1, <2>2 DEF Says
    <3> QED
      BY <1>6, <2>2, <3>1
  <2> QED
    BY <2>1, <2>2
<1>7. Book(trades, history, Ids \ exempt)'
  BY <1>5, <1>6 DEF Book
<1>8. torn' = torn /\ tradesFile' = tradesFile /\ historyFile' = historyFile /\ apart' = apart
        /\ \A f \in Files : unsaved'[f] = unsaved[f] \union {id}
  BY DEF Change, disk
<1>9. TradesSaved => TradesSaved'
  BY <1>1, <1>8 DEF TradesSaved, Files
<1>10. ASSUME HistorySaved, NEW e \in Entry, closings'[e[1]] \intersect (exempt' \union unsaved'["history"]) = {}
       PROVE  historyFile'[e] = history'[e]
  <2>1. id \notin closings'[e[1]]
    BY <1>8, <1>10 DEF Files
  <2>2. e[1] # t.exit /\ closings'[e[1]] = closings[e[1]]
    BY <1>2, <1>4, <2>1
  <2>3. closings[e[1]] \intersect (exempt \union unsaved["history"]) = {}
    BY <1>8, <1>10, <2>2 DEF Files
  <2> QED
    BY <1>3, <1>8, <1>10, <2>2, <2>3 DEF HistorySaved
<1>11. HistorySaved => HistorySaved'
  BY <1>10 DEF HistorySaved
<1>12. ASSUME torn = {} PROVE Book(tradesFile, historyFile, Ids \ (exempt \union apart))'
  <2>1. Book(tradesFile, historyFile, Ids \ (exempt \union apart))
    BY <1>12 DEF FilesAgree
  <2>2. ASSUME NEW x \in Ids \ (exempt' \union apart'), NEW i \in Instants,
               x \in DOMAIN tradesFile', tradesFile'[x].exit = i
        PROVE  x \in closings'[i]
    <3>1. x \in Ids \ (exempt \union apart) /\ x \in DOMAIN tradesFile /\ tradesFile[x].exit = i
      BY <1>8, <2>2
    <3>2. x \in closings[i]
      BY <2>1, <3>1 DEF Book
    <3> QED
      BY <1>2, <3>2
  <2>3. ASSUME NEW x \in Ids \ (exempt' \union apart'), NEW e \in Entry, closings'[e[1]] \subseteq {x}
        PROVE  historyFile'[e] = IF Says(tradesFile, x, e)' THEN 1 ELSE 0
    <3>1. closings[e[1]] \subseteq {x}
      <4>1. closings[e[1]] \subseteq closings'[e[1]]
        BY <1>2, <1>4
      <4> QED
        BY ONLY <2>3, <4>1
    <3>2. historyFile[e] = IF Says(tradesFile, x, e) THEN 1 ELSE 0
      BY <1>8, <2>1, <3>1 DEF Book
    <3> QED
      BY <1>8, <3>2 DEF Says
  <2> QED
    BY <2>2, <2>3 DEF Book
<1>13. FilesAgree'
  BY <1>8, <1>12 DEF FilesAgree
<1> QED
  BY <1>7, <1>8, <1>9, <1>11, <1>13

(* Neither call enters a profit twice for a trade that closed alone.       *)
LEMMA LogTradeBooks ==
  ASSUME LogTypeOK, LogInv, NEW id \in Ids, NEW t \in Closing \union {Open}, LogTrade(id, t)
  PROVE  LogInv'
<1>1. pc # "down" /\ pc' # "down" /\ exempt \subseteq exempt' /\ Change(id, t)
  BY DEF LogTrade, Change
<1>2. CASE exempt = Ids
  BY <1>2 DEF LogInv, LogTrade
<1>3. CASE exempt # Ids
  <2>1. /\ FilesAgree /\ Book(trades, history, Ids \ exempt)
        /\ ("trades" \in torn \/ TradesSaved) /\ ("history" \in torn \/ HistorySaved)
    BY <1>1, <1>3 DEF LogInv
  <2>2. (Closed(t) /\ Append(t)) \/ UNCHANGED history
    BY DEF LogTrade
  <2>3. ASSUME id \notin exempt', NEW e \in Entry, closings'[e[1]] \subseteq {id}
        PROVE  history'[e] = IF e[1] = t.exit /\ e[2] = t.pnl THEN 1 ELSE 0
    <3>1. id \notin exempt /\ ~Says(trades, id, e)
      BY <2>3, LogAssumption DEF LogTrade, Found, Says, Closed, Entry
    <3>2. closings[e[1]] \subseteq {id}
      BY <1>1, <2>3 DEF Change, LogTypeOK, Entry, Closing, Open, Closed
    <3>3. history[e] = 0
      BY <2>1, <3>1, <3>2 DEF Book
    <3>4. CASE Closed(t)
      <4>1. history' = [history EXCEPT ![<<t.exit, t.pnl>>] = @ + 1]
        BY <3>4 DEF LogTrade, Append
      <4>2. e = <<t.exit, t.pnl>> <=> e[1] = t.exit /\ e[2] = t.pnl
        BY DEF Entry
      <4> QED
        BY <3>3, <4>1, <4>2 DEF LogTypeOK
    <3>5. CASE ~Closed(t)
      BY <3>3, <3>5, LogAssumption DEF LogTrade, Closed, Entry
    <3> QED
      BY <3>4, <3>5
  <2> QED
    BY <1>1, <2>1, <2>2, <2>3, ChangeBooks DEF LogInv
<1> QED
  BY <1>2, <1>3

LEMMA UpdateTradeBooks ==
  ASSUME LogTypeOK, LogInv, NEW id \in Ids, NEW t \in Closing \union {Open}, UpdateTrade(id, t)
  PROVE  LogInv'
<1>1. pc # "down" /\ pc' # "down" /\ exempt \subseteq exempt' /\ Change(id, t) /\ id \in DOMAIN trades
  BY DEF UpdateTrade, Change, Found
<1>2. CASE exempt = Ids
  BY <1>2 DEF LogInv, UpdateTrade
<1>3. CASE exempt # Ids
  <2>1. /\ FilesAgree /\ Book(trades, history, Ids \ exempt)
        /\ ("trades" \in torn \/ TradesSaved) /\ ("history" \in torn \/ HistorySaved)
    BY <1>1, <1>3 DEF LogInv
  <2>2. (Closed(t) /\ Append(t)) \/ UNCHANGED history
    BY DEF UpdateTrade
  <2>3. ASSUME id \notin exempt', NEW e \in Entry, closings'[e[1]] \subseteq {id}
        PROVE  history'[e] = IF e[1] = t.exit /\ e[2] = t.pnl THEN 1 ELSE 0
    <3>1. id \in Ids \ exempt /\ (~Closed(trades[id]) \/ trades[id] = t)
      BY <2>3 DEF UpdateTrade
    <3>2. closings[e[1]] \subseteq {id}
      BY <1>1, <2>3 DEF Change, LogTypeOK, Entry, Closing, Open, Closed
    <3>3. \A d \in Entry : d[1] = e[1] => history[d] = IF Says(trades, id, d) THEN 1 ELSE 0
      BY <2>1, <3>1, <3>2 DEF Book
    <3>4. e = <<t.exit, t.pnl>> <=> e[1] = t.exit /\ e[2] = t.pnl
      BY DEF Entry
    <3>5. CASE ~Closed(t) \/ e[1] # t.exit
      <4>1. history'[e] = history[e]
        BY <2>2, <3>4, <3>5 DEF Append, UpdateTrade, LogTypeOK
      <4>2. ~Says(trades, id, e)
        BY <3>1, <3>5, LogAssumption DEF Says, Closed, Entry
      <4>3. e[1] # t.exit
        BY <3>5, LogAssumption DEF Closed, Entry
      <4> QED
        BY <3>3, <4>1, <4>2, <4>3
    <3>6. CASE Closed(t) /\ e[1] = t.exit /\ trades[id] = t
      <4>1. <<t.exit, t.pnl>> \in Entry /\ <<t.exit, t.pnl>>[1] = t.exit /\ <<t.exit, t.pnl>>[2] = t.pnl
        BY <3>6 DEF Entry, Closing, Closed, Open
      <4>2. \A d \in Entry : d[1] = t.exit => history[d] = IF d[2] = t.pnl THEN 1 ELSE 0
        BY <1>1, <3>3, <3>6 DEF Says
      <4>3. Known(t.exit)
        BY <4>1, <4>2 DEF Known
      <4>4. history' = history
        BY <4>3 DEF UpdateTrade
      <4> QED
        BY <3>6, <4>2, <4>4
    <3>7. CASE Closed(t) /\ e[1] = t.exit /\ ~Closed(trades[id])
      <4>1. \A d \in Entry : d[1] = t.exit => ~Says(trades, id, d)
        BY <3>7, LogAssumption DEF Says, Closed, Entry
      <4>2. \A d \in Entry : d[1] = t.exit => history[d] = 0
        BY <3>3, <3>7, <4>1
      <4>3. ~Known(t.exit)
        BY <4>2 DEF Known
      <4>4. history' = [history EXCEPT ![<<t.exit, t.pnl>>] = @ + 1]
        BY <3>7, <4>3 DEF UpdateTrade, Append
      <4> QED
        BY <3>4, <3>7, <4>2, <4>4 DEF LogTypeOK
    <3> QED
      BY <3>1, <3>5, <3>6, <3>7
  <2> QED
    BY <1>1, <2>1, <2>2, <2>3, ChangeBooks DEF LogInv
<1> QED
  BY <1>2, <1>3

(* A file that was written without a fault makes the two a book of what    *)
(* has not changed since the other was written.                            *)
LEMMA SavedAgree ==
  ASSUME LogTypeOK, Book(trades, history, Ids \ exempt),
         NEW late \in SUBSET Ids, NEW log, NEW bag,
         \A id \in Ids \ (exempt \union late) :
           /\ id \in DOMAIN log <=> id \in DOMAIN trades
           /\ id \in DOMAIN trades => log[id] = trades[id],
         \A e \in Entry : closings[e[1]] \intersect (exempt \union late) = {} => bag[e] = history[e]
  PROVE  Book(log, bag, Ids \ (exempt \union late))
BY DEF Book, Says

LEMMA LogStep == LogTypeOK /\ LogInv /\ [LogNext]_logVars => LogInv'
<1> SUFFICES ASSUME LogTypeOK, LogInv, [LogNext]_logVars PROVE LogInv'
  OBVIOUS
<1>1. ASSUME NEW id \in Ids, NEW t \in Closing \union {Open}, LogTrade(id, t) PROVE LogInv'
  BY <1>1, LogTradeBooks
<1>2. ASSUME NEW id \in Ids, NEW t \in Closing \union {Open}, UpdateTrade(id, t) PROVE LogInv'
  BY <1>2, UpdateTradeBooks
<1>3. CASE SaveTrades
  <2>1. pc # "down" /\ pc' # "down" /\ exempt' = exempt /\ closings' = closings
          /\ trades' = trades /\ history' = history /\ historyFile' = historyFile
    BY <1>3 DEF SaveTrades, memory
  <2>2. Book(trades, history, Ids \ exempt) => Book(trades, history, Ids \ exempt)'
    BY <2>1 DEF Book, Says
  <2>3. unsaved'["history"] = unsaved["history"] /\ ("history" \in torn' <=> "history" \in torn)
    BY <1>3 DEF SaveTrades, Written, NotWritten, LogTypeOK, Files
  <2>4. HistorySaved => HistorySaved'
    BY <2>1, <2>3 DEF HistorySaved
  <2>5. ("trades" \in torn \/ TradesSaved) => ("trades" \in torn' \/ TradesSaved')
    BY <1>3, <2>1 DEF SaveTrades, Written, NotWritten, TradesSaved
  <2>6. CASE Written("trades", tradesFile, trades) /\ exempt # Ids
    <3>1. tradesFile' = trades /\ apart' = unsaved["history"] /\ ("history" \in torn => torn' # {})
      BY <2>6 DEF Written, Other
    <3>2. ASSUME torn' = {} PROVE Book(trades, historyFile, Ids \ (exempt \union unsaved["history"]))
      <4>1. HistorySaved /\ Book(trades, history, Ids \ exempt)
        BY <2>1, <2>6, <3>1, <3>2 DEF LogInv
      <4>2. unsaved["history"] \in SUBSET Ids
        BY DEF LogTypeOK, Files
      <4> QED
        BY <4>1, <4>2, SavedAgree DEF HistorySaved
    <3> QED
      BY <2>1, <2>2, <2>4, <2>5, <2>3, <2>6, <3>1, <3>2 DEF LogInv, FilesAgree, Book, Says
  <2>7. CASE NotWritten("trades", tradesFile, trades)
    <3>1. FilesAgree => FilesAgree'
      BY <2>1, <2>7 DEF NotWritten, FilesAgree, Book, Says
    <3> QED
      BY <2>1, <2>2, <2>3, <2>4, <2>5, <3>1 DEF LogInv
  <2> QED
    BY <1>3, <2>1, <2>6, <2>7 DEF SaveTrades, LogInv
<1>4. CASE SaveHistory
  <2>1. pc # "down" /\ pc' # "down" /\ exempt' = exempt /\ closings' = closings
          /\ trades' = trades /\ history' = history /\ tradesFile' = tradesFile
    BY <1>4 DEF SaveHistory, memory
  <2>2. Book(trades, history, Ids \ exempt) => Book(trades, history, Ids \ exempt)'
    BY <2>1 DEF Book, Says
  <2>3. unsaved'["trades"] = unsaved["trades"] /\ ("trades" \in torn' <=> "trades" \in torn)
    BY <1>4 DEF SaveHistory, Written, NotWritten, LogTypeOK, Files
  <2>4. TradesSaved => TradesSaved'
    BY <2>1, <2>3 DEF TradesSaved
  <2>5. ("history" \in torn \/ HistorySaved) => ("history" \in torn' \/ HistorySaved')
    BY <1>4, <2>1 DEF SaveHistory, Written, NotWritten, HistorySaved
  <2>6. CASE Written("history", historyFile, history) /\ exempt # Ids
    <3>1. historyFile' = history /\ apart' = unsaved["trades"] /\ ("trades" \in torn => torn' # {})
      BY <2>6 DEF Written, Other
    <3>2. ASSUME torn' = {} PROVE Book(tradesFile, history, Ids \ (exempt \union unsaved["trades"]))
      <4>1. TradesSaved /\ Book(trades, history, Ids \ exempt)
        BY <2>1, <2>6, <3>1, <3>2 DEF LogInv
      <4>2. unsaved["trades"] \in SUBSET Ids
        BY DEF LogTypeOK, Files
      <4> QED
        BY <4>1, <4>2, SavedAgree DEF TradesSaved
    <3> QED
      BY <2>1, <2>2, <2>4, <2>5, <2>3, <2>6, <3>1, <3>2 DEF LogInv, FilesAgree, Book, Says
  <2>7. CASE NotWritten("history", historyFile, history)
    <3>1. FilesAgree => FilesAgree'
      BY <2>1, <2>7 DEF NotWritten, FilesAgree, Book, Says
    <3> QED
      BY <2>1, <2>2, <2>3, <2>4, <2>5, <3>1 DEF LogInv
  <2> QED
    BY <1>4, <2>1, <2>6, <2>7 DEF SaveHistory, LogInv
<1>5. CASE Crash
  <2>1. pc' = "down" /\ closings' = closings /\ apart' = {}
    BY <1>5 DEF Crash
  <2>2. CASE torn' # {} \/ exempt = Ids
    BY <1>5, <2>2 DEF Crash, LogInv, LogTypeOK
  <2>3. CASE torn' = {} /\ exempt # Ids
    <3>1. tradesFile' = tradesFile /\ historyFile' = historyFile /\ torn = {}
      BY <1>5, <2>3 DEF Crash, disk
    <3>2. exempt' = exempt \union apart
      BY <1>5, <2>3 DEF Crash
    <3>3. FilesAgree'
      BY <2>1, <2>3, <3>1, <3>2 DEF LogInv, FilesAgree, Book, Says
    <3> QED
      BY <2>1, <2>3, <3>3 DEF LogInv
  <2> QED
    BY <2>2, <2>3
<1>6. CASE Restart
  <2>1. pc = "down" /\ pc' # "down" /\ exempt' = exempt /\ closings' = closings /\ apart' = apart
          /\ tradesFile' = tradesFile /\ historyFile' = historyFile /\ torn' = torn
    BY <1>6 DEF Restart, disk
  <2>2. torn = {} => trades' = tradesFile /\ history' = historyFile
    BY <1>6 DEF Restart
  <2>3. FilesAgree => FilesAgree'
    BY <2>1 DEF FilesAgree, Book, Says
  <2>4. torn = {} /\ apart = {} /\ FilesAgree => Book(trades, history, Ids \ exempt)'
    BY <2>1, <2>2 DEF FilesAgree, Book, Says
  <2>5. torn = {} => TradesSaved' /\ HistorySaved'
    BY <2>1, <2>2 DEF TradesSaved, HistorySaved
  <2> QED
    BY <2>1, <2>3, <2>4, <2>5 DEF LogInv
<1>7. CASE UNCHANGED logVars
  BY <1>7 DEF logVars, memory, disk, LogInv, FilesAgree, Book, Says, TradesSaved, HistorySaved
<1> QED
  BY <1>1, <1>2, <1>3, <1>4, <1>5, <1>6, <1>7 DEF LogNext

(* The entries of an instant at which one trade alone closed are what the  *)
(* trade says, through failed writes, crashes and restarts: unless it was  *)
(* changed when closed, or logged again after its id was read back as a    *)
(* number, or a crash found its last change in one file only or a file cut.*)
THEOREM HistoryKept == LogSpec => []HistoryExact
<1>1. LogTypeOK /\ LogInv => HistoryExact
  <2> SUFFICES ASSUME LogTypeOK, LogInv, pc # "down", NEW id \in Ids \ exempt,
                      NEW e \in Entry, closings[e[1]] \subseteq {id}
               PROVE  history[e] = IF id \in DOMAIN trades /\ trades[id] = [exit |-> e[1], pnl |-> e[2]]
                                   THEN 1 ELSE 0
    BY DEF HistoryExact
  <2>1. Book(trades, history, Ids \ exempt)
    BY DEF LogInv
  <2>2. Says(trades, id, e) <=> id \in DOMAIN trades /\ trades[id] = [exit |-> e[1], pnl |-> e[2]]
    <3>1. id \in DOMAIN trades => trades[id] \in Trade
      BY DEF LogTypeOK
    <3> QED
      BY <3>1 DEF Says, Trade
  <2> QED
    BY <2>1, <2>2 DEF Book
<1> QED
  BY <1>1, LogTypeInit, LogTypeStep, BooksInit, LogStep, PTL DEF LogSpec
=============================================================================
