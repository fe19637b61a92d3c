------------------------------ MODULE TradeLog ------------------------------
(***************************************************************************)
(* TradeLogger (production/src/portfolio/trade_logger.py): the trades and  *)
(* the profit history in memory, and their two files.  A call changes the  *)
(* memory and then writes trades.csv and pnl_history.csv, each in place;   *)
(* a write may fail, which is logged and forgotten, and the process may    *)
(* stop between any two steps and start again from the files.              *)
(*                                                                         *)
(* read_csv gives the identifiers back as numbers when all in the file are *)
(* numerals, as a broker's order ids are: a trade is then not found by its *)
(* identifier, an update of it does nothing and logging it makes a record  *)
(* of its own.  (The record under the number is then only counted again in *)
(* the metrics; of their two rows the later, new one is read back.)        *)
(*                                                                         *)
(* positions.csv and the database are written and never read back: the     *)
(* SELECT of _load_trades names columns the table does not have, so that   *)
(* with or without a database the trades are loaded from the file.         *)
(***************************************************************************)
EXTENDS Integers

CONSTANTS Ids,       \* trade ids
          Numerals,  \* those that read_csv takes for a number
          Instants,  \* exit times, positive numbers
          Profits,   \* what calculate_pnl yields, positive numbers
          MaxCalls,  \* bound on the calls
          MaxCrashes \* bound on the crashes

ASSUME LogAssumption == /\ Instants \subseteq Nat \ {0} /\ Profits \subseteq Nat \ {0}
                        /\ MaxCalls \in Nat /\ MaxCrashes \in Nat

VARIABLES trades,   \* self.trades
          history,  \* self.pnl_history, as a bag
          tradesFile, historyFile,
          torn,     \* the files cut in the middle of a write
          asNumber, \* the trades in memory under the number of their id
          pc,       \* the file a call writes next, "idle" or "down"
          unsaved,  \* history, by file: ids changed since it was last written
          apart,    \* history: ids changed between the last writes of the two files
          closings, \* history, by instant: the trades that closed then
          exempt,   \* history: trades of which nothing is claimed any more
          calls, crashes

memory == <<trades, history, asNumber>>
disk == <<tradesFile, historyFile, torn>>
logVars == <<memory, disk, pc, unsaved, apart, closings, exempt, calls, crashes>>

(* An open trade has exit 0 and pnl 0.  A pnl of 0 in a closed one, or in  *)
(* an entry, is a number read from a row that was cut.                     *)
Trade == [exit : {0}, pnl : {0}] \union [exit : Instants, pnl : Profits \union {0}]
Closing == [exit : Instants, pnl : Profits]
Entry == Instants \X (Profits \union {0})
Open == [exit |-> 0, pnl |-> 0]
Closed(t) == t.exit # 0
NoTrades == [id \in {} |-> Open]
NoEntries == [e \in Entry |-> 0]
Files == {"trades", "history"}

LogTypeOK ==
  /\ \A log \in {trades, tradesFile} : DOMAIN log \subseteq Ids /\ \A id \in DOMAIN log : log[id] \in Trade
  /\ history \in [Entry -> Nat] /\ historyFile \in [Entry -> Nat]
  /\ asNumber \subseteq DOMAIN trades
  /\ torn \subseteq Files
  /\ pc \in Files \union {"idle", "down"}
  /\ unsaved \in [Files -> SUBSET Ids]
  /\ apart \subseteq Ids
  /\ closings \in [Instants -> SUBSET Ids]
  /\ exempt \subseteq Ids
  /\ calls \in 0..MaxCalls /\ crashes \in 0..MaxCrashes

LogInit ==
  /\ trades = NoTrades /\ tradesFile = NoTrades
  /\ history = NoEntries /\ historyFile = NoEntries
  /\ asNumber = {} /\ torn = {} /\ pc = "idle"
  /\ unsaved = [f \in Files |-> {}]
  /\ apart = {}
  /\ closings = [i \in Instants |-> {}]
  /\ exempt = {}
  /\ calls = 0 /\ crashes = 0

-----------------------------------------------------------------------------
Append(t) == history' = [history EXCEPT ![<<t.exit, t.pnl>>] = @ + 1]
Known(exit) == \E e \in Entry : e[1] = exit /\ history[e] > 0
Found == DOMAIN trades \ asNumber

Change(id, t) ==
  /\ pc = "idle" /\ calls < MaxCalls
  /\ trades' = [x \in DOMAIN trades \union {id} |-> IF x = id THEN t ELSE trades[x]]
  /\ asNumber' = asNumber \ {id}
  /\ pc' = "trades"
  /\ unsaved' = [f \in Files |-> unsaved[f] \union {id}]
  /\ closings' = IF Closed(t) THEN [closings EXCEPT ![t.exit] = @ \union {id}] ELSE closings
  /\ calls' = calls + 1
  /\ UNCHANGED <<disk, apart, crashes>>

(* log_trade of an id that is not found: the trade is new, or is there     *)
(* under the number of its id, and then its profit may be entered twice.   *)
LogTrade(id, t) ==
  /\ id \notin Found
  /\ Change(id, t)
  /\ IF Closed(t) THEN Append(t) ELSE UNCHANGED history
  /\ exempt' = IF id \in asNumber /\ Closed(trades[id]) THEN exempt \union {id} ELSE exempt

(* Mutant of update_trade: every closed trade is appended.                 *)
UpdateTradeAlways(id, t) ==
  /\ id \in Found
  /\ Change(id, t)
  /\ IF Closed(t) THEN Append(t) ELSE UNCHANGED history
  /\ exempt' = IF Closed(trades[id]) /\ trades[id] # t THEN exempt \union {id} ELSE exempt

(* update_trade, and log_trade of an id that is found: the profit is       *)
(* entered unless there is an entry of that time already, of whichever     *)
(* trade.  A closed trade that is corrected keeps its old entry.           *)
UpdateTrade(id, t) ==
  /\ id \in Found
  /\ Change(id, t)
  /\ IF Closed(t) /\ ~Known(t.exit) THEN Append(t) ELSE UNCHANGED history
  /\ exempt' = IF Closed(trades[id]) /\ trades[id] # t THEN exempt \union {id} ELSE exempt

-----------------------------------------------------------------------------
Other(f) == IF f = "trades" THEN "history" ELSE "trades"

Written(f, file, content) ==
  /\ file' = content
  /\ torn' = torn \ {f}
  /\ unsaved' = [unsaved EXCEPT ![f] = {}]
  /\ apart' = unsaved[Other(f)]

(* open fails and the file stays, or the write fails and it is cut.        *)
NotWritten(f, file, content) ==
  /\ \/ UNCHANGED <<file, torn>>
     \/ file' = content /\ torn' = torn \union {f}
  /\ UNCHANGED <<unsaved, apart>>

SaveTrades ==
  /\ pc = "trades" /\ pc' = "history"
  /\ Written("trades", tradesFile, trades) \/ NotWritten("trades", tradesFile, trades)
  /\ UNCHANGED <<memory, historyFile, closings, exempt, calls, crashes>>

SaveHistory ==
  /\ pc = "history" /\ pc' = "idle"
  /\ Written("history", historyFile, history) \/ NotWritten("history", historyFile, history)
  /\ UNCHANGED <<memory, tradesFile, closings, exempt, calls, crashes>>

-----------------------------------------------------------------------------
(* The process stops, maybe in the middle of a write.  A change that only  *)
(* one of the files has, since a write failed or had not been made, leaves *)
(* its trade and the history at odds, and a cut file may do so for any.    *)
Crash ==
  /\ pc # "down" /\ crashes < MaxCrashes
  /\ pc' = "down" /\ crashes' = crashes + 1
  /\ \/ UNCHANGED disk
     \/ pc = "trades" /\ tradesFile' = trades /\ torn' = torn \union {pc} /\ UNCHANGED historyFile
     \/ pc = "history" /\ historyFile' = history /\ torn' = torn \union {pc} /\ UNCHANGED tradesFile
  /\ exempt' = IF torn' # {} THEN Ids ELSE exempt \union apart
  /\ trades' = NoTrades /\ history' = NoEntries /\ asNumber' = {}
  /\ unsaved' = [f \in Files |-> {}] /\ apart' = {}
  /\ UNCHANGED <<closings, calls>>

(* Mutant of _load_trades: the last row may have lost its exit alone.      *)
ReadableWithoutExit(log) ==
  {[id \in S |-> IF id \in cut THEN [log[id] EXCEPT !.exit = 0] ELSE log[id]] :
     S \in SUBSET DOMAIN log, cut \in {{}} \union {{id} : id \in DOMAIN log}}

(* Of a cut file: the rows before the cut, of which the last may have lost *)
(* its profit; of a history cut in its first row, nothing.                 *)
Readable(log) ==
  {[id \in S |-> IF id \in cut THEN [exit |-> log[id].exit, pnl |-> 0] ELSE log[id]] :
     S \in SUBSET DOMAIN log, cut \in {{}} \union {{id} : id \in DOMAIN log}}
ReadableEntries(bag) ==
  LET present == {e \in Entry : bag[e] > 0}
      parts == {b \in [present -> 0..MaxCalls] : \A e \in present : b[e] <= bag[e]}
      cut == {[e \in Entry |-> IF e \in present THEN b[e] ELSE 0] : b \in parts}
  IN cut \union {[b EXCEPT ![e] = @ + 1] : b \in cut, e \in Entry}

(* __init__: _load_trades, then _load_pnl_history.                         *)
Restart ==
  /\ pc = "down" /\ pc' = "idle"
  /\ trades' \in IF "trades" \in torn THEN Readable(tradesFile) ELSE {tradesFile}
  /\ asNumber' \in {IF ids \subseteq Numerals THEN DOMAIN trades' ELSE {} :
                      ids \in {DOMAIN tradesFile, DOMAIN trades'}}
  /\ history' \in IF "history" \in torn THEN ReadableEntries(historyFile) ELSE {historyFile}
  /\ UNCHANGED <<disk, unsaved, apart, closings, exempt, calls, crashes>>

LogNext ==
  \/ \E id \in Ids, t \in Closing \union {Open} : LogTrade(id, t) \/ UpdateTrade(id, t)
  \/ SaveTrades \/ SaveHistory
  \/ Crash \/ Restart

LogSpec == LogInit /\ [][LogNext]_logVars

-----------------------------------------------------------------------------
(* The entries of an instant at which no trade but one ever closed are     *)
(* what that trade says: its profit, once, if it is closed then, and none  *)
(* otherwise - through failed writes, crashes, restarts, updates and       *)
(* repeated calls.  Three cases are left out: a closed trade that was      *)
(* changed; a closed one logged again after a restart read its id as a     *)
(* number; and, after a crash, one of which only one of the two files has  *)
(* the last change, or any trade if a file was cut.                        *)
HistoryExact ==
  pc # "down" =>
    \A id \in Ids \ exempt, e \in Entry :
      closings[e[1]] \subseteq {id} =>
        history[e] = IF id \in DOMAIN trades /\ trades[id] = [exit |-> e[1], pnl |-> e[2]]
                     THEN 1 ELSE 0
=============================================================================
