---------------------------- MODULE MarketStream ----------------------------
(***************************************************************************)
(* NSEWebSocketStream (production/src/execution/live/market_stream.py): a  *)
(* WebSocket connection that reconnects by itself, as main.run_live drives *)
(* it - connect() in a loop, five seconds apart.                           *)
(*                                                                         *)
(* The task that runs connect() gives way to others where it awaits; `pc'  *)
(* names the await it is at.  Another task may call stop(), which awaits   *)
(* the closing of the socket before it clears is_connected.  The network   *)
(* and the server may fail at any time.                                    *)
(*                                                                         *)
(* connect() never reaches its branch "Max reconnection attempts reached": *)
(* inside the loop the attempts are always below the maximum.              *)
(***************************************************************************)
EXTENDS BarBuilder

CONSTANT MaxReconnectAttempts  \* max_reconnect_attempts

ASSUME StreamAssumption == MaxReconnectAttempts \in Nat \ {0}

VARIABLES pc,                  \* where the connecting task is
          reconnect_attempts,
          is_connected,
          ws,                  \* the socket the stream holds
          stopping,            \* a stop() awaits the closing of the socket
          server_up,           \* the server accepts and keeps connections
          stopped,             \* history: a stop() has closed an open socket
          failures             \* history: attempts failed since one succeeded

link == <<reconnect_attempts, is_connected, ws>>
vars == <<bars, pc, link, stopping, server_up, stopped, failures>>

TypeOK ==
  /\ BarsTypeOK
  /\ pc \in {"asleep", "connecting", "subscribing", "receiving", "backoff"}
  /\ reconnect_attempts \in 0..MaxReconnectAttempts
  /\ is_connected \in BOOLEAN
  /\ ws \in {"none", "open", "closed"}
  /\ stopping \in BOOLEAN
  /\ server_up \in BOOLEAN
  /\ stopped \in BOOLEAN
  /\ failures \in 0..MaxReconnectAttempts

Init ==
  /\ BarsInit
  /\ pc = "asleep"
  /\ reconnect_attempts = 0
  /\ is_connected = FALSE
  /\ ws = "none"
  /\ stopping = FALSE
  /\ server_up = TRUE
  /\ stopped = FALSE
  /\ failures = 0

-----------------------------------------------------------------------------
(* Mutant of the loop's condition: one attempt too many.                   *)
ConnectOnceMore ==
  /\ pc = "asleep"
  /\ reconnect_attempts <= MaxReconnectAttempts
  /\ pc' = "connecting"
  /\ UNCHANGED <<bars, link, stopping, server_up, stopped, failures>>

(* run_live calls connect(), which enters its loop, or returns at once.    *)
Connect ==
  /\ pc = "asleep"
  /\ reconnect_attempts < MaxReconnectAttempts
  /\ pc' = "connecting"
  /\ UNCHANGED <<bars, link, stopping, server_up, stopped, failures>>

(* Mutant: a connection does not reset the count of attempts.              *)
ConnectedKeepingCount ==
  /\ pc = "connecting"
  /\ server_up
  /\ ws' = "open"
  /\ is_connected' = TRUE
  /\ failures' = 0
  /\ pc' = "subscribing"
  /\ UNCHANGED <<bars, reconnect_attempts, stopping, server_up, stopped>>

Connected ==
  /\ pc = "connecting"
  /\ server_up
  /\ ws' = "open"
  /\ is_connected' = TRUE
  /\ reconnect_attempts' = 0
  /\ failures' = 0
  /\ pc' = "subscribing"
  /\ UNCHANGED <<bars, stopping, server_up, stopped>>

ConnectFails ==
  /\ pc = "connecting"
  /\ ~server_up
  /\ is_connected' = FALSE
  /\ failures' = failures + 1
  /\ pc' = "backoff"
  /\ UNCHANGED <<bars, reconnect_attempts, ws, stopping, server_up, stopped>>

Subscribed ==
  /\ pc = "subscribing"
  /\ ws = "open"
  /\ pc' = "receiving"
  /\ UNCHANGED <<bars, link, stopping, server_up, stopped, failures>>

(* Mutant: a failed subscription is tried again on the socket it failed on.*)
SubscribeAgain ==
  /\ pc = "subscribing"
  /\ ws = "closed"
  /\ is_connected
  /\ is_connected' = FALSE
  /\ UNCHANGED <<bars, pc, reconnect_attempts, ws, stopping, server_up, stopped, failures>>

SubscribeFails ==
  /\ pc = "subscribing"
  /\ ws = "closed"
  /\ is_connected' = FALSE
  /\ pc' = "backoff"
  /\ UNCHANGED <<bars, reconnect_attempts, ws, stopping, server_up, stopped, failures>>

Receive(s, minute) ==
  /\ pc = "receiving"
  /\ ws = "open"
  /\ Tick(s, minute)
  /\ UNCHANGED <<pc, link, stopping, server_up, stopped, failures>>

(* A message that cannot be parsed (or an item of a list, after the items  *)
(* before it) ends the session, and the socket stays open behind it.       *)
BadMessage ==
  /\ pc = "receiving"
  /\ ws = "open"
  /\ pc' = "backoff"
  /\ UNCHANGED <<bars, link, stopping, server_up, stopped, failures>>

SessionEnds ==
  /\ pc = "receiving"
  /\ ws = "closed"
  /\ pc' = "backoff"
  /\ UNCHANGED <<bars, link, stopping, server_up, stopped, failures>>

(* The end of the backoff: around the loop, or out of connect().           *)
Wake ==
  /\ pc = "backoff"
  /\ reconnect_attempts' = reconnect_attempts + 1
  /\ pc' = IF reconnect_attempts + 1 < MaxReconnectAttempts THEN "connecting" ELSE "asleep"
  /\ UNCHANGED <<bars, is_connected, ws, stopping, server_up, stopped, failures>>

-----------------------------------------------------------------------------
(* stop(), in the two parts its await divides it into.  The model makes    *)
(* one call of it that finds a socket open, and any number that do not.    *)
StopBegins ==
  /\ ~stopping
  /\ ~stopped
  /\ stopped' = (ws = "open")
  /\ stopping' = TRUE
  /\ ws' = IF ws = "none" THEN "none" ELSE "closed"
  /\ UNCHANGED <<bars, pc, reconnect_attempts, is_connected, server_up, failures>>

StopEnds ==
  /\ stopping
  /\ stopping' = FALSE
  /\ is_connected' = FALSE
  /\ UNCHANGED <<bars, pc, reconnect_attempts, ws, server_up, stopped, failures>>

(* The server goes away, with its connections, and comes back.             *)
ServerFails ==
  /\ server_up
  /\ server_up' = FALSE
  /\ ws' = IF ws = "open" THEN "closed" ELSE ws
  /\ UNCHANGED <<bars, pc, reconnect_attempts, is_connected, stopping, stopped, failures>>

ServerRecovers ==
  /\ ~server_up
  /\ server_up' = TRUE
  /\ UNCHANGED <<bars, pc, link, stopping, stopped, failures>>

(* The steps the event loop takes with the connecting task.                *)
ConnectingTask ==
  \/ Connect
  \/ Connected \/ ConnectFails
  \/ Subscribed \/ SubscribeFails
  \/ SessionEnds
  \/ Wake

Next ==
  \/ ConnectingTask
  \/ \E s \in Symbols, minute \in Minutes : Receive(s, minute)
  \/ BadMessage
  \/ StopBegins \/ StopEnds
  \/ ServerFails \/ ServerRecovers

Spec == Init /\ [][Next]_vars

(* The event loop runs a task whose await is over.                         *)
FairSpec == Spec /\ WF_vars(ConnectingTask) /\ WF_vars(StopEnds)

-----------------------------------------------------------------------------
(* connect() gives up only after as many failed attempts in a row as it is *)
(* allowed, one fewer when it had a session that ended before them.        *)
GivesUpLate ==
  [][pc # "asleep" /\ pc' = "asleep" => failures >= MaxReconnectAttempts - 1]_vars

(* While the server stays up, the stream comes back from whatever ended    *)
(* its session, unless it had given up before.                             *)
ComesBack ==
  <>[]server_up => []<>(pc = "receiving") \/ <>[](pc = "asleep")
=============================================================================
