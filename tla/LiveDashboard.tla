---------------------------- MODULE LiveDashboard ----------------------------
(***************************************************************************)
(* The live dashboard (production/dashboard/api/api_server.py): the state  *)
(* StatePublisher keeps, the tasks that refresh it, and the WebSocket      *)
(* clients it is broadcast to.  All of it runs on one event loop, which    *)
(* switches tasks only where one awaits:                                   *)
(*                                                                         *)
(*   GET /api/state       idle -> risk -> write -> idle                    *)
(*   update_market_data   idle -> risk -> write -> rest -> sending -> idle *)
(*   websocket_endpoint   away -> accepting -> greeting -> listening       *)
(*                                                            -> gone      *)
(*                                                                         *)
(* "risk" is calculate_real_risk in a worker thread.  state_lock is never  *)
(* held across an await, so it excludes nobody.  Of the published state    *)
(* the model keeps two figures that are written together, each as the      *)
(* version of the trade log it was computed from: nav, which daily_pnl and *)
(* pnl follow, and positions.  The risk is computed with the positions and *)
(* falls back to zero where they fall back to an empty list.               *)
(***************************************************************************)
EXTENDS Integers, FiniteSets

CONSTANTS Clients,     \* WebSocket objects
          Requests,    \* tasks that serve GET /api/state
          Updater,     \* the task update_market_data
          MaxVersion   \* bound on the changes of the trade log

ASSUME DashboardAssumption ==
  /\ IsFiniteSet(Clients)
  /\ Updater \notin Requests
  /\ MaxVersion \in Nat

VARIABLES latest,       \* version of the trade log
          state,        \* publisher.state
          connections,  \* publisher.connections
          at,           \* where each refreshing task is
          read,         \* the figures a task has in hand, if any
          todo,         \* broadcast: clients its iteration has yet to visit
          size,         \* broadcast: size of connections when the last one began
          stale,        \* broadcast: clients a send to failed
          socket,       \* the socket of each client
          endpoint,     \* where the task that serves the client is
          view,         \* the figures an open client received last
          quiet,        \* the environment has come to rest, for good
          owed          \* history: open clients this round has not reached

Tasks == Requests \union {Updater}
figures == <<state, read>>
round == <<todo, size, stale, owed>>
clients == <<socket, endpoint, view>>
vars == <<latest, figures, connections, at, round, clients, quiet>>

Versions == 0..MaxVersion
Missing == -1  \* the empty list shown for positions that were not found
Figures == [nav : Versions, positions : Versions \union {Missing}]
NoFigures == [nav |-> 0, positions |-> 0]

TypeOK ==
  /\ latest \in Versions
  /\ state \in Figures
  /\ connections \subseteq Clients
  /\ at \in [Tasks -> {"idle", "risk", "write", "rest", "sending"}]
  /\ read \in [Tasks -> Figures]
  /\ todo \subseteq Clients
  /\ size \in Nat
  /\ stale \subseteq Clients
  /\ socket \in [Clients -> {"none", "open", "closed"}]
  /\ endpoint \in [Clients -> {"away", "accepting", "greeting", "listening", "gone"}]
  /\ view \in [Clients -> Figures]
  /\ quiet \in BOOLEAN
  /\ owed \subseteq Clients
  /\ at[Updater] # "sending" => todo = {} /\ stale = {}

Init ==
  /\ latest = 0
  /\ state = NoFigures
  /\ connections = {}
  /\ at = [t \in Tasks |-> "idle"]
  /\ read = [t \in Tasks |-> NoFigures]
  /\ todo = {}
  /\ size = 0
  /\ stale = {}
  /\ socket = [w \in Clients |-> "none"]
  /\ endpoint = [w \in Clients |-> "away"]
  /\ view = [w \in Clients |-> NoFigures]
  /\ quiet = FALSE
  /\ owed = {}

GoTo(t, step) == at' = [at EXCEPT ![t] = step]

-----------------------------------------------------------------------------
(* A refresh reads the trade metrics, awaits the thread that goes through  *)
(* the trades, and writes what both gave in one go.                        *)
ReadMetrics(t) ==
  /\ at[t] = "idle"
  /\ t = Updater \/ ~quiet
  /\ read' = [read EXCEPT ![t].nav = latest]
  /\ GoTo(t, "risk")
  /\ UNCHANGED <<latest, state, connections, round, clients, quiet>>

(* calculate_real_risk swallows its exceptions and then returns what it    *)
(* has: no positions, when collecting them failed or when the first of its *)
(* two passes over the trades found none.                                  *)
CalculateRisk(t) ==
  /\ at[t] = "risk"
  /\ \/ read' = [read EXCEPT ![t].positions = latest]
     \/ /\ ~quiet
        /\ read' = [read EXCEPT ![t].positions = Missing]
  /\ GoTo(t, "write")
  /\ UNCHANGED <<latest, state, connections, round, clients, quiet>>

(* Mutant: the positions are left as they are when a refresh writes.       *)
WriteNavOnly(t) ==
  /\ at[t] = "write"
  /\ state' = [state EXCEPT !.nav = read[t].nav]
  /\ read' = [read EXCEPT ![t] = NoFigures]
  /\ GoTo(t, IF t = Updater THEN "rest" ELSE "idle")
  /\ UNCHANGED <<latest, connections, round, clients, quiet>>

WriteFigures(t) ==
  /\ at[t] = "write"
  /\ state' = read[t]
  /\ read' = [read EXCEPT ![t] = NoFigures]
  /\ GoTo(t, IF t = Updater THEN "rest" ELSE "idle")
  /\ UNCHANGED <<latest, connections, round, clients, quiet>>

(* An exception outside calculate_real_risk (its thread does not start) is *)
(* swallowed too: the request answers with the state as it is, the updater *)
(* begins again.                                                           *)
RefreshFails(t) ==
  /\ at[t] = "risk"
  /\ ~quiet
  /\ read' = [read EXCEPT ![t] = NoFigures]
  /\ GoTo(t, "idle")
  /\ UNCHANGED <<latest, state, connections, round, clients, quiet>>

-----------------------------------------------------------------------------
(* Mutants: the stale clients are collected and not disconnected; they are *)
(* collected in a list that outlives the round.                            *)
EndRoundKeepingStale(bad) ==
  /\ connections' = connections
  /\ todo' = {}
  /\ stale' = {}
  /\ owed' = {}
  /\ GoTo(Updater, "idle")
  /\ UNCHANGED view

EndRoundWithoutReset(bad) ==
  /\ connections' = connections \ bad
  /\ todo' = {}
  /\ stale' = stale
  /\ owed' = {}
  /\ GoTo(Updater, "idle")
  /\ UNCHANGED view

(* broadcast iterates over the set of connections and awaits each send.    *)
(* A send to a closed socket raises and makes the client stale; when the   *)
(* iteration is over the stale ones are disconnected.                      *)
EndRound(bad) ==
  /\ connections' = connections \ bad
  /\ todo' = {}
  /\ stale' = {}
  /\ owed' = {}
  /\ GoTo(Updater, "idle")
  /\ UNCHANGED view

(* Mutant: the exception of a send ends the round.                         *)
SendStopping(w, left, bad, due) ==
  \/ /\ socket[w] = "open"
     /\ todo' = left \ {w}
     /\ owed' = due \ {w}
     /\ view' = [view EXCEPT ![w] = state]
     /\ stale' = bad
     /\ GoTo(Updater, "sending")
     /\ UNCHANGED connections
  \/ /\ socket[w] # "open"
     /\ EndRound({})

Send(w, left, bad, due) ==
  /\ todo' = left \ {w}
  /\ owed' = due \ {w}
  /\ \/ /\ socket[w] = "open"
        /\ view' = [view EXCEPT ![w] = state]
        /\ stale' = bad
     \/ /\ socket[w] # "open"
        /\ stale' = bad \union {w}
        /\ UNCHANGED view
  /\ GoTo(Updater, "sending")
  /\ UNCHANGED connections

StartBroadcast ==
  /\ at[Updater] = "rest"
  /\ size' = Cardinality(connections)
  /\ \/ /\ connections = {}
        /\ EndRound({})
     \/ \E w \in connections :
          Send(w, connections, {}, {v \in connections : socket[v] = "open"})
  /\ UNCHANGED <<latest, figures, socket, endpoint, quiet>>

ContinueBroadcast ==
  /\ at[Updater] = "sending"
  /\ Cardinality(connections) = size
  /\ \/ /\ todo = {}
        /\ EndRound(stale)
     \/ \E w \in todo : Send(w, todo, stale, owed)
  /\ UNCHANGED <<latest, figures, size, socket, endpoint, quiet>>

(* Mutant: the clients that the failed round did not reach are let go.     *)
SetChangedDroppingRest ==
  /\ at[Updater] = "sending"
  /\ Cardinality(connections) # size
  /\ EndRound(todo)
  /\ UNCHANGED <<latest, figures, size, socket, endpoint, quiet>>

(* A set that changed its size under the iteration makes it raise; the     *)
(* round is over, and nobody is disconnected.                              *)
SetChanged ==
  /\ at[Updater] = "sending"
  /\ Cardinality(connections) # size
  /\ EndRound({})
  /\ UNCHANGED <<latest, figures, size, socket, endpoint, quiet>>

-----------------------------------------------------------------------------
(* A set that grows may be laid out anew, and an iteration that goes on    *)
(* over it then visits any of its members.                                 *)
Add(w) ==
  /\ connections' = connections \union {w}
  /\ IF at[Updater] = "sending" THEN todo' \in SUBSET connections' ELSE UNCHANGED todo

Discard(w) ==
  /\ connections' = connections \ {w}
  /\ todo' = todo \ {w}
  /\ owed' = owed \ {w}

Arrive(w) ==
  /\ endpoint[w] = "away"
  /\ ~quiet
  /\ socket' = [socket EXCEPT ![w] = "open"]
  /\ endpoint' = [endpoint EXCEPT ![w] = "accepting"]
  /\ UNCHANGED <<latest, figures, connections, at, round, view, quiet>>

(* connect: accept the socket, register it, send it the state.             *)
Connect(w) ==
  /\ endpoint[w] = "accepting"
  /\ Add(w)
  /\ view' = IF socket[w] = "open" THEN [view EXCEPT ![w] = state] ELSE view
  /\ endpoint' = [endpoint EXCEPT ![w] = "greeting"]
  /\ UNCHANGED <<latest, figures, at, size, stale, owed, socket, quiet>>

AcceptFails(w) ==
  /\ endpoint[w] = "accepting"
  /\ socket[w] = "closed"
  /\ endpoint' = [endpoint EXCEPT ![w] = "gone"]
  /\ UNCHANGED <<latest, figures, connections, at, round, socket, view, quiet>>

Greeted(w) ==
  /\ endpoint[w] = "greeting"
  /\ endpoint' = [endpoint EXCEPT ![w] = "listening"]
  /\ UNCHANGED <<latest, figures, connections, at, round, socket, view, quiet>>

(* The exception of a first send leaves the endpoint from outside its try, *)
(* and the socket stays registered.                                        *)
GreetingFails(w) ==
  /\ endpoint[w] = "greeting"
  /\ socket[w] = "closed"
  /\ endpoint' = [endpoint EXCEPT ![w] = "gone"]
  /\ UNCHANGED <<latest, figures, connections, at, round, socket, view, quiet>>

(* receive_text raises once the client is gone.                            *)
HangUp(w) ==
  /\ endpoint[w] = "listening"
  /\ socket[w] = "closed"
  /\ Discard(w)
  /\ endpoint' = [endpoint EXCEPT ![w] = "gone"]
  /\ UNCHANGED <<latest, figures, at, size, stale, socket, view, quiet>>

ClientCloses(w) ==
  /\ socket[w] = "open"
  /\ ~quiet
  /\ socket' = [socket EXCEPT ![w] = "closed"]
  /\ view' = [view EXCEPT ![w] = NoFigures]
  /\ owed' = owed \ {w}
  /\ UNCHANGED <<latest, figures, connections, at, todo, size, stale, endpoint, quiet>>

(* The model uses the WebSocket object again when nothing refers to it.    *)
Forget(w) ==
  /\ endpoint[w] = "gone"
  /\ w \notin connections \union todo \union stale
  /\ socket' = [socket EXCEPT ![w] = "none"]
  /\ endpoint' = [endpoint EXCEPT ![w] = "away"]
  /\ UNCHANGED <<latest, figures, connections, at, round, view, quiet>>

TradeLogged ==
  /\ latest < MaxVersion
  /\ ~quiet
  /\ latest' = latest + 1
  /\ UNCHANGED <<figures, connections, at, round, clients, quiet>>

ComeToRest ==
  /\ ~quiet
  /\ quiet' = TRUE
  /\ UNCHANGED <<latest, figures, connections, at, round, clients>>

Refresh(t) == ReadMetrics(t) \/ CalculateRisk(t) \/ WriteFigures(t)

Update ==
  \/ Refresh(Updater)
  \/ StartBroadcast
  \/ ContinueBroadcast
  \/ SetChanged

Serve(w) ==
  \/ Connect(w) \/ AcceptFails(w)
  \/ Greeted(w) \/ GreetingFails(w)
  \/ HangUp(w)

Next ==
  \/ Update
  \/ \E t \in Requests : Refresh(t)
  \/ \E t \in Tasks : RefreshFails(t)
  \/ \E w \in Clients : Arrive(w) \/ Serve(w) \/ ClientCloses(w) \/ Forget(w)
  \/ TradeLogged
  \/ ComeToRest

Spec == Init /\ [][Next]_vars

(* The event loop runs every task that can go on, and threads finish.      *)
FairSpec ==
  /\ Spec
  /\ WF_vars(Update)
  /\ \A t \in Requests : WF_vars(Refresh(t))
  /\ \A w \in Clients : WF_vars(Serve(w))

-----------------------------------------------------------------------------
(* Whatever refreshes overlap, the positions published or shown to any     *)
(* client are never older than the NAV beside them: no mix of an older     *)
(* refresh with a newer one is ever visible.  A calculation that failed    *)
(* puts an empty list beside the new NAV, never the positions of before.   *)
FitTogether(shown) == shown.positions = Missing \/ shown.nav <= shown.positions

Coherent ==
  /\ FitTogether(state)
  /\ \A w \in Clients : FitTogether(view[w])

(* A client that is being served and has not closed is registered: no      *)
(* broadcast, failed or not, ever disconnects a client that listens.       *)
ListenersRegistered ==
  \A w \in Clients :
    endpoint[w] \in {"greeting", "listening"} /\ socket[w] = "open" => w \in connections

(* When the environment comes to rest, every client that listens is shown  *)
(* the newest figures in the end, and for good, although a refresh that    *)
(* began earlier may still overwrite newer figures.                        *)
ClientsConverge ==
  <>[]quiet =>
    <>[](\A w \in Clients :
           endpoint[w] = "listening" /\ socket[w] = "open" =>
             view[w] = [nav |-> latest, positions |-> latest])

(* No closed socket stays registered for ever, also one whose endpoint     *)
(* ended without disconnecting it.                                         *)
ClosedForgotten ==
  <>[]quiet =>
    <>[](\A w \in Clients : w \in connections => socket[w] = "open" /\ endpoint[w] # "gone")

(* "Broadcast to all connected clients": when a round ends, it has reached *)
(* every client that was registered, and stayed open, throughout.          *)
BroadcastReachesAll ==
  [][at[Updater] = "sending" /\ at'[Updater] = "idle" => owed = {}]_vars
=============================================================================
