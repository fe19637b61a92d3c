------------------------ MODULE LiveDashboard_proofs ------------------------
(***************************************************************************)
(* What holds of the live dashboard for any number of clients and          *)
(* requests and any number of changes of the trade log: the types, that    *)
(* the published figures fit together (Coherent), and that a broadcast     *)
(* never disconnects a client that listens (ListenersRegistered).          *)
(***************************************************************************)
EXTENDS LiveDashboard, FiniteSetTheorems, TLAPS

-----------------------------------------------------------------------------
(* The type invariant of LiveDashboard is inductive by itself.             *)

(* Reading the metrics and going through the trades change one figure of   *)
(* one task.                                                               *)
LEMMA ReadFigures ==
  ASSUME NEW t \in Tasks, NEW v \in Versions, NEW p \in Versions \union {Missing},
         read \in [Tasks -> Figures]
  PROVE  /\ [read EXCEPT ![t].nav = v] \in [Tasks -> Figures]
         /\ [read EXCEPT ![t].positions = p] \in [Tasks -> Figures]
         /\ [read EXCEPT ![t].nav = v][t].nav = v
         /\ [read EXCEPT ![t].positions = p][t].nav = read[t].nav
         /\ [read EXCEPT ![t].positions = p][t].positions = p
         /\ \A u \in Tasks \ {t} :
              /\ [read EXCEPT ![t].nav = v][u] = read[u]
              /\ [read EXCEPT ![t].positions = p][u] = read[u]
  BY DEF Figures

LEMMA SizeOfConnections ==
  ASSUME TypeOK
  PROVE  Cardinality(connections) \in Nat
<1>1. IsFiniteSet(connections)
  BY DashboardAssumption, FS_Subset DEF TypeOK
<1> QED
  BY <1>1, FS_CardinalityType

LEMMA TypeStep ==
  ASSUME TypeOK, [Next]_vars
  PROVE  TypeOK'
<1> USE DEF TypeOK
<1>0. Updater \in Tasks /\ Requests \subseteq Tasks /\ NoFigures \in Figures
  BY DashboardAssumption DEF Tasks, NoFigures, Figures, Versions
<1>1. ASSUME NEW t \in Tasks, ReadMetrics(t)
      PROVE  TypeOK'
  <2>1. read' \in [Tasks -> Figures]
    BY <1>1, ReadFigures DEF ReadMetrics
  <2> QED
    BY <1>1, <2>1 DEF ReadMetrics, GoTo, clients, round, figures
<1>2. ASSUME NEW t \in Tasks, CalculateRisk(t)
      PROVE  TypeOK'
  <2>0. PICK p \in Versions \union {Missing} : read' = [read EXCEPT ![t].positions = p]
    BY <1>2 DEF CalculateRisk
  <2>1. read' \in [Tasks -> Figures]
    <3>1. [read EXCEPT ![t].positions = p] \in [Tasks -> Figures]
      BY ReadFigures, <1>0
    <3>2. QED BY <2>0, <3>1
  <2> QED
    BY <1>2, <2>1 DEF CalculateRisk, GoTo, clients, round, figures
<1>3. ASSUME NEW t \in Tasks, WriteFigures(t)
      PROVE  TypeOK'
  BY <1>0, <1>3 DEF WriteFigures, GoTo, clients, round, figures
<1>4. ASSUME NEW t \in Tasks, RefreshFails(t)
      PROVE  TypeOK'
  BY <1>0, <1>4 DEF RefreshFails, GoTo, clients, round, figures
<1>5. ASSUME NEW bad, EndRound(bad),
             UNCHANGED <<latest, figures, socket, endpoint, quiet>>, size' \in Nat
      PROVE  TypeOK'
  BY <1>0, <1>5 DEF EndRound, GoTo, figures
<1>6. ASSUME NEW w \in Clients, NEW left \in SUBSET Clients, NEW bad \in SUBSET Clients,
             NEW due \in SUBSET Clients, Send(w, left, bad, due),
             UNCHANGED <<latest, figures, socket, endpoint, quiet>>, size' \in Nat
      PROVE  TypeOK'
  BY <1>0, <1>6 DEF Send, GoTo, figures
<1>7. CASE StartBroadcast
  <2>1. size' \in Nat
    BY <1>7, SizeOfConnections DEF StartBroadcast
  <2>2. UNCHANGED <<latest, figures, socket, endpoint, quiet>>
    BY <1>7 DEF StartBroadcast
  <2>3. CASE EndRound({})
    BY <1>5, <2>1, <2>2, <2>3
  <2>4. ASSUME NEW w \in connections,
               Send(w, connections, {}, {v \in connections : socket[v] = "open"})
        PROVE  TypeOK'
    <3> DEFINE due == {v \in connections : socket[v] = "open"}
    <3>1. connections \in SUBSET Clients /\ due \in SUBSET Clients /\ w \in Clients
      OBVIOUS
    <3> QED
      BY <1>6, <2>1, <2>2, <2>4, <3>1
  <2> QED
    BY <1>7, <2>3, <2>4 DEF StartBroadcast
<1>8. CASE ContinueBroadcast
  BY <1>5, <1>6, <1>8 DEF ContinueBroadcast
<1>9. CASE SetChanged
  BY <1>5, <1>9 DEF SetChanged
<1>10. ASSUME NEW w \in Clients, Arrive(w) \/ Serve(w) \/ ClientCloses(w) \/ Forget(w)
       PROVE  TypeOK'
  <2>1. CASE Arrive(w)
    BY <2>1 DEF Arrive, figures, round
  <2>2. CASE Connect(w)
    BY <2>2 DEF Connect, Add, figures
  <2>3. CASE AcceptFails(w) \/ Greeted(w) \/ GreetingFails(w)
    BY <2>3 DEF AcceptFails, Greeted, GreetingFails, figures, round
  <2>4. CASE HangUp(w)
    BY <2>4 DEF HangUp, Discard, figures
  <2>5. CASE ClientCloses(w)
    BY <1>0, <2>5 DEF ClientCloses, figures
  <2>6. CASE Forget(w)
    BY <2>6 DEF Forget, figures, round
  <2> QED
    BY <1>10, <2>1, <2>2, <2>3, <2>4, <2>5, <2>6 DEF Serve
<1>11. CASE TradeLogged
  BY <1>11, DashboardAssumption DEF TradeLogged, Versions, figures, round, clients
<1>12. CASE ComeToRest
  BY <1>12 DEF ComeToRest, figures, round, clients
<1>13. CASE UNCHANGED vars
  BY <1>13 DEF vars, figures, round, clients
<1> QED
  BY <1>0, <1>1, <1>2, <1>3, <1>4, <1>7, <1>8, <1>9, <1>10, <1>11, <1>12, <1>13
     DEF Next, Update, Refresh

(* Every variable keeps its type, and nothing is left of a broadcast round *)
(* when it is over (TypeOK).                                               *)
THEOREM TypeCorrect == Spec => []TypeOK
<1>1. Init => TypeOK
  <2>1. 0 \in Versions /\ NoFigures \in Figures
    BY DashboardAssumption DEF Versions, NoFigures, Figures
  <2>2. 0 \in Nat
    OBVIOUS
  <2> QED
    BY Zenon, <2>1, <2>2 DEF Init, TypeOK
<1>2. TypeOK /\ [Next]_vars => TypeOK'
  BY TypeStep
<1> QED
  BY <1>1, <1>2, PTL DEF Spec

-----------------------------------------------------------------------------
(* What makes Coherent inductive: a refresh reads the positions after the  *)
(* metrics, or finds none, and the trade log only moves on.                *)
Computed ==
  /\ Coherent
  /\ \A t \in Tasks : /\ read[t].nav <= latest
                      /\ at[t] = "write" => FitTogether(read[t])

LEMMA FiguresAreNumbers ==
  ASSUME TypeOK
  PROVE  /\ latest \in Nat
         /\ \A t \in Tasks : read[t].nav \in Nat
<1>1. Versions \subseteq Nat
  BY DashboardAssumption DEF Versions
<1> QED
  BY <1>1 DEF TypeOK, Figures

(* A step that shows some clients the state and leaves the figures alone.  *)
LEMMA ShowsState ==
  ASSUME TypeOK, Computed, UNCHANGED <<latest, figures>>,
         \A t \in Tasks : at'[t] = "write" => at[t] = "write",
         \A w \in Clients : view'[w] \in {view[w], state, NoFigures}
  PROVE  Computed'
<1>1. FitTogether(NoFigures)
  BY DEF NoFigures, FitTogether
<1>2. ASSUME NEW w \in Clients
      PROVE  FitTogether(view'[w])
  BY <1>1 DEF Computed, Coherent
<1> QED
  BY <1>2 DEF Computed, Coherent, figures

LEMMA ComputedStep ==
  ASSUME TypeOK, Computed, [Next]_vars
  PROVE  Computed'
<1>0. Updater \in Tasks /\ Requests \subseteq Tasks
  BY DEF Tasks
<1>1. ASSUME NEW t \in Tasks, ReadMetrics(t)
      PROVE  Computed'
  <2>1. /\ read'[t].nav = latest
        /\ \A u \in Tasks \ {t} : read'[u] = read[u] /\ at'[u] = at[u]
        /\ at'[t] = "risk"
    BY <1>1, ReadFigures DEF ReadMetrics, GoTo, TypeOK
  <2>2. UNCHANGED <<latest, state, view>>
    BY <1>1 DEF ReadMetrics, clients
  <2>3. ASSUME NEW u \in Tasks
        PROVE  /\ read'[u].nav <= latest
               /\ at'[u] = "write" => FitTogether(read'[u])
    BY <2>1, FiguresAreNumbers DEF Computed
  <2> QED
    BY <2>2, <2>3 DEF Computed, Coherent
<1>2. ASSUME NEW t \in Tasks, CalculateRisk(t)
      PROVE  Computed'
  <2>1. /\ read'[t].nav = read[t].nav
        /\ read'[t].positions \in {latest, Missing}
        /\ \A u \in Tasks \ {t} : read'[u] = read[u] /\ at'[u] = at[u]
    <3>1. PICK p \in {latest, Missing} : read' = [read EXCEPT ![t].positions = p]
      BY <1>2 DEF CalculateRisk
    <3>2. p \in Versions \union {Missing} /\ latest \in Versions
      BY <3>1 DEF TypeOK
    <3>3. /\ [read EXCEPT ![t].positions = p][t].nav = read[t].nav
          /\ [read EXCEPT ![t].positions = p][t].positions = p
          /\ \A u \in Tasks \ {t} : [read EXCEPT ![t].positions = p][u] = read[u]
      BY <3>2, ReadFigures DEF TypeOK
    <3>4. QED BY <1>2, <3>1, <3>3 DEF CalculateRisk, GoTo, TypeOK
  <2>2. UNCHANGED <<latest, state, view>>
    BY <1>2 DEF CalculateRisk, clients
  <2>3. ASSUME NEW u \in Tasks
        PROVE  /\ read'[u].nav <= latest
               /\ at'[u] = "write" => FitTogether(read'[u])
    BY <2>1, FiguresAreNumbers DEF Computed, FitTogether
  <2> QED
    BY <2>2, <2>3 DEF Computed, Coherent
<1>3. ASSUME NEW t \in Tasks, WriteFigures(t) \/ RefreshFails(t)
      PROVE  Computed'
  <2>1. /\ read'[t] = NoFigures
        /\ at'[t] # "write"
        /\ \A u \in Tasks \ {t} : read'[u] = read[u] /\ at'[u] = at[u]
    BY <1>3 DEF WriteFigures, RefreshFails, GoTo, TypeOK
  <2>2. UNCHANGED <<latest, view>>
    BY <1>3 DEF WriteFigures, RefreshFails, clients
  <2>3. ASSUME NEW u \in Tasks
        PROVE  /\ read'[u].nav <= latest
               /\ at'[u] = "write" => FitTogether(read'[u])
    BY <2>1, FiguresAreNumbers DEF Computed, NoFigures
  <2>4. state' = state \/ (at[t] = "write" /\ state' = read[t])
    BY <1>3 DEF WriteFigures, RefreshFails
  <2>5. FitTogether(state')
    BY <2>4 DEF Computed, Coherent
  <2> QED
    BY <2>2, <2>3, <2>5 DEF Computed, Coherent
<1>4. ASSUME StartBroadcast \/ ContinueBroadcast \/ SetChanged
      PROVE  Computed'
  <2>1. ASSUME NEW bad, EndRound(bad)
        PROVE  /\ \A t \in Tasks : at'[t] = "write" => at[t] = "write"
               /\ \A w \in Clients : view'[w] = view[w]
    BY <2>1 DEF EndRound, GoTo, TypeOK
  <2>2. ASSUME NEW w \in Clients, NEW left, NEW bad, NEW due, Send(w, left, bad, due)
        PROVE  /\ \A t \in Tasks : at'[t] = "write" => at[t] = "write"
               /\ \A v \in Clients : view'[v] \in {view[v], state}
    BY <2>2 DEF Send, GoTo, TypeOK
  <2>3. /\ \A t \in Tasks : at'[t] = "write" => at[t] = "write"
        /\ \A v \in Clients : view'[v] \in {view[v], state, NoFigures}
    BY <1>4, <2>1, <2>2 DEF StartBroadcast, ContinueBroadcast, SetChanged, TypeOK
  <2> QED
    BY <1>4, <2>3, ShowsState DEF StartBroadcast, ContinueBroadcast, SetChanged
<1>5. ASSUME NEW w \in Clients, Arrive(w) \/ Serve(w) \/ ClientCloses(w) \/ Forget(w)
      PROVE  Computed'
  <2>1. UNCHANGED <<latest, figures, at>>
    BY <1>5 DEF Arrive, Serve, Connect, AcceptFails, Greeted, GreetingFails, HangUp,
                ClientCloses, Forget
  <2>2. \A v \in Clients : view'[v] \in {view[v], state, NoFigures}
    BY <1>5 DEF Arrive, Serve, Connect, AcceptFails, Greeted, GreetingFails, HangUp,
                ClientCloses, Forget, TypeOK
  <2> QED
    BY <2>1, <2>2, ShowsState
<1>6. CASE TradeLogged
  <2>1. latest' = latest + 1 /\ UNCHANGED <<state, read, at, view>>
    BY <1>6 DEF TradeLogged, figures, clients
  <2>2. ASSUME NEW u \in Tasks
        PROVE  read[u].nav <= latest'
    BY <2>1, FiguresAreNumbers DEF Computed
  <2> QED
    BY <2>1, <2>2 DEF Computed, Coherent
<1>7. CASE ComeToRest \/ UNCHANGED vars
  BY <1>7, ShowsState DEF ComeToRest, vars, clients
<1> QED
  BY <1>0, <1>1, <1>2, <1>3, <1>4, <1>5, <1>6, <1>7 DEF Next, Update, Refresh

(* The positions published or shown to a client are never older than the   *)
(* NAV beside them; at worst they are missing (Coherent).                  *)
THEOREM FiguresCoherent == Spec => []Coherent
<1>1. Init => Computed
  BY DEF Init, Computed, Coherent, FitTogether, NoFigures
<1>2. TypeOK /\ Computed /\ [Next]_vars => Computed'
  BY ComputedStep
<1>3. Computed => Coherent
  BY DEF Computed
<1> QED
  BY <1>1, <1>2, <1>3, TypeCorrect, PTL DEF Spec

-----------------------------------------------------------------------------
(* What makes ListenersRegistered inductive: a round only disconnects      *)
(* clients that are closed, and a WebSocket object that is used again is   *)
(* no longer referred to.                                                  *)
Registered ==
  /\ ListenersRegistered
  /\ todo \subseteq connections
  /\ \A w \in stale : socket[w] # "open"
  /\ \A w \in Clients : endpoint[w] = "away" => w \notin connections \union stale

LEMMA RegisteredStep ==
  ASSUME TypeOK, Registered, [Next]_vars
  PROVE  Registered'
<1> USE DEF Registered, ListenersRegistered
<1>1. ASSUME NEW t \in Tasks, Refresh(t) \/ RefreshFails(t)
      PROVE  Registered'
  BY <1>1 DEF Refresh, ReadMetrics, CalculateRisk, WriteFigures, RefreshFails, round, clients
<1>2. ASSUME NEW bad \in {{}, stale}, EndRound(bad), UNCHANGED <<socket, endpoint>>
      PROVE  Registered'
  BY <1>2 DEF EndRound, TypeOK
<1>3. ASSUME NEW left \in SUBSET connections, NEW w \in left, NEW bad \in {{}, stale}, NEW due,
             Send(w, left, bad, due), UNCHANGED <<socket, endpoint>>
      PROVE  Registered'
  <2>1. connections' = connections /\ todo' \subseteq connections /\ w \in Clients
    BY <1>3 DEF Send, TypeOK
  <2>2. stale' = bad \/ (stale' = bad \union {w} /\ socket[w] # "open")
    BY <1>3 DEF Send
  <2> QED
    BY <1>3, <2>1, <2>2 DEF TypeOK
<1>4. CASE StartBroadcast
  <2> DEFINE due == {v \in connections : socket[v] = "open"}
  <2>1. connections \in SUBSET connections /\ {} \in {{}, stale} /\ UNCHANGED <<socket, endpoint>>
    BY <1>4 DEF StartBroadcast
  <2>2. ASSUME NEW w \in connections, Send(w, connections, {}, due)
        PROVE  Registered'
    BY <1>3, <2>1, <2>2
  <2> QED
    BY <1>2, <1>4, <2>1, <2>2 DEF StartBroadcast
<1>5. CASE ContinueBroadcast \/ SetChanged
  BY <1>2, <1>3, <1>5 DEF ContinueBroadcast, SetChanged
<1>6. ASSUME NEW w \in Clients, Arrive(w) \/ Serve(w) \/ ClientCloses(w) \/ Forget(w)
      PROVE  Registered'
  <2>1. CASE Arrive(w)
    BY <2>1 DEF Arrive, round, TypeOK
  <2>2. CASE Connect(w)
    BY <2>2 DEF Connect, Add, TypeOK
  <2>3. CASE AcceptFails(w) \/ Greeted(w) \/ GreetingFails(w)
    BY <2>3 DEF AcceptFails, Greeted, GreetingFails, round, TypeOK
  <2>4. CASE HangUp(w)
    BY <2>4 DEF HangUp, Discard, TypeOK
  <2>5. CASE ClientCloses(w)
    BY <2>5 DEF ClientCloses, TypeOK
  <2>6. CASE Forget(w)
    BY <2>6 DEF Forget, round, TypeOK
  <2> QED
    BY <1>6, <2>1, <2>2, <2>3, <2>4, <2>5, <2>6 DEF Serve
<1>7. CASE TradeLogged \/ ComeToRest \/ UNCHANGED vars
  BY <1>7 DEF TradeLogged, ComeToRest, vars, round, clients
<1> QED
  BY <1>1, <1>4, <1>5, <1>6, <1>7 DEF Next, Update, Tasks

(* Every client that is being served and has not closed is registered, so  *)
(* that no broadcast ever disconnects it (ListenersRegistered).            *)
THEOREM ListenersStay == Spec => []ListenersRegistered
<1>1. Init => Registered
  BY DEF Init, Registered, ListenersRegistered
<1>2. TypeOK /\ Registered /\ [Next]_vars => Registered'
  BY RegisteredStep
<1>3. Registered => ListenersRegistered
  BY DEF Registered
<1> QED
  BY <1>1, <1>2, <1>3, TypeCorrect, PTL DEF Spec
=============================================================================
