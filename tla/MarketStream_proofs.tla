------------------------- MODULE MarketStream_proofs -------------------------
(***************************************************************************)
(* For any symbols, minutes, bounds and number of attempts: when the       *)
(* stream gives up, how often it emits a bar, and what volume its bars     *)
(* hold together.                                                          *)
(***************************************************************************)
EXTENDS MarketStream, TLAPS, FiniteSetTheorems

(* The attempts made and the failures counted since the last connection    *)
(* run together, one step apart according to where the task is.            *)
AttemptInv ==
  /\ pc \in {"asleep", "connecting", "subscribing", "receiving", "backoff"}
  /\ reconnect_attempts \in 0..MaxReconnectAttempts
  /\ failures \in 0..MaxReconnectAttempts
  /\ pc # "asleep" => reconnect_attempts < MaxReconnectAttempts
  /\ pc \in {"asleep", "connecting"} =>
       failures <= reconnect_attempts /\ reconnect_attempts <= failures + 1
  /\ pc = "backoff" =>
       reconnect_attempts <= failures /\ failures <= reconnect_attempts + 1
  /\ pc \in {"subscribing", "receiving"} => reconnect_attempts = 0 /\ failures = 0

LEMMA AttemptInductive == AttemptInv /\ [Next]_vars => AttemptInv'
<1> SUFFICES ASSUME AttemptInv, [Next]_vars PROVE AttemptInv'
  OBVIOUS
<1> USE StreamAssumption DEF AttemptInv
<1>1. CASE Connect
  BY <1>1 DEF Connect, link
<1>2. CASE Connected
  BY <1>2 DEF Connected
<1>3. CASE ConnectFails
  BY <1>3 DEF ConnectFails
<1>4. CASE Subscribed \/ SubscribeFails
  BY <1>4 DEF Subscribed, SubscribeFails, link
<1>5. CASE SessionEnds \/ BadMessage
  BY <1>5 DEF SessionEnds, BadMessage, link
<1>6. CASE Wake
  BY <1>6 DEF Wake
<1>7. ASSUME UNCHANGED <<pc, reconnect_attempts, failures>> PROVE AttemptInv'
  BY <1>7
<1>8. CASE StopBegins \/ StopEnds \/ ServerFails \/ ServerRecovers \/ UNCHANGED vars
  BY <1>7, <1>8 DEF StopBegins, StopEnds, ServerFails, ServerRecovers, vars, link
<1>9. CASE \E s \in Symbols, minute \in Minutes : Receive(s, minute)
  BY <1>7, <1>9 DEF Receive, link
<1>10. QED
  BY <1>1, <1>2, <1>3, <1>4, <1>5, <1>6, <1>8, <1>9 DEF Next, ConnectingTask

(* connect() gives up only after its attempts failed in a row.             *)
THEOREM GivesUp == Spec => GivesUpLate
<1>1. Init => AttemptInv
  BY StreamAssumption DEF Init, AttemptInv
<1>2. AttemptInv /\ [Next]_vars
      => [pc # "asleep" /\ pc' = "asleep" => failures >= MaxReconnectAttempts - 1]_vars
  <2> SUFFICES ASSUME AttemptInv, [Next]_vars, pc # "asleep", pc' = "asleep"
               PROVE  failures >= MaxReconnectAttempts - 1
    OBVIOUS
  <2>1. Wake
    BY DEF Next, ConnectingTask, Connect, Connected, ConnectFails, Subscribed,
           SubscribeFails, SessionEnds, Receive, BadMessage, StopBegins,
           StopEnds, ServerFails, ServerRecovers, vars
  <2>2. pc = "backoff" /\ reconnect_attempts + 1 >= MaxReconnectAttempts
    BY <2>1, StreamAssumption DEF Wake, AttemptInv
  <2>3. QED BY <2>2, StreamAssumption DEF AttemptInv
<1>3. QED BY <1>1, <1>2, AttemptInductive, PTL DEF Spec, GivesUpLate

-----------------------------------------------------------------------------
(* An open bar that was emitted before was opened again by a late tick.    *)
EmitInv ==
  /\ sent \in [Keys -> Nat]
  /\ late \in [Keys -> Nat]
  /\ DOMAIN current_bars \subseteq Keys
  /\ \A k \in Keys : sent[k] <= 1 + late[k]
  /\ \A k \in DOMAIN current_bars : sent[k] <= late[k]

LEMMA TickEmits ==
  ASSUME EmitInv, NEW s \in Symbols, NEW minute \in Minutes, NEW volume,
         ProcessTick(s, minute, volume)
  PROVE  EmitInv'
<1> DEFINE key == <<s, minute>>
           done == Completed(s, minute)
<1>1. /\ key \in Keys
      /\ done \subseteq DOMAIN current_bars
      /\ key \notin done
  BY BarAssumption DEF Keys, Completed
<1>2. DOMAIN current_bars' = (DOMAIN current_bars \ done) \union {key}
  BY DEF ProcessTick, With, Without, Restrict
<1>3. /\ sent' \in [Keys -> Nat]
      /\ \A k \in Keys : sent'[k] = IF k \in done THEN sent[k] + 1 ELSE sent[k]
  <2>1. sent' = [k \in Keys |-> IF k \in done THEN sent[k] + 1 ELSE sent[k]]
    BY DEF ProcessTick
  <2>2. QED BY <2>1 DEF EmitInv
<1>4. /\ late' \in [Keys -> Nat]
      /\ \A k \in Keys \ {key} : late'[k] = late[k]
      /\ late'[key] = IF sent[key] > 0 THEN late[key] + 1 ELSE late[key]
  <2>1. late' = [late EXCEPT ![key] = IF sent[key] > 0 THEN @ + 1 ELSE @]
    BY DEF ProcessTick
  <2>2. QED BY <1>1, <2>1 DEF EmitInv
<1> HIDE DEF key, done
<1>5. \A k \in Keys : sent'[k] <= 1 + late'[k]
  BY <1>1, <1>3, <1>4 DEF EmitInv
<1>6. \A k \in DOMAIN current_bars' : sent'[k] <= late'[k]
  BY <1>1, <1>2, <1>3, <1>4 DEF EmitInv
<1>7. QED BY <1>1, <1>2, <1>3, <1>4, <1>5, <1>6 DEF EmitInv

LEMMA EmitInductive == EmitInv /\ [Next]_vars => EmitInv'
<1> SUFFICES ASSUME EmitInv, [Next]_vars PROVE EmitInv'
  OBVIOUS
<1>1. UNCHANGED <<current_bars, sent, late>> => EmitInv'
  BY DEF EmitInv
<1>2. ASSUME NEW s \in Symbols, NEW minute \in Minutes, Receive(s, minute)
      PROVE  EmitInv'
  BY <1>2, TickEmits DEF Receive, Tick, CumulativeTick, TradeTick
<1>3. CASE ConnectingTask
  BY <1>1, <1>3 DEF ConnectingTask, Connect, Connected, ConnectFails, Subscribed,
                    SubscribeFails, SessionEnds, Wake, bars
<1>4. CASE BadMessage \/ StopBegins \/ StopEnds \/ ServerFails \/ ServerRecovers
  BY <1>1, <1>4 DEF BadMessage, StopBegins, StopEnds, ServerFails, ServerRecovers, bars
<1>5. CASE UNCHANGED vars
  BY <1>1, <1>5 DEF vars, bars
<1>6. QED BY <1>2, <1>3, <1>4, <1>5 DEF Next

(* A bar is emitted once, and once more at most for each late tick.        *)
THEOREM Emits == Spec => []EmittedOnce
<1>1. Init => EmitInv
  BY DEF Init, BarsInit, EmitInv, Nothing
<1>2. EmitInv => EmittedOnce
  BY DEF EmitInv, EmittedOnce
<1>3. QED BY <1>1, <1>2, EmitInductive, PTL DEF Spec

-----------------------------------------------------------------------------
(* TotalVolume is a recursion over a finite set.  What holds of a set when *)
(* it holds of its proper subsets holds of every finite set: sets stand    *)
(* here for the predicates, which the provers cannot range over.           *)
LEMMA SetInduction ==
  ASSUME NEW S, IsFiniteSet(S), NEW G,
         \A t \in SUBSET S : (\A u \in SUBSET t : u # t => u \in G) => t \in G
  PROVE  \A t \in SUBSET S : t \in G
<1> DEFINE Bad == (SUBSET S) \ G
<1> SUFFICES ASSUME Bad # {} PROVE FALSE
  OBVIOUS
<1>1. Bad \subseteq FiniteSubsetsOf(S)
  BY FS_Subset DEF FiniteSubsetsOf
<1>2. PICK t \in Bad : \A u \in Bad : ~ (<<u, t>> \in StrictSubsetOrdering(S))
  <2> HIDE DEF Bad
  <2> QED BY <1>1, FS_StrictSubsetOrderingWellFounded, WFMin
<1>3. QED BY <1>2 DEF StrictSubsetOrdering

First(s) == CHOOSE x \in s : TRUE
IsSum(g, f, S) ==
  g = [s \in SUBSET S |-> IF s = {} THEN 0 ELSE f[First(s)] + g[s \ {First(s)}]]
SumOf(f, S) == (CHOOSE g : IsSum(g, f, S))[S]

LEMMA TotalIsSum ==
  ASSUME NEW keys
  PROVE  /\ TotalVolume(keys) = SumOf(current_bars, keys)
         /\ TotalVolume(keys)' = SumOf(current_bars', keys)
BY Zenon DEF TotalVolume, FoldSet, MapThenFoldSet, SumOf, IsSum, First

LEMMA FirstIn == ASSUME NEW s, s # {} PROVE First(s) \in s
BY Zenon DEF First

LEMMA SumsAgree ==
  ASSUME NEW f, NEW S, NEW R, IsFiniteSet(S), NEW g, NEW h,
         IsSum(g, f, S), IsSum(h, f, R), S \subseteq R
  PROVE  g[S] = h[S]
<1> DEFINE G == {t \in SUBSET S : g[t] = h[t]}
<1>1. ASSUME NEW t \in SUBSET S, \A u \in SUBSET t : u # t => u \in G
      PROVE  t \in G
  <2>1. CASE t = {}
    BY <2>1 DEF IsSum
  <2>2. CASE t # {}
    <3>1. t \ {First(t)} \in G
      BY <1>1, <2>2, FirstIn
    <3>2. /\ g[t] = f[First(t)] + g[t \ {First(t)}]
          /\ h[t] = f[First(t)] + h[t \ {First(t)}]
      BY <2>2 DEF IsSum
    <3>3. QED BY <3>1, <3>2
  <2>3. QED BY <2>1, <2>2
<1>2. S \in G
  <2> HIDE DEF G
  <2> QED BY <1>1, SetInduction
<1>3. QED BY <1>2

LEMMA SumChosen ==
  ASSUME NEW f, NEW S, \E g : IsSum(g, f, S)
  PROVE  \E g : IsSum(g, f, S) /\ SumOf(f, S) = g[S]
<1>1. IsSum(CHOOSE g : IsSum(g, f, S), f, S)
  BY Zenon
<1>2. QED BY <1>1, Zenon DEF SumOf

LEMMA SumExists == ASSUME NEW f, NEW S, IsFiniteSet(S) PROVE \E g : IsSum(g, f, S)
<1> DEFINE G == {t \in SUBSET S : \E g : IsSum(g, f, t)}
<1>1. ASSUME NEW s \in SUBSET S, \A u \in SUBSET s : u # s => u \in G
      PROVE  s \in G
  <2> DEFINE h == [t \in SUBSET s |-> IF t = {} THEN 0
                                      ELSE f[First(t)] + SumOf(f, t \ {First(t)})]
  <2>1. ASSUME NEW u \in SUBSET s, u # s
        PROVE  \E g : IsSum(g, f, u) /\ SumOf(f, u) = g[u]
    BY <1>1, <2>1, SumChosen
  <2>2. ASSUME NEW u \in SUBSET s, u # s
        PROVE  h[u] = SumOf(f, u)
    <3>1. PICK g : IsSum(g, f, u) /\ SumOf(f, u) = g[u]
      BY <2>1, <2>2
    <3>2. CASE u = {}
      BY <3>1, <3>2 DEF IsSum
    <3>3. CASE u # {}
      <4> DEFINE w == u \ {First(u)}
      <4>1. w \in SUBSET s /\ w # s /\ w \subseteq u /\ IsFiniteSet(w)
        BY <2>2, <3>3, FirstIn, FS_Subset
      <4>2. PICK k : IsSum(k, f, w) /\ SumOf(f, w) = k[w]
        BY <2>1, <4>1
      <4>3. k[w] = g[w]
        BY <3>1, <4>1, <4>2, SumsAgree
      <4>4. g[u] = f[First(u)] + g[w]
        BY <3>1, <3>3 DEF IsSum
      <4>5. QED BY <3>1, <3>3, <4>2, <4>3, <4>4
    <3>4. QED BY <3>2, <3>3
  <2>3. ASSUME NEW t \in SUBSET s, t # {}
        PROVE  h[t] = f[First(t)] + h[t \ {First(t)}]
    <3>1. t \ {First(t)} \in SUBSET s /\ t \ {First(t)} # s
      BY <2>3, FirstIn
    <3>2. QED BY <2>2, <2>3, <3>1
  <2>4. IsSum(h, f, s)
    BY <2>3 DEF IsSum
  <2>5. QED BY <2>4
<1>2. S \in G
  <2> HIDE DEF G
  <2> QED BY <1>1, SetInduction
<1>3. QED BY <1>2

LEMMA SumEmpty == ASSUME NEW f PROVE SumOf(f, {}) = 0
<1>1. PICK g : IsSum(g, f, {}) /\ SumOf(f, {}) = g[{}]
  BY SumExists, SumChosen, FS_EmptySet
<1>2. QED BY <1>1 DEF IsSum

LEMMA SumFirst ==
  ASSUME NEW f, NEW S, IsFiniteSet(S), S # {}
  PROVE  SumOf(f, S) = f[First(S)] + SumOf(f, S \ {First(S)})
<1> DEFINE R == S \ {First(S)}
<1>1. IsFiniteSet(R)
  BY FS_Subset
<1>2. PICK g : IsSum(g, f, S) /\ SumOf(f, S) = g[S]
  BY SumExists, SumChosen
<1>3. PICK h : IsSum(h, f, R) /\ SumOf(f, R) = h[R]
  BY <1>1, SumExists, SumChosen
<1>4. g[S] = f[First(S)] + g[R]
  BY <1>2 DEF IsSum
<1>5. h[R] = g[R]
  BY <1>1, <1>2, <1>3, SumsAgree
<1>6. QED BY <1>2, <1>3, <1>4, <1>5

(* A sum of natural numbers is one.                                        *)
LEMMA SumNat ==
  ASSUME NEW f, NEW S, IsFiniteSet(S), \A x \in S : f[x] \in Nat
  PROVE  SumOf(f, S) \in Nat
<1> DEFINE G == {t \in SUBSET S : SumOf(f, t) \in Nat}
<1>1. ASSUME NEW t \in SUBSET S, \A u \in SUBSET t : u # t => u \in G
      PROVE  t \in G
  <2>1. CASE t = {}
    BY <2>1, SumEmpty
  <2>2. CASE t # {}
    <3>1. First(t) \in t /\ t \ {First(t)} \in G
      BY <1>1, <2>2, FirstIn
    <3>2. IsFiniteSet(t)
      BY FS_Subset
    <3>3. SumOf(f, t) = f[First(t)] + SumOf(f, t \ {First(t)})
      BY <2>2, <3>2, SumFirst
    <3>4. f[First(t)] \in Nat
      BY <3>1
    <3>5. QED BY <3>1, <3>3, <3>4
  <2>3. QED BY <2>1, <2>2
<1>2. S \in G
  <2> HIDE DEF G
  <2> QED BY <1>1, SetInduction
<1>3. QED BY <1>2

(* Any element may be taken out of a sum first.                            *)
LEMMA SumElement ==
  ASSUME NEW f, NEW S, IsFiniteSet(S), \A x \in S : f[x] \in Nat, NEW y \in S
  PROVE  SumOf(f, S) = f[y] + SumOf(f, S \ {y})
<1> DEFINE G == {t \in SUBSET S : \A x \in t : SumOf(f, t) = f[x] + SumOf(f, t \ {x})}
<1>1. ASSUME NEW t \in SUBSET S, \A u \in SUBSET t : u # t => u \in G, NEW x \in t
      PROVE  SumOf(f, t) = f[x] + SumOf(f, t \ {x})
  <2> DEFINE z == First(t)
  <2>1. IsFiniteSet(t) /\ z \in t
    BY FirstIn, FS_Subset
  <2>2. SumOf(f, t) = f[z] + SumOf(f, t \ {z})
    BY <2>1, SumFirst
  <2>3. CASE x = z
    BY <2>2, <2>3
  <2>4. CASE x # z
    <3> HIDE DEF z
    <3>1. t \ {z} \in G /\ t \ {x} \in G
      BY <1>1, <2>1
    <3>2. x \in t \ {z} /\ z \in t \ {x}
      BY <2>1, <2>4
    <3>3. /\ SumOf(f, t \ {z}) = f[x] + SumOf(f, (t \ {z}) \ {x})
          /\ SumOf(f, t \ {x}) = f[z] + SumOf(f, (t \ {x}) \ {z})
      BY <3>1, <3>2
    <3>4. (t \ {x}) \ {z} = (t \ {z}) \ {x}
      OBVIOUS
    <3>5. SumOf(f, (t \ {x}) \ {z}) \in Nat
      <4>1. IsFiniteSet((t \ {x}) \ {z})
        BY <2>1, FS_Subset
      <4>2. QED BY <4>1, SumNat
    <3>6. f[x] \in Nat /\ f[z] \in Nat
      BY <2>1
    <3>7. QED BY <2>2, <3>3, <3>4, <3>5, <3>6
  <2>5. QED BY <2>3, <2>4
<1>2. S \in G
  <2>1. ASSUME NEW t \in SUBSET S, \A u \in SUBSET t : u # t => u \in G PROVE t \in G
    BY <1>1, <2>1
  <2> HIDE DEF G
  <2> QED BY <2>1, SetInduction
<1>3. QED BY <1>2

(* A sum depends on the values at the elements summed, and on no others.   *)
LEMMA SumSame ==
  ASSUME NEW f, NEW g, NEW S, IsFiniteSet(S), \A x \in S : f[x] = g[x]
  PROVE  SumOf(f, S) = SumOf(g, S)
<1> DEFINE G == {t \in SUBSET S : SumOf(f, t) = SumOf(g, t)}
<1>1. ASSUME NEW t \in SUBSET S, \A u \in SUBSET t : u # t => u \in G
      PROVE  t \in G
  <2>1. CASE t = {}
    BY <2>1, SumEmpty
  <2>2. CASE t # {}
    <3>1. First(t) \in t /\ t \ {First(t)} \in G
      BY <1>1, <2>2, FirstIn
    <3>2. IsFiniteSet(t)
      BY FS_Subset
    <3>3. /\ SumOf(f, t) = f[First(t)] + SumOf(f, t \ {First(t)})
          /\ SumOf(g, t) = g[First(t)] + SumOf(g, t \ {First(t)})
      BY <2>2, <3>2, SumFirst
    <3>4. f[First(t)] = g[First(t)]
      BY <3>1
    <3>5. QED BY <3>1, <3>3, <3>4
  <2>3. QED BY <2>1, <2>2
<1>2. S \in G
  <2> HIDE DEF G
  <2> QED BY <1>1, SetInduction
<1>3. QED BY <1>2

(* A set is summed in two parts.                                           *)
LEMMA SumSplit ==
  ASSUME NEW f, NEW S, IsFiniteSet(S), \A x \in S : f[x] \in Nat, NEW R \in SUBSET S
  PROVE  SumOf(f, S) = SumOf(f, R) + SumOf(f, S \ R)
<1> DEFINE G == {t \in SUBSET S : SumOf(f, S) = SumOf(f, t) + SumOf(f, S \ t)}
<1>1. \A u \in SUBSET S : IsFiniteSet(u) /\ SumOf(f, u) \in Nat
  BY FS_Subset, SumNat
<1>2. ASSUME NEW t \in SUBSET S, \A u \in SUBSET t : u # t => u \in G
      PROVE  t \in G
  <2>1. CASE t = {}
    <3>1. S \ {} = S
      OBVIOUS
    <3>2. SumOf(f, S) = 0 + SumOf(f, S \ {})
      BY <1>1, <3>1
    <3>3. QED BY <2>1, <3>2, SumEmpty
  <2>2. ASSUME NEW x \in t PROVE t \in G
    <3> DEFINE u == t \ {x}
    <3>1. SumOf(f, S) = SumOf(f, u) + SumOf(f, S \ u)
      BY <1>2
    <3>2. SumOf(f, t) = f[x] + SumOf(f, u)
      BY <1>1, SumElement
    <3>3. SumOf(f, S \ u) = f[x] + SumOf(f, (S \ u) \ {x})
      <4>1. x \in S \ u /\ IsFiniteSet(S \ u) /\ \A y \in S \ u : f[y] \in Nat
        BY <1>1
      <4> HIDE DEF u
      <4>2. QED BY <4>1, SumElement
    <3>4. SumOf(f, (S \ u) \ {x}) = SumOf(f, S \ t)
      <4>1. (S \ u) \ {x} = S \ t
        OBVIOUS
      <4> HIDE DEF u
      <4>2. QED BY <4>1
    <3>5. SumOf(f, u) \in Nat /\ SumOf(f, S \ t) \in Nat /\ f[x] \in Nat
      BY <1>1
    <3>6. SumOf(f, S) = SumOf(f, t) + SumOf(f, S \ t)
      <4> HIDE DEF u
      <4> QED BY <3>1, <3>2, <3>3, <3>4, <3>5
    <3>7. QED BY <3>6
  <2>3. QED BY <2>1, <2>2
<1>3. R \in G
  <2> HIDE DEF G
  <2> QED BY <1>2, SetInduction
<1>4. QED BY <1>3

-----------------------------------------------------------------------------
(* What was heard of a symbol is what its ticks moved the day's count by,  *)
(* forwards or back, and the stream's own count is the last one heard.     *)
HeardInv ==
  /\ DOMAIN heard \subseteq Symbols
  /\ \A s \in DOMAIN heard : heard[s] \in [first : Volumes, last : Volumes]
  /\ recounted \in [Symbols -> 0..MaxRecount]
  /\ DOMAIN last_cumulative_volume = DOMAIN heard \intersect Cumulative
  /\ \A s \in DOMAIN last_cumulative_volume : last_cumulative_volume[s] = heard[s].last

BooksInv ==
  /\ IsFiniteSet(DOMAIN current_bars)
  /\ DOMAIN current_bars \subseteq Keys
  /\ \A k \in DOMAIN current_bars : current_bars[k] \in Nat
  /\ sold \in [Symbols -> Nat]

VolumeInv == HeardInv /\ BooksInv /\ VolumeAccounted

OpenBars(s) == {k \in DOMAIN current_bars : k[1] = s}
HeardVolume(s) ==
  recounted[s] + IF s \in DOMAIN heard THEN heard[s].last - heard[s].first ELSE 0

(* A tick moves what its completed bars held from the open bars to the     *)
(* volume emitted, and adds its own volume to the symbol's, in one bar.    *)
LEMMA TickMoves ==
  ASSUME BooksInv, NEW s \in Symbols, NEW minute \in Minutes, NEW volume,
         ProcessTick(s, minute, volume), VolumeDelta(s, volume) \in Nat
  PROVE  /\ BooksInv'
         /\ \A r \in Symbols :
              sold'[r] + TotalVolume(OpenBars(r))'
                = sold[r] + TotalVolume(OpenBars(r))
                    + IF r = s THEN VolumeDelta(s, volume) ELSE 0
<1> DEFINE delta == VolumeDelta(s, volume)
           key   == <<s, minute>>
           done  == Completed(s, minute)
           held  == OpenBars(s) \ done
           bar   == IF key \in held THEN current_bars[key] + delta ELSE delta
<1>1. /\ key \in Keys
      /\ done \subseteq OpenBars(s)
      /\ key \notin done
      /\ key \in DOMAIN current_bars <=> key \in held
  BY BarAssumption DEF Keys, Completed, OpenBars
<1>2. \A r : /\ IsFiniteSet(OpenBars(r))
             /\ \A k \in OpenBars(r) : current_bars[k] \in Nat
  BY FS_Subset DEF BooksInv, OpenBars
<1>3. IsFiniteSet(done) /\ IsFiniteSet(held) /\ IsFiniteSet(held \ {key})
  BY <1>1, <1>2, FS_Subset
<1>4. /\ DOMAIN current_bars' = (DOMAIN current_bars \ done) \union {key}
      /\ current_bars'[key] = bar
      /\ \A k \in DOMAIN current_bars \ done : k # key => current_bars'[k] = current_bars[k]
  BY <1>1 DEF ProcessTick, With, Without, Restrict
<1>5. bar \in Nat
  BY <1>2
<1>6. SumOf(current_bars, done) \in Nat
  BY <1>1, <1>2, <1>3, SumNat
<1>7. /\ sold' \in [Symbols -> Nat]
      /\ sold'[s] = sold[s] + SumOf(current_bars, done)
      /\ \A r \in Symbols \ {s} : sold'[r] = sold[r]
  <2>1. sold' = [sold EXCEPT ![s] = @ + SumOf(current_bars, done)]
    BY TotalIsSum DEF ProcessTick
  <2>2. QED BY <1>6, <2>1 DEF BooksInv
<1> HIDE DEF delta, done, held, bar
<1>8. BooksInv'
  <2>1. IsFiniteSet(DOMAIN current_bars')
    <3>1. IsFiniteSet(DOMAIN current_bars \ done)
      BY FS_Subset DEF BooksInv
    <3>2. QED BY <1>4, <3>1, FS_AddElement
  <2>2. QED BY <1>1, <1>4, <1>5, <1>7, <2>1 DEF BooksInv
<1>9. ASSUME NEW r \in Symbols, r # s
      PROVE  SumOf(current_bars', OpenBars(r)') = SumOf(current_bars, OpenBars(r))
  <2>1. OpenBars(r)' = OpenBars(r)
    BY <1>1, <1>4, <1>9 DEF OpenBars
  <2>2. \A k \in OpenBars(r) : current_bars'[k] = current_bars[k]
    BY <1>1, <1>4, <1>9 DEF OpenBars
  <2>3. QED BY <1>2, <2>1, <2>2, SumSame
<1>10. /\ OpenBars(s)' = held \union {key}
       /\ \A k \in held \ {key} : current_bars'[k] = current_bars[k]
  BY <1>1, <1>4 DEF OpenBars, held
<1>11. SumOf(current_bars', OpenBars(s)') = bar + SumOf(current_bars, held \ {key})
  <2>1. /\ IsFiniteSet(OpenBars(s)')
        /\ \A k \in OpenBars(s)' : current_bars'[k] \in Nat
    <3>1. IsFiniteSet(OpenBars(s)')
      BY <1>3, <1>10, FS_AddElement
    <3>2. QED BY <1>8, <3>1 DEF BooksInv, OpenBars
  <2>2. OpenBars(s)' \ {key} = held \ {key}
    BY <1>10
  <2>3. SumOf(current_bars', OpenBars(s)') = current_bars'[key] + SumOf(current_bars', held \ {key})
    BY <1>10, <2>1, <2>2, SumElement
  <2>4. SumOf(current_bars', held \ {key}) = SumOf(current_bars, held \ {key})
    BY <1>3, <1>10, SumSame
  <2>5. QED BY <1>4, <2>3, <2>4
<1>12. bar + SumOf(current_bars, held \ {key}) = delta + SumOf(current_bars, held)
  <2>1. \A k \in held : current_bars[k] \in Nat
    BY <1>2 DEF held
  <2>2. SumOf(current_bars, held \ {key}) \in Nat
    BY <1>3, <2>1, SumNat
  <2>3. CASE key \in held
    <3>1. SumOf(current_bars, held) = current_bars[key] + SumOf(current_bars, held \ {key})
      BY <1>3, <2>1, <2>3, SumElement
    <3>2. QED BY <2>1, <2>2, <2>3, <3>1 DEF bar, delta
  <2>4. CASE key \notin held
    <3>1. held \ {key} = held
      BY <2>4
    <3>2. QED BY <2>2, <2>4, <3>1 DEF bar, delta
  <2>5. QED BY <2>3, <2>4
<1>13. /\ SumOf(current_bars, OpenBars(s)) = SumOf(current_bars, done) + SumOf(current_bars, held)
       /\ SumOf(current_bars, held) \in Nat
  <2>1. SumOf(current_bars, held) \in Nat
    BY <1>2, <1>3, SumNat DEF held
  <2>2. QED BY <1>1, <1>2, <2>1, SumSplit DEF held
<1>14. \A r \in Symbols :
         sold'[r] + SumOf(current_bars', OpenBars(r)')
           = sold[r] + SumOf(current_bars, OpenBars(r)) + IF r = s THEN delta ELSE 0
  <2>1. \A r \in Symbols : sold[r] \in Nat /\ SumOf(current_bars, OpenBars(r)) \in Nat
    BY <1>2, SumNat DEF BooksInv
  <2>2. ASSUME NEW r \in Symbols, r # s
        PROVE  sold'[r] + SumOf(current_bars', OpenBars(r)')
                 = sold[r] + SumOf(current_bars, OpenBars(r)) + 0
    BY <1>7, <1>9, <2>1, <2>2
  <2>3. sold'[s] + SumOf(current_bars', OpenBars(s)')
          = sold[s] + SumOf(current_bars, OpenBars(s)) + delta
    BY <1>6, <1>7, <1>11, <1>12, <1>13, <2>1 DEF delta
  <2>4. QED BY <2>2, <2>3
<1>15. \A r : /\ TotalVolume(OpenBars(r)) = SumOf(current_bars, OpenBars(r))
              /\ TotalVolume(OpenBars(r))' = SumOf(current_bars', OpenBars(r)')
  BY TotalIsSum
<1>16. QED BY <1>8, <1>14, <1>15 DEF delta

LEMMA TickAccounts ==
  ASSUME VolumeInv, NEW s \in Symbols, NEW minute \in Minutes, Tick(s, minute)
  PROVE  VolumeInv'
<1>1. PICK told \in Nat, before \in Volumes, now \in Volumes :
        /\ ProcessTick(s, minute, told)
        /\ Hear(s, before, now)
        /\ s \in Cumulative => told = now /\ before = now
        /\ s \notin Cumulative => told = 1 /\ now = LastHeard(s) + 1 /\ before = 0
        /\ recounted' = [recounted EXCEPT ![s] = @ + Greater(0, LastHeard(s) - now)]
        /\ recounted[s] + Greater(0, LastHeard(s) - now) <= MaxRecount
  <2>0. LastHeard(s) \in Volumes /\ recounted[s] \in 0..MaxRecount
    BY BarAssumption DEF LastHeard, VolumeInv, HeardInv, Volumes
  <2>1. CASE CumulativeTick(s, minute)
    <3>1. PICK volume \in Volumes :
            /\ recounted[s] + Greater(0, LastHeard(s) - volume) <= MaxRecount
            /\ recounted' = [recounted EXCEPT ![s] = @ + Greater(0, LastHeard(s) - volume)]
            /\ ProcessTick(s, minute, volume)
            /\ Hear(s, volume, volume)
      BY <2>1 DEF CumulativeTick
    <3>2. s \in Cumulative /\ volume \in Nat
      BY <2>1 DEF CumulativeTick, Volumes
    <3>3. QED BY <3>1, <3>2
  <2>2. CASE TradeTick(s, minute)
    <3>1. /\ s \notin Cumulative /\ LastHeard(s) + 1 \in Volumes /\ 0 \in Volumes
          /\ ProcessTick(s, minute, 1) /\ Hear(s, 0, LastHeard(s) + 1)
          /\ recounted' = recounted
      BY <2>0, <2>2, BarAssumption DEF TradeTick, Volumes
    <3>2. Greater(0, LastHeard(s) - (LastHeard(s) + 1)) = 0
      BY <2>0, BarAssumption DEF Greater, Volumes
    <3>3. recounted' = [recounted EXCEPT ![s] = @ + 0]
      BY <2>0, <3>1, BarAssumption DEF VolumeInv, HeardInv
    <3>4. recounted[s] + 0 <= MaxRecount
      BY <2>0, BarAssumption
    <3>5. 1 \in Nat
      OBVIOUS
    <3>6. QED BY <3>1, <3>2, <3>3, <3>4, <3>5
  <2>3. QED BY <2>1, <2>2 DEF Tick
<1> DEFINE back == Greater(0, LastHeard(s) - now)
           start == IF s \in DOMAIN heard THEN heard[s].first ELSE before
<1>2. last_cumulative_volume' =
        IF s \in Cumulative THEN With(last_cumulative_volume, s, told)
                            ELSE last_cumulative_volume
  BY <1>1 DEF ProcessTick
<1>3. /\ DOMAIN heard' = DOMAIN heard \union {s}
      /\ heard'[s] = [first |-> start, last |-> now]
      /\ \A r \in DOMAIN heard \ {s} : heard'[r] = heard[r]
  BY <1>1 DEF Hear, With
<1>4. /\ DOMAIN last_cumulative_volume'
           = DOMAIN last_cumulative_volume \union ({s} \intersect Cumulative)
      /\ s \in Cumulative => last_cumulative_volume'[s] = now
      /\ \A r \in DOMAIN last_cumulative_volume \ {s} :
           last_cumulative_volume'[r] = last_cumulative_volume[r]
  BY <1>1, <1>2 DEF With, VolumeInv, HeardInv
<1>5. /\ back \in Nat
      /\ VolumeDelta(s, told) \in Nat
      /\ VolumeDelta(s, told)
           = back + now - (IF s \in DOMAIN heard THEN heard[s].last ELSE before)
  BY <1>1, BarAssumption DEF VolumeDelta, Greater, VolumeInv, HeardInv, Volumes, LastHeard
<1>6. /\ recounted' \in [Symbols -> 0..MaxRecount]
      /\ recounted'[s] = recounted[s] + back
      /\ \A r \in Symbols \ {s} : recounted'[r] = recounted[r]
  BY <1>1, <1>5, BarAssumption DEF VolumeInv, HeardInv
<1> HIDE DEF back
<1>7. HeardInv'
  <2>1. ASSUME NEW r \in DOMAIN heard'
        PROVE  heard'[r] \in [first : Volumes, last : Volumes]
    <3>1. CASE r = s
      <4>1. start \in Volumes
        BY <1>1 DEF VolumeInv, HeardInv
      <4>2. QED BY <1>1, <1>3, <3>1, <4>1
    <3>2. CASE r # s
      BY <1>3, <3>2 DEF VolumeInv, HeardInv
    <3>3. QED BY <3>1, <3>2
  <2>2. DOMAIN last_cumulative_volume' = DOMAIN heard' \intersect Cumulative
    BY <1>3, <1>4 DEF VolumeInv, HeardInv
  <2>3. \A r \in DOMAIN last_cumulative_volume' : last_cumulative_volume'[r] = heard'[r].last
    BY <1>3, <1>4 DEF VolumeInv, HeardInv
  <2>4. DOMAIN heard' \subseteq Symbols
    BY <1>3 DEF VolumeInv, HeardInv
  <2>5. QED BY <1>6, <2>1, <2>2, <2>3, <2>4 DEF HeardInv
<1>8. /\ BooksInv'
      /\ \A r \in Symbols :
           sold'[r] + TotalVolume(OpenBars(r))'
             = sold[r] + TotalVolume(OpenBars(r))
                 + IF r = s THEN VolumeDelta(s, told) ELSE 0
  BY <1>1, <1>5, TickMoves DEF VolumeInv
<1>9. ASSUME NEW r \in Symbols
      PROVE  sold'[r] + TotalVolume(OpenBars(r))' = HeardVolume(r)'
  <2>1. sold[r] + TotalVolume(OpenBars(r)) = HeardVolume(r) /\ HeardVolume(r) \in Int
    BY BarAssumption DEF VolumeInv, VolumeAccounted, OpenBars, HeardVolume, HeardInv, Volumes
  <2>2. CASE r = s
    <3>1. HeardVolume(s)' = recounted[s] + back + (now - start)
      BY <1>3, <1>6 DEF HeardVolume
    <3>2. recounted[s] \in Nat
      BY BarAssumption DEF VolumeInv, HeardInv
    <3>3. HeardVolume(s)' = HeardVolume(s) + VolumeDelta(s, told)
      BY <1>1, <1>5, <3>1, <3>2, BarAssumption DEF HeardVolume, HeardInv, VolumeInv, Volumes
    <3>4. QED BY <1>8, <2>1, <2>2, <3>3
  <2>3. CASE r # s
    <3>1. HeardVolume(r)' = HeardVolume(r)
      BY <1>3, <1>6, <2>3 DEF HeardVolume
    <3>2. QED BY <1>8, <2>1, <2>3, <3>1
  <2>4. QED BY <2>2, <2>3
<1>10. QED BY <1>7, <1>8, <1>9 DEF VolumeInv, VolumeAccounted, OpenBars, HeardVolume

LEMMA VolumeInductive == VolumeInv /\ [Next]_vars => VolumeInv'
<1> SUFFICES ASSUME VolumeInv, [Next]_vars PROVE VolumeInv'
  OBVIOUS
<1>1. ASSUME UNCHANGED bars PROVE VolumeInv'
  BY <1>1, TotalIsSum
     DEF bars, VolumeInv, VolumeAccounted, HeardInv, BooksInv
<1>2. ASSUME NEW s \in Symbols, NEW minute \in Minutes, Receive(s, minute)
      PROVE  VolumeInv'
  BY <1>2, TickAccounts DEF Receive
<1>3. CASE ConnectingTask
  BY <1>1, <1>3 DEF ConnectingTask, Connect, Connected, ConnectFails, Subscribed,
                    SubscribeFails, SessionEnds, Wake
<1>4. CASE BadMessage \/ StopBegins \/ StopEnds \/ ServerFails \/ ServerRecovers
  BY <1>1, <1>4 DEF BadMessage, StopBegins, StopEnds, ServerFails, ServerRecovers
<1>5. CASE UNCHANGED vars
  BY <1>1, <1>5 DEF vars
<1>6. QED BY <1>2, <1>3, <1>4, <1>5 DEF Next

LEMMA VolumeInit == Init => VolumeInv
<1> SUFFICES ASSUME Init PROVE VolumeInv
  OBVIOUS
<1>1. HeardInv
  BY BarAssumption DEF Init, BarsInit, Nothing, HeardInv, Volumes
<1>2. BooksInv
  BY FS_EmptySet DEF Init, BarsInit, Nothing, BooksInv
<1>3. ASSUME NEW s \in Symbols PROVE sold[s] + TotalVolume(OpenBars(s)) = 0
  <2>1. OpenBars(s) = {}
    BY DEF Init, BarsInit, Nothing, OpenBars
  <2>2. QED BY <2>1, TotalIsSum, SumEmpty DEF Init, BarsInit
<1>4. QED BY <1>1, <1>2, <1>3
          DEF VolumeInv, VolumeAccounted, OpenBars, Init, BarsInit, Nothing

(* Every lot heard of is in one bar, emitted or open, and in one more for  *)
(* each time a tick out of order set the count back over it.               *)
THEOREM VolumeKept == Spec => []VolumeAccounted
<1>1. VolumeInv => VolumeAccounted
  BY DEF VolumeInv
<1>2. QED BY <1>1, VolumeInit, VolumeInductive, PTL DEF Spec

-----------------------------------------------------------------------------
(* The bounds on the bars follow from the books, those on the connection   *)
(* from its attempts.                                                      *)
LEMMA BooksBounded ==
  ASSUME VolumeInv
  PROVE  /\ \A k \in DOMAIN current_bars : current_bars[k] \in BarVolumes
         /\ sold \in [Symbols -> BarVolumes]
<1>1. \A s \in Symbols : /\ IsFiniteSet(OpenBars(s))
                         /\ \A k \in OpenBars(s) : current_bars[k] \in Nat
  BY FS_Subset DEF VolumeInv, BooksInv, OpenBars
<1>2. \A s \in Symbols : SumOf(current_bars, OpenBars(s)) \in Nat
  BY <1>1, SumNat
<1>3. \A s \in Symbols : sold[s] + SumOf(current_bars, OpenBars(s))
                          <= MaxVolume + MaxRecount
  <2>1. \A s \in Symbols : sold[s] + SumOf(current_bars, OpenBars(s)) = HeardVolume(s)
    BY TotalIsSum DEF VolumeInv, VolumeAccounted, OpenBars, HeardVolume
  <2>2. \A s \in Symbols : HeardVolume(s) <= MaxVolume + MaxRecount
    BY BarAssumption DEF HeardVolume, VolumeInv, HeardInv, Volumes
  <2>3. QED BY <2>1, <2>2
<1>4. ASSUME NEW k \in DOMAIN current_bars PROVE current_bars[k] \in BarVolumes
  <2>1. k[1] \in Symbols /\ k \in OpenBars(k[1])
    BY DEF VolumeInv, BooksInv, Keys, OpenBars
  <2>2. SumOf(current_bars, OpenBars(k[1]))
          = current_bars[k] + SumOf(current_bars, OpenBars(k[1]) \ {k})
    BY <1>1, <2>1, SumElement
  <2>3. SumOf(current_bars, OpenBars(k[1]) \ {k}) \in Nat
    <3>1. /\ IsFiniteSet(OpenBars(k[1]) \ {k})
          /\ \A x \in OpenBars(k[1]) \ {k} : current_bars[x] \in Nat
      BY <1>1, <2>1, FS_Subset
    <3>2. QED BY <3>1, SumNat
  <2>4. sold[k[1]] \in Nat /\ current_bars[k] \in Nat
    BY <2>1 DEF VolumeInv, BooksInv
  <2>5. QED BY <1>3, <2>1, <2>2, <2>3, <2>4, BarAssumption DEF BarVolumes
<1>5. \A s \in Symbols : sold[s] \in BarVolumes
  BY <1>2, <1>3, BarAssumption DEF VolumeInv, BooksInv, BarVolumes
<1>6. QED BY <1>4, <1>5 DEF VolumeInv, BooksInv

LinkTypeOK ==
  /\ late \in [Keys -> 0..MaxLate]
  /\ is_connected \in BOOLEAN
  /\ ws \in {"none", "open", "closed"}
  /\ stopping \in BOOLEAN
  /\ server_up \in BOOLEAN
  /\ stopped \in BOOLEAN

LEMMA LinkInductive ==
  ASSUME LinkTypeOK, EmitInv, [Next]_vars
  PROVE  LinkTypeOK'
<1>1. ASSUME NEW s \in Symbols, NEW minute \in Minutes, Receive(s, minute)
      PROVE  LinkTypeOK'
  <2> DEFINE key == <<s, minute>>
  <2>1. /\ key \in Keys
        /\ late' = [late EXCEPT ![key] = IF sent[key] > 0 THEN @ + 1 ELSE @]
        /\ sent[key] > 0 => late[key] < MaxLate
    BY <1>1 DEF Receive, Tick, CumulativeTick, TradeTick, ProcessTick, Keys
  <2> HIDE DEF key
  <2>2. late' \in [Keys -> 0..MaxLate]
    BY <2>1, BarAssumption DEF LinkTypeOK
  <2>3. QED BY <1>1, <2>2 DEF Receive, link, LinkTypeOK
<1>2. CASE Connect \/ Connected \/ ConnectFails
  BY <1>2 DEF Connect, Connected, ConnectFails, bars, link, LinkTypeOK
<1>3. CASE Subscribed \/ SubscribeFails \/ SessionEnds \/ Wake \/ BadMessage
  BY <1>3 DEF Subscribed, SubscribeFails, SessionEnds, Wake, BadMessage, bars, link, LinkTypeOK
<1>4. CASE StopBegins \/ StopEnds
  BY <1>4 DEF StopBegins, StopEnds, bars, LinkTypeOK
<1>5. CASE ServerFails \/ ServerRecovers
  BY <1>5 DEF ServerFails, ServerRecovers, bars, link, LinkTypeOK
<1>6. CASE UNCHANGED vars
  BY <1>6 DEF vars, bars, link, LinkTypeOK
<1>7. QED BY <1>1, <1>2, <1>3, <1>4, <1>5, <1>6 DEF Next, ConnectingTask

(* The variables keep their types and their bounds.                        *)
THEOREM TypeCorrect == Spec => []TypeOK
<1>1. Init => LinkTypeOK /\ EmitInv /\ AttemptInv
  <2>1. Init => LinkTypeOK
    <3>1. 0 \in 0..MaxLate
      BY BarAssumption
    <3>2. QED BY <3>1, Zenon DEF Init, BarsInit, LinkTypeOK
  <2>2. Init => EmitInv
    BY DEF Init, BarsInit, Nothing, EmitInv
  <2>3. Init => AttemptInv
    BY StreamAssumption DEF Init, AttemptInv
  <2>4. QED BY <2>1, <2>2, <2>3
<1>2. LinkTypeOK /\ EmitInv /\ AttemptInv /\ VolumeInv => TypeOK
  <2> SUFFICES ASSUME LinkTypeOK, EmitInv, AttemptInv, VolumeInv PROVE TypeOK
    OBVIOUS
  <2>1. sent \in [Keys -> 0..(MaxLate + 1)]
    BY BarAssumption DEF EmitInv, LinkTypeOK
  <2>2. /\ DOMAIN last_cumulative_volume \subseteq Cumulative
        /\ \A s \in DOMAIN last_cumulative_volume : last_cumulative_volume[s] \in Volumes
    BY DEF VolumeInv, HeardInv
  <2>3. BarsTypeOK
    BY <2>1, <2>2, BooksBounded DEF BarsTypeOK, EmitInv, LinkTypeOK, VolumeInv, HeardInv
  <2>4. QED BY <2>3 DEF TypeOK, LinkTypeOK, AttemptInv
<1>3. QED
  BY <1>1, <1>2, LinkInductive, EmitInductive, AttemptInductive, VolumeInit,
     VolumeInductive, PTL DEF Spec
=============================================================================
