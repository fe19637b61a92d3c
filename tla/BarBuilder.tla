----------------------------- MODULE BarBuilder -----------------------------
(***************************************************************************)
(* How NSEWebSocketStream turns ticks into one-minute bars                 *)
(* (production/src/execution/live/market_stream.py, from _process_tick).   *)
(* MarketStream adds the connection the ticks arrive on.                   *)
(*                                                                         *)
(* A feed may deliver a tick out of order: its timestamp may lie in an     *)
(* earlier minute than that of the tick before, and the day's volume it    *)
(* carries may be an older one.  The callback is main.py's on_bar: it is   *)
(* not a coroutine, so the branches that await one are not modelled, and   *)
(* it lets no exception out.                                               *)
(***************************************************************************)
EXTENDS Integers, FiniteSets, FiniteSetsExt, Functions

CONSTANTS Symbols,
          Cumulative,  \* symbols whose ticks carry the day's volume so far
          Minutes,     \* the minutes of the day
          MaxVolume,   \* bound on the volume a symbol's ticks tell of
          MaxLate,     \* bound on the late ticks of a symbol and minute
          MaxRecount   \* bound on the lots of a symbol told of twice

ASSUME BarAssumption ==
  /\ Cumulative \subseteq Symbols
  /\ Minutes \subseteq Int
  /\ MaxVolume \in Nat /\ MaxLate \in Nat /\ MaxRecount \in Nat

VARIABLES current_bars,            \* the open bars, by symbol and minute
          last_cumulative_volume,  \* by symbol; a symbol not seen has none
          heard,      \* history: the day's volume after the first and the
                      \* last tick of a symbol, as those ticks told it
          recounted,  \* history: the lots by which ticks set that back
          sold,       \* history: the volume of all bars emitted, by symbol
          sent,       \* history: how often each bar was emitted
          late        \* history: ticks of a bar that had been emitted

bars == <<current_bars, last_cumulative_volume, heard, recounted, sold, sent, late>>

Keys == Symbols \X Minutes
Volumes == 0..MaxVolume
BarVolumes == 0..(MaxVolume + MaxRecount)

BarsTypeOK ==
  /\ DOMAIN current_bars \subseteq Keys
  /\ \A k \in DOMAIN current_bars : current_bars[k] \in BarVolumes
  /\ DOMAIN last_cumulative_volume \subseteq Cumulative
  /\ \A s \in DOMAIN last_cumulative_volume : last_cumulative_volume[s] \in Volumes
  /\ DOMAIN heard \subseteq Symbols
  /\ \A s \in DOMAIN heard : heard[s] \in [first : Volumes, last : Volumes]
  /\ recounted \in [Symbols -> 0..MaxRecount]
  /\ sold \in [Symbols -> BarVolumes]
  /\ sent \in [Keys -> 0..(MaxLate + 1)]
  /\ late \in [Keys -> 0..MaxLate]

Nothing == [x \in {} |-> x]

BarsInit ==
  /\ current_bars = Nothing
  /\ last_cumulative_volume = Nothing
  /\ heard = Nothing
  /\ recounted = [s \in Symbols |-> 0]
  /\ sold = [s \in Symbols |-> 0]
  /\ sent = [k \in Keys |-> 0]
  /\ late = [k \in Keys |-> 0]

Greater(a, b) == IF a >= b THEN a ELSE b
Without(f, S) == Restrict(f, DOMAIN f \ S)
With(f, x, v) == [y \in DOMAIN f \union {x} |-> IF y = x THEN v ELSE f[y]]
TotalVolume(keys) == FoldSet(LAMBDA k, v : current_bars[k] + v, 0, keys)

-----------------------------------------------------------------------------
(* Mutant of _volume_delta: what was traded before the first tick counts.  *)
VolumeDeltaFromZero(s, volume) ==
  IF s \in DOMAIN last_cumulative_volume
  THEN Greater(0, volume - last_cumulative_volume[s])
  ELSE volume

(* _volume_delta: the volume a tick adds.  The first tick of a cumulative  *)
(* symbol adds none, and one below the last adds none either.              *)
VolumeDelta(s, volume) ==
  IF s \notin Cumulative THEN volume
  ELSE IF s \notin DOMAIN last_cumulative_volume THEN 0
  ELSE Greater(0, volume - last_cumulative_volume[s])

(* The bars of its symbol that a tick of this minute completes.            *)
Completed(s, minute) == {k \in DOMAIN current_bars : k[1] = s /\ k[2] < minute}

(* Mutant of _process_tick: an emitted bar is read and not removed.        *)
ProcessTickKeepingBars(s, minute, volume) ==
  LET delta == VolumeDelta(s, volume)
      done  == Completed(s, minute)
      key   == <<s, minute>>
      bar   == IF key \in DOMAIN current_bars THEN current_bars[key] + delta ELSE delta
  IN  /\ current_bars' = With(current_bars, key, bar)
      /\ last_cumulative_volume' =
           IF s \in Cumulative THEN With(last_cumulative_volume, s, volume)
                               ELSE last_cumulative_volume
      /\ sent' = [k \in Keys |-> IF k \in done THEN sent[k] + 1 ELSE sent[k]]
      /\ sold' = [sold EXCEPT ![s] = @ + TotalVolume(done)]
      /\ late' = [late EXCEPT ![key] = IF sent[key] > 0 THEN @ + 1 ELSE @]

(* _process_tick of a tick with a symbol and a price: emit what it         *)
(* completes, then open its bar or add to it.  Of a bar the model keeps    *)
(* the volume; its four prices follow the ticks in the same way.  A tick   *)
(* without a symbol or a price returns early and changes nothing, and a    *)
(* message that is a list processes its items one after the other.         *)
ProcessTick(s, minute, volume) ==
  LET delta == VolumeDelta(s, volume)
      done  == Completed(s, minute)
      kept  == Without(current_bars, done)
      key   == <<s, minute>>
      bar   == IF key \in DOMAIN kept THEN kept[key] + delta ELSE delta
  IN  /\ current_bars' = With(kept, key, bar)
      /\ last_cumulative_volume' =
           IF s \in Cumulative THEN With(last_cumulative_volume, s, volume)
                               ELSE last_cumulative_volume
      /\ sent' = [k \in Keys |-> IF k \in done THEN sent[k] + 1 ELSE sent[k]]
      /\ sold' = [sold EXCEPT ![s] = @ + TotalVolume(done)]
      /\ late' = [late EXCEPT ![key] = IF sent[key] > 0 THEN @ + 1 ELSE @]

LastHeard(s) == IF s \in DOMAIN heard THEN heard[s].last ELSE 0

Hear(s, before, after) ==
  heard' = With(heard, s, [first |-> IF s \in DOMAIN heard THEN heard[s].first ELSE before,
                           last  |-> after])

(* A tick of a cumulative symbol tells the volume traded up to some time   *)
(* of the day: any more than the last tick told, when others were missed,  *)
(* or less, when it comes out of order (one without a volume tells 0).     *)
CumulativeTick(s, minute) ==
  /\ s \in Cumulative
  /\ \E volume \in Volumes :
       LET back == Greater(0, LastHeard(s) - volume)
       IN  /\ recounted[s] + back <= MaxRecount
           /\ recounted' = [recounted EXCEPT ![s] = @ + back]
           /\ ProcessTick(s, minute, volume)
           /\ Hear(s, volume, volume)

(* A tick of another symbol tells of a trade of one lot.                   *)
TradeTick(s, minute) ==
  /\ s \notin Cumulative
  /\ LastHeard(s) < MaxVolume
  /\ ProcessTick(s, minute, 1)
  /\ Hear(s, 0, LastHeard(s) + 1)
  /\ UNCHANGED recounted

Tick(s, minute) ==
  /\ sent[<<s, minute>>] > 0 => late[<<s, minute>>] < MaxLate
  /\ CumulativeTick(s, minute) \/ TradeTick(s, minute)

-----------------------------------------------------------------------------
(* The bars of a symbol, emitted and open, hold together every lot traded  *)
(* between its first and its last tick, those traded while the stream was  *)
(* disconnected included; and a lot is counted twice exactly when a tick   *)
(* out of order set the count back over it.                                *)
VolumeAccounted ==
  \A s \in Symbols :
    sold[s] + TotalVolume({k \in DOMAIN current_bars : k[1] = s})
      = recounted[s] + IF s \in DOMAIN heard THEN heard[s].last - heard[s].first ELSE 0

(* The bar of a symbol and minute is emitted once, and again only for a    *)
(* tick that came after it had been emitted.                               *)
EmittedOnce == \A k \in Keys : sent[k] <= 1 + late[k]
=============================================================================
