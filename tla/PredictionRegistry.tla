-------------------------- MODULE PredictionRegistry --------------------------
(***************************************************************************)
(* PredictionRegistry (production/src/alpha/prediction_registry.py): the   *)
(* predictions table of a SQLite file behind one connection, which all     *)
(* threads share.  The methods that write predictions hold a lock; those   *)
(* that read, and the one that logs a demotion, do not.  A commit of any   *)
(* thread commits what all of them have written on the connection.         *)
(*                                                                         *)
(* The predictions are of one strategy, and its information coefficient is *)
(* any value once enough predictions count.  The model covers one day.     *)
(***************************************************************************)
EXTENDS Integers, FiniteSets

CONSTANTS Threads,        \* that call the registry
          MaxPredictions, \* bound on the predictions
          MaxTime,        \* bound on the time
          Horizon,        \* horizon_minutes of every prediction
          Hour,           \* how far in the future an exit may be
          MinPredictions  \* MIN_PREDICTIONS_FOR_IC

ASSUME PredictionAssumption ==
  /\ IsFiniteSet(Threads)
  /\ MaxPredictions \in Nat /\ MaxTime \in Nat
  /\ Horizon \in Nat /\ Hour \in Nat /\ MinPredictions \in Nat

VARIABLES rows,   \* the table as the connection sees it, in the order of ids
          saved,  \* the table as committed
          lock,   \* self._lock: the thread that holds it, if any
          doing,  \* by thread
          since,  \* by thread: the time read at the start of a sweep
          todo,   \* by thread: the expired rows left of the sweep
          demotions, \* the entries of strategy_demotions
          now

predictionVars == <<rows, saved, lock, doing, since, todo, demotions, now>>

Times == 0..MaxTime + Hour
Row == [made : Times, by : {"nobody", "caller", "sweep"}, at : Times]
Tables == UNION {[1..k -> Row] : k \in 0..MaxPredictions}
Resolved(p, who, time) == [rows EXCEPT ![p].by = who, ![p].at = time]

(* check_demotions is said to log a demotion once a day.  It does so only  *)
(* when its calls do not overlap: of n threads each may log it once, those *)
(* that looked before any of them had logged it.                           *)
PredictionsTypeOK ==
  /\ rows \in Tables /\ saved \in Tables
  /\ lock \subseteq Threads /\ Cardinality(lock) <= 1
  /\ doing \in [Threads -> {"idle", "waiting", "sweeping", "demoting"}]
  /\ since \in [Threads -> Times]
  /\ todo \in [Threads -> SUBSET DOMAIN rows]
  /\ demotions \in 0..Cardinality(Threads)
  /\ now \in 0..MaxTime

PredictionsInit ==
  /\ rows = [p \in 1..0 |-> 0] /\ saved = rows
  /\ lock = {}
  /\ doing = [t \in Threads |-> "idle"]
  /\ since = [t \in Threads |-> 0]
  /\ todo = [t \in Threads |-> {}]
  /\ demotions = 0
  /\ now = 0

-----------------------------------------------------------------------------
Commit == saved' = rows'

(* record_prediction, with whatever timestamp the caller gives.            *)
RecordPrediction(t, made) ==
  /\ doing[t] = "idle" /\ lock = {}
  /\ Cardinality(DOMAIN rows) < MaxPredictions
  /\ LET p == Cardinality(DOMAIN rows) + 1
         new == [made |-> made, by |-> "nobody", at |-> 0]
     IN rows' = [q \in 1..p |-> IF q = p THEN new ELSE rows[q]]
  /\ Commit
  /\ UNCHANGED <<lock, doing, since, todo, demotions, now>>

(* Mutant of resolve_prediction: nothing is committed.                     *)
ResolveUncommitted(t, p, time) ==
  /\ doing[t] = "idle" /\ lock = {}
  /\ p \in DOMAIN rows
  /\ rows[p].made <= time /\ time <= now + Hour
  /\ rows' = Resolved(p, "caller", time)
  /\ UNCHANGED <<saved, lock, doing, since, todo, demotions, now>>

(* resolve_prediction, also of a prediction that is resolved.              *)
ResolvePrediction(t, p, time) ==
  /\ doing[t] = "idle" /\ lock = {}
  /\ p \in DOMAIN rows
  /\ rows[p].made <= time /\ time <= now + Hour
  /\ rows' = Resolved(p, "caller", time)
  /\ Commit
  /\ UNCHANGED <<lock, doing, since, todo, demotions, now>>

-----------------------------------------------------------------------------
(* resolve_expired reads the clock, and then waits for the lock.           *)
ResolveExpired(t) ==
  /\ doing[t] = "idle" /\ doing' = [doing EXCEPT ![t] = "waiting"]
  /\ since' = [since EXCEPT ![t] = now]
  /\ UNCHANGED <<rows, saved, lock, todo, demotions, now>>

Expired(t) ==
  {p \in DOMAIN rows : rows[p].by = "nobody" /\ rows[p].made + Horizon <= since[t]}

(* Mutant of resolve_expired: without the lock.                            *)
SelectUnlocked(t, priced) ==
  /\ doing[t] = "waiting" /\ doing' = [doing EXCEPT ![t] = "sweeping"]
  /\ todo' = [todo EXCEPT ![t] = Expired(t) \intersect priced]
  /\ UNCHANGED <<rows, saved, lock, since, demotions, now>>

(* It selects the rows to resolve, those with a price, once.               *)
SelectExpired(t, priced) ==
  /\ doing[t] = "waiting" /\ doing' = [doing EXCEPT ![t] = "sweeping"]
  /\ lock = {} /\ lock' = {t}
  /\ todo' = [todo EXCEPT ![t] = Expired(t) \intersect priced]
  /\ UNCHANGED <<rows, saved, since, demotions, now>>

UpdateRow(t, p) ==
  /\ doing[t] = "sweeping" /\ p \in todo[t]
  /\ todo' = [todo EXCEPT ![t] = @ \ {p}]
  /\ rows' = Resolved(p, "sweep", since[t])
  /\ UNCHANGED <<saved, lock, doing, since, demotions, now>>

CommitSweep(t) ==
  /\ doing[t] = "sweeping" /\ todo[t] = {}
  /\ doing' = [doing EXCEPT ![t] = "idle"] /\ lock' = lock \ {t}
  /\ rows' = rows /\ Commit
  /\ UNCHANGED <<since, todo, demotions, now>>

(* A row raises (an entry price of zero, a timestamp that is none), be it  *)
(* one to resolve or not: those before it stay updated and are not         *)
(* committed.                                                              *)
FailSweep(t) ==
  /\ doing[t] = "sweeping"
  /\ doing' = [doing EXCEPT ![t] = "idle"] /\ lock' = lock \ {t}
  /\ todo' = [todo EXCEPT ![t] = {}]
  /\ UNCHANGED <<rows, saved, since, demotions, now>>

-----------------------------------------------------------------------------
(* What compute_ic counts: outcomes not before their horizon.              *)
Counted == {p \in DOMAIN rows : rows[p].by # "nobody" /\ rows[p].made + Horizon <= rows[p].at}

(* Mutant of check_demotions: it does not look what is logged.             *)
CheckDemotionsBlind(t) ==
  /\ doing[t] = "idle" /\ doing' = [doing EXCEPT ![t] = "demoting"]
  /\ Cardinality(Counted) >= MinPredictions
  /\ UNCHANGED <<rows, saved, lock, since, todo, demotions, now>>

(* check_demotions, when the coefficient is too low and nothing is logged. *)
CheckDemotions(t) ==
  /\ doing[t] = "idle" /\ doing' = [doing EXCEPT ![t] = "demoting"]
  /\ Cardinality(Counted) >= MinPredictions
  /\ demotions = 0
  /\ UNCHANGED <<rows, saved, lock, since, todo, demotions, now>>

(* _log_demotion commits, whatever a sweep has written so far.             *)
LogDemotion(t) ==
  /\ doing[t] = "demoting" /\ doing' = [doing EXCEPT ![t] = "idle"]
  /\ demotions' = demotions + 1
  /\ rows' = rows /\ Commit
  /\ UNCHANGED <<lock, since, todo, now>>

-----------------------------------------------------------------------------
Tick == now < MaxTime /\ now' = now + 1 /\ UNCHANGED <<rows, saved, lock, doing, since, todo, demotions>>

(* The process stops and starts again: what is not committed is lost.      *)
CrashRestart ==
  /\ rows' = saved
  /\ lock' = {}
  /\ doing' = [t \in Threads |-> "idle"]
  /\ todo' = [t \in Threads |-> {}]
  /\ UNCHANGED <<saved, since, demotions, now>>

PredictionsNext ==
  \/ \E t \in Threads :
       \/ \E time \in Times : RecordPrediction(t, time)
       \/ \E p \in DOMAIN rows, time \in Times : ResolvePrediction(t, p, time)
       \/ ResolveExpired(t)
       \/ \E priced \in SUBSET DOMAIN rows : SelectExpired(t, priced)
       \/ \E p \in DOMAIN rows : UpdateRow(t, p)
       \/ CommitSweep(t) \/ FailSweep(t)
       \/ CheckDemotions(t) \/ LogDemotion(t)
  \/ Tick \/ CrashRestart

PredictionsSpec == PredictionsInit /\ [][PredictionsNext]_predictionVars

-----------------------------------------------------------------------------
(* An outcome that a caller gave is never replaced by the price a sweep    *)
(* happens to have, nor lost: whatever the threads do between the sweep's  *)
(* SELECT and its updates, and through crashes.                            *)
OutcomesKept ==
  [][\A p \in DOMAIN rows :
       rows[p].by = "caller" => p \in DOMAIN rows' /\ rows'[p].by = "caller"]_predictionVars

(* Only a sweep's outcomes are ever not committed, so that a crash loses   *)
(* nothing that the next sweep does not find again.                        *)
SavedUnlessSwept ==
  /\ DOMAIN saved = DOMAIN rows
  /\ \A p \in DOMAIN rows :
       rows[p] = saved[p] \/ (rows[p].by = "sweep" /\ saved[p].by = "nobody")
===============================================================================
