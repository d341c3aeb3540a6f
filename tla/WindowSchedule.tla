--------------------------- MODULE WindowSchedule ---------------------------
(***************************************************************************)
(* Which private units a shard fuzzes: materialize_window.py schedules one *)
(* window of one prefix bucket per shard, from the run number, the shard   *)
(* count and the shard index (hunt.yml:217-223).                           *)
(*                                                                         *)
(* Unit names are numbers, sorted as the code sorts them, and the prefix   *)
(* of a name is its quotient.  Every lane has its own pool and all lanes   *)
(* draw their wave numbers from GITHUB_RUN_NUMBER.                         *)
(***************************************************************************)
EXTENDS Naturals, FiniteSets, FiniteSetsExt

CONSTANTS
    Lanes,           \* lanes, each with a harness and a pool of its own
    Names,           \* private unit names
    NamesPerPrefix,  \* names that share their first two digits
    Common,          \* the public seeds
    WindowSize,      \* WINDOW_SIZE
    ShardCounts,     \* shard counts that plan_wave.sh admits
    InitPools,       \* pools a lane may start from
    MaxNew,          \* bound on the units that one aggregation adds
    MaxWave          \* bound on GITHUB_RUN_NUMBER

ASSUME WindowConstants ==
    /\ Names \subseteq Nat /\ ShardCounts \subseteq Nat \ {0}
    /\ NamesPerPrefix \in Nat \ {0} /\ InitPools \subseteq SUBSET Names
    /\ IsFiniteSet(Names) /\ IsFiniteSet(Common) /\ WindowSize \in Nat
    /\ 1 <= Cardinality(Common) /\ Cardinality(Common) < WindowSize

VARIABLES
    pool,    \* lane -> names in corpus/<harness>
    wave,    \* GITHUB_RUN_NUMBER of the latest run
    run,     \* its plan: lane, count and the inventory at the pinned revision
    phase,   \* "idle" before the first run, "hunting", "merged", "lost"
    chosen,  \* shard -> private units of its window
    hist     \* observation: lane -> the waves completed over today's pool

vars == <<pool, wave, run, phase, chosen, hist>>

Shards == 0 .. (run.count - 1)

(***************************************************************************)
(* The schedule.                                                           *)
(***************************************************************************)
Prefix(n) == n \div NamesPerPrefix

Prefixes(inv) == {Prefix(n) : n \in inv}

\* Position of an element in the sorted list of a set of numbers.
Rank(x, S) == Cardinality({y \in S : y < x})

Capacity == WindowSize - Cardinality(Common)

\* The names of a bucket that are not public seeds.
Bucket(inv, p) == {n \in inv : Prefix(n) = p} \ Common

\* Mutant: the last, partial window is not counted.
WindowCount_Floor(units) ==
    Max({Cardinality(units) \div Capacity, IF units = {} THEN 0 ELSE 1})

WindowCount(units) == (Cardinality(units) + Capacity - 1) \div Capacity

\* Mutant: both ends of the slice are included.
Slice_OneMore(units, i) ==
    {n \in units : /\ i * Capacity <= Rank(n, units)
                   /\ Rank(n, units) <= (i + 1) * Capacity}

Slice(units, i) ==
    {n \in units : /\ i * Capacity <= Rank(n, units)
                   /\ Rank(n, units) < (i + 1) * Capacity}

\* The sorted prefixes take turns: does this one serve the ordinal?
Serves(inv, p, ordinal) ==
    Rank(p, Prefixes(inv)) = ordinal % Cardinality(Prefixes(inv))

Window(inv, w, count, shard) ==
    LET ordinal == w * count + shard
        P == Cardinality(Prefixes(inv))
        bucket == CHOOSE p \in Prefixes(inv) : Serves(inv, p, ordinal)
        units == Bucket(inv, bucket)
        visit == ordinal \div P
    IN  IF inv = {} THEN {}
        ELSE IF WindowCount(units) = 0 THEN {}
        ELSE Slice(units, visit % WindowCount(units))

(***************************************************************************)
(* The observation.                                                        *)
(***************************************************************************)
NoHistory == [count |-> 0, last |-> 0, streak |-> 0, near |-> {}]

Complete == phase \in {"hunting", "merged"} /\ DOMAIN chosen = Shards

\* When the next run begins, the run before extends the history of its lane.
\* Another shard count, a pool that grows and a run that does not complete
\* start the history anew.
Account ==
    IF phase \notin {"hunting", "merged"} THEN hist
    ELSE LET l == run.lane
             next == hist[l].count = run.count /\ hist[l].last + 1 = wave
             units == UNION {chosen[s] : s \in DOMAIN chosen}
         IN  [hist EXCEPT ![l] =
               IF ~Complete \/ pool[l] # run.inv THEN NoHistory
               ELSE [count |-> run.count, last |-> wave,
                     streak |-> IF next THEN hist[l].streak + 1 ELSE 1,
                     near |-> IF next THEN hist[l].near \cup units ELSE units]]

Init ==
    /\ pool \in [Lanes -> InitPools]
    /\ wave = 0
    /\ run \in [lane : Lanes, count : {1}, inv : {{}}]
    /\ phase = "idle" /\ chosen = <<>>
    /\ hist = [l \in Lanes |-> NoHistory]

(***************************************************************************)
(* The run.                                                                *)
(***************************************************************************)

\* The plan of a new run pins the revision, and so the inventory.
Plan(l, count) ==
    /\ wave < MaxWave
    /\ wave' = wave + 1
    /\ run' = [lane |-> l, count |-> count, inv |-> pool[l]]
    /\ phase' = "hunting" /\ chosen' = <<>>
    /\ hist' = Account
    /\ UNCHANGED pool

\* A run takes its number and never hunts: the plan rejects it, or a newer run
\* replaces it while it is pending.
Lose ==
    /\ wave < MaxWave
    /\ wave' = wave + 1
    /\ phase' = "lost" /\ chosen' = <<>>
    /\ hist' = [l \in Lanes |-> NoHistory]
    /\ UNCHANGED <<pool, run>>

\* Mutant: the shard reads the pool as it is now.
materialize_Head(s) ==
    /\ phase \in {"hunting", "merged"}
    /\ chosen' = [x \in DOMAIN chosen \cup {s} |->
                    IF x = s THEN Window(pool[run.lane], wave, run.count, s)
                    ELSE chosen[x]]
    /\ UNCHANGED <<pool, wave, run, phase, hist>>

\* A shard of the run materializes its window, for the first time or in a
\* re-run of failed jobs, which may come after an aggregation.
materialize(s) ==
    /\ phase \in {"hunting", "merged"}
    /\ chosen' = [x \in DOMAIN chosen \cup {s} |->
                    IF x = s THEN Window(run.inv, wave, run.count, s)
                    ELSE chosen[x]]
    /\ UNCHANGED <<pool, wave, run, phase, hist>>

\* The aggregate job adds what the shards learned; it runs although some of
\* them failed.
Aggregate(new) ==
    /\ phase = "hunting"
    /\ new # {} => chosen # <<>>
    /\ pool' = [pool EXCEPT ![run.lane] = @ \cup new]
    /\ phase' = "merged"
    /\ hist' = IF new = {} THEN hist
               ELSE [hist EXCEPT ![run.lane] = NoHistory]
    /\ UNCHANGED <<wave, run, chosen>>

New == IF phase = "hunting"
       THEN {n \in SUBSET (Names \ pool[run.lane]) : Cardinality(n) <= MaxNew}
       ELSE {}

Next ==
    \/ \E l \in Lanes, count \in ShardCounts : Plan(l, count)
    \/ Lose
    \/ \E s \in Shards : materialize(s)
    \/ \E new \in New : Aggregate(new)

Spec == Init /\ [][Next]_vars

(***************************************************************************)
(* Properties.                                                             *)
(***************************************************************************)

\* The workflow's own bound holds for every shard: with the public seeds a
\* window has between 1 and WindowSize units (hunt.yml:235-236).  Its private
\* units are of the pinned pool and of the one bucket that the shard's ordinal
\* selects, and there are none only if that bucket has none
\* (materialize_window.py:382-401).
WindowFits ==
    \A s \in DOMAIN chosen :
        /\ Cardinality(Common \cup chosen[s]) \in 1 .. WindowSize
        /\ chosen[s] \cap Common = {} /\ chosen[s] \subseteq run.inv
        /\ \A p \in Prefixes(run.inv) :
              Serves(run.inv, p, wave * run.count + s) =>
                /\ chosen[s] \subseteq Bucket(run.inv, p)
                /\ chosen[s] = {} => Bucket(run.inv, p) = {}

\* Shards that cover every bucket as often as the longest one has windows.
Enough(l) ==
    Cardinality(Prefixes(pool[l]))
      * Max({WindowCount(Bucket(pool[l], p)) : p \in Prefixes(pool[l])} \cup {0})

\* Coverage: complete waves of one lane with consecutive run numbers, one shard
\* count and an unchanged pool have fuzzed every private unit once there were
\* enough shards, wherever in the ordinal stream they began.
CoverageBound ==
    \A l \in Lanes :
        hist[l].streak > 0 /\ hist[l].streak * hist[l].count >= Enough(l)
          => pool[l] \ Common \subseteq hist[l].near

\* "retries of a pinned wave remain stable": a re-run of a shard gets the window
\* it had, although the pool has grown in between.
RetriesAreStable ==
    [][ wave' = wave =>
          \A s \in DOMAIN chosen :
              s \in DOMAIN chosen' /\ chosen'[s] = chosen[s] ]_vars
=============================================================================
