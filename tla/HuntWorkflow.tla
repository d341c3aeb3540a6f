---------------------------- MODULE HuntWorkflow ----------------------------
(***************************************************************************)
(* The jobs of .github/workflows/hunt.yml: plan pins a brain revision, a   *)
(* matrix of hunt shards publishes ingest branches, and aggregate folds    *)
(* the branches of its own run and attempt into corpus-pool.               *)
(*                                                                         *)
(* Runs queue in one concurrency group.  An operator may cancel a run, re- *)
(* run its failed jobs or re-run all of it.  A publication and a push to   *)
(* the pool are single steps here: BrainIngest proves that they are.       *)
(***************************************************************************)
EXTENDS Naturals, FiniteSets

CONSTANTS
    Runs,          \* workflow runs
    Shards,        \* the matrix
    MaxAttempts,   \* bound on run_attempt
    Rerunnable     \* bound on the runs that the operator ever re-runs

ASSUME WorkflowConstants ==
    MaxAttempts \in Nat \ {0} /\ Shards # {} /\ Rerunnable \subseteq Runs

VARIABLES
    st,        \* run -> state of its current attempt
    attempt,   \* run -> github.run_attempt
    plan,      \* run -> result of job plan
    pin,       \* run -> needs.plan.outputs.brain_sha
    hunt,      \* run -> shard -> result of the matrix job
    aggr,      \* run -> result of job aggregate
    rev,       \* revision at the head of corpus-pool
    branches,  \* ingest branches, with the revision they are based on
    merged,    \* the branches that are in the pool
    reads      \* observation: which revision each shard execution read

vars == <<st, attempt, plan, pin, hunt, aggr, rev, branches, merged, reads>>
jobs == <<plan, pin, hunt, aggr>>
brain == <<rev, branches, merged>>

Ended == {"success", "failure", "skipped"}

Init ==
    /\ st = [r \in Runs |-> "idle"]
    /\ attempt = [r \in Runs |-> 1]
    /\ plan = [r \in Runs |-> "waiting"]
    /\ pin = [r \in Runs |-> 0]
    /\ hunt = [r \in Runs |-> [s \in Shards |-> "waiting"]]
    /\ aggr = [r \in Runs |-> "waiting"]
    /\ rev = 0
    /\ branches = {} /\ merged = {} /\ reads = {}

(***************************************************************************)
(* The concurrency group: one run in progress, one pending; a newer        *)
(* pending run replaces the older one.                                     *)
(***************************************************************************)
Enqueue(r) ==
    st' = [x \in Runs |-> IF x = r THEN "pending"
                          ELSE IF st[x] = "pending" THEN "cancelled"
                          ELSE st[x]]

\* The schedule or a workflow_dispatch creates a run.
Dispatch(r) ==
    /\ st[r] = "idle"
    /\ Enqueue(r)
    /\ UNCHANGED <<attempt, jobs, brain, reads>>

\* Mutant: no concurrency group.
Start_Ungrouped(r) ==
    /\ st[r] = "pending"
    /\ st' = [st EXCEPT ![r] = "running"]
    /\ UNCHANGED <<attempt, jobs, brain, reads>>

Start(r) ==
    /\ st[r] = "pending"
    /\ \A x \in Runs : st[x] # "running"
    /\ st' = [st EXCEPT ![r] = "running"]
    /\ UNCHANGED <<attempt, jobs, brain, reads>>

(***************************************************************************)
(* Jobs.                                                                   *)
(***************************************************************************)

\* Mutant: a full re-run is accepted and pins again.
PlanSucceeds_Rerun(r) ==
    /\ st[r] = "running" /\ plan[r] = "waiting"
    /\ plan' = [plan EXCEPT ![r] = "success"]
    /\ pin' = [pin EXCEPT ![r] = rev]
    /\ UNCHANGED <<st, attempt, hunt, aggr, brain, reads>>

\* Resolve one revision of corpus-pool and accept the wave.  A full re-run
\* is rejected before anything is resolved.
PlanSucceeds(r) ==
    /\ st[r] = "running" /\ plan[r] = "waiting"
    /\ attempt[r] = 1
    /\ plan' = [plan EXCEPT ![r] = "success"]
    /\ pin' = [pin EXCEPT ![r] = rev]
    /\ UNCHANGED <<st, attempt, hunt, aggr, brain, reads>>

\* Mutant: aggregate is always() and waits for a plan that never succeeds.
PlanFails_AggregateWaits(r) ==
    /\ st[r] = "running" /\ plan[r] = "waiting"
    /\ plan' = [plan EXCEPT ![r] = "failure"]
    /\ hunt' = [hunt EXCEPT ![r] = [s \in Shards |-> "skipped"]]
    /\ UNCHANGED <<st, attempt, pin, aggr, brain, reads>>

\* A gate of the plan closes: every later job is skipped.
PlanFails(r) ==
    /\ st[r] = "running" /\ plan[r] = "waiting"
    /\ plan' = [plan EXCEPT ![r] = "failure"]
    /\ hunt' = [hunt EXCEPT ![r] = [s \in Shards |-> "skipped"]]
    /\ aggr' = [aggr EXCEPT ![r] = "skipped"]
    /\ UNCHANGED <<st, attempt, pin, brain, reads>>

\* A shard checks out the brain at the pinned revision.
ShardStart(r, s) ==
    /\ st[r] = "running" /\ plan[r] = "success"
    /\ hunt[r][s] = "waiting"
    /\ hunt' = [hunt EXCEPT ![r][s] = "running"]
    /\ reads' = reads \cup {[run |-> r, shard |-> s, sha |-> pin[r]]}
    /\ UNCHANGED <<st, attempt, plan, pin, aggr, brain>>

Branch(r, s) == {b \in branches :
                   b.run = r /\ b.attempt = attempt[r] /\ b.shard = s}

\* publish_ingest.sh: a branch of this attempt, based on the present pool.
ShardPublish(r, s) ==
    /\ st[r] = "running" /\ hunt[r][s] = "running"
    /\ Branch(r, s) = {}
    /\ branches' = branches \cup {[run |-> r, attempt |-> attempt[r],
                                   shard |-> s, parent |-> rev]}
    /\ UNCHANGED <<st, attempt, jobs, rev, merged, reads>>

\* Success needs every step, so the publication too; a failure may come
\* before it, from it (lost acknowledgement), or after it (a finding makes
\* enforce_summary_status.py exit non-zero).
ShardEnd(r, s, result) ==
    /\ st[r] = "running" /\ hunt[r][s] = "running"
    /\ result = "success" => Branch(r, s) # {}
    /\ hunt' = [hunt EXCEPT ![r][s] = result]
    /\ UNCHANGED <<st, attempt, plan, pin, aggr, brain, reads>>

\* if: always() && needs.plan.result == 'success', needs: [plan, hunt]
AggregateStart(r) ==
    /\ st[r] = "running" /\ plan[r] = "success" /\ aggr[r] = "waiting"
    /\ \A s \in Shards : hunt[r][s] \in Ended
    /\ aggr' = [aggr EXCEPT ![r] = "running"]
    /\ UNCHANGED <<st, attempt, plan, pin, hunt, brain, reads>>

\* Mutant: the planned set instead of the published one.
Wave_Planned(r) ==
    {[run |-> r, attempt |-> attempt[r], shard |-> s, parent |-> pin[r]] :
        s \in Shards}

\* The branches that aggregate_ingest.sh RUN_ID RUN_ATTEMPT selects.
Wave(r) == {b \in branches : b.run = r /\ b.attempt = attempt[r]}

\* The push is applied; the job may still fail on a lost acknowledgement.
AggregatePushes(r) ==
    /\ st[r] = "running" /\ aggr[r] = "running"
    /\ ~(Wave(r) \subseteq merged)
    /\ merged' = merged \cup Wave(r)
    /\ rev' = rev + 1
    /\ \E result \in {"success", "failure"} :
          aggr' = [aggr EXCEPT ![r] = result]
    /\ UNCHANGED <<st, attempt, plan, pin, hunt, branches, reads>>

\* Any command fails; with nothing to stage the commit always does.
AggregateFails(r) ==
    /\ st[r] = "running" /\ aggr[r] = "running"
    /\ aggr' = [aggr EXCEPT ![r] = "failure"]
    /\ UNCHANGED <<st, attempt, plan, pin, hunt, brain, reads>>

AllEnded(r) == /\ plan[r] \in Ended /\ aggr[r] \in Ended
               /\ \A s \in Shards : hunt[r][s] \in Ended

Complete(r) ==
    /\ st[r] = "running" /\ AllEnded(r)
    /\ st' = [st EXCEPT ![r] = "done"]
    /\ UNCHANGED <<attempt, jobs, brain, reads>>

(***************************************************************************)
(* The operator.                                                           *)
(***************************************************************************)

\* Cancelling ends the shards; aggregate runs all the same, being always().
Cancel(r) ==
    /\ st[r] = "running" /\ plan[r] = "success"
    /\ \E s \in Shards : hunt[r][s] \notin Ended
    /\ hunt' = [hunt EXCEPT ![r] =
                  [s \in Shards |-> IF hunt[r][s] \in Ended
                                    THEN hunt[r][s] ELSE "failure"]]
    /\ UNCHANGED <<st, attempt, plan, pin, aggr, brain, reads>>

\* A run that waits in the group leaves it.
CancelPending(r) ==
    /\ st[r] = "pending"
    /\ st' = [st EXCEPT ![r] = "cancelled"]
    /\ UNCHANGED <<attempt, jobs, brain, reads>>

Green(r) == /\ plan[r] = "success" /\ aggr[r] = "success"
            /\ \A s \in Shards : hunt[r][s] = "success"

\* A new attempt of a run that ended or was cancelled while it waited.
NextAttempt(r) ==
    /\ st[r] \in {"done", "cancelled"}
    /\ r \in Rerunnable /\ attempt[r] < MaxAttempts
    /\ attempt' = [attempt EXCEPT ![r] = @ + 1]
    /\ Enqueue(r)

\* "Re-run failed jobs": the failed jobs and those that need them.
RerunFailed(r) ==
    LET redo(result) == IF result = "success" THEN "success" ELSE "waiting"
    IN /\ ~Green(r)
       /\ NextAttempt(r)
       /\ plan' = [plan EXCEPT ![r] = redo(@)]
       /\ hunt' = [hunt EXCEPT ![r] = [s \in Shards |-> redo(hunt[r][s])]]
       /\ aggr' = [aggr EXCEPT ![r] = "waiting"]
       /\ UNCHANGED <<pin, brain, reads>>

\* "Re-run all jobs", offered for green runs too.
RerunAll(r) ==
    /\ NextAttempt(r)
    /\ plan' = [plan EXCEPT ![r] = "waiting"]
    /\ hunt' = [hunt EXCEPT ![r] = [s \in Shards |-> "waiting"]]
    /\ aggr' = [aggr EXCEPT ![r] = "waiting"]
    /\ UNCHANGED <<pin, brain, reads>>

JobStep(r) ==
    \/ Start(r)
    \/ PlanSucceeds(r) \/ PlanFails(r)
    \/ \E s \in Shards :
          \/ ShardStart(r, s) \/ ShardPublish(r, s)
          \/ \E result \in {"success", "failure"} : ShardEnd(r, s, result)
    \/ AggregateStart(r) \/ AggregatePushes(r) \/ AggregateFails(r)
    \/ Complete(r)

OperatorStep(r) == \/ Dispatch(r) \/ Cancel(r) \/ CancelPending(r)
                   \/ RerunFailed(r) \/ RerunAll(r)

Next == \E r \in Runs : JobStep(r) \/ OperatorStep(r)

\* Every job has timeout-minutes and the runner reports its end; nothing
\* obliges the operator.
Fairness == \A r \in Runs : WF_vars(JobStep(r))

Spec == Init /\ [][Next]_vars /\ Fairness

-----------------------------------------------------------------------------
(***************************************************************************)
(* Properties                                                              *)
(***************************************************************************)
Results == {"waiting", "running"} \cup Ended

\* The type invariant of the workflow.
TypeOK ==
    /\ st \in [Runs -> {"idle", "pending", "running", "done", "cancelled"}]
    /\ attempt \in [Runs -> 1 .. MaxAttempts]
    /\ plan \in [Runs -> Results]
    /\ pin \in [Runs -> Nat]
    /\ hunt \in [Runs -> [Shards -> Results]]
    /\ aggr \in [Runs -> Results]
    /\ rev \in Nat
    /\ branches \subseteq [run : Runs, attempt : 1 .. MaxAttempts,
                           shard : Shards, parent : Nat]
    /\ merged \subseteq branches
    /\ reads \subseteq [run : Runs, shard : Shards, sha : Nat]

\* Every shard execution of a run, in whatever attempt, reads the one brain
\* revision that its plan pinned (hunt.yml:83-93,112-120,182-189), although
\* the pool moves between attempts.
OneRevisionPerRun ==
    \A x, y \in reads : x.run = y.run => x.sha = y.sha

\* When an aggregation runs, the branches it selects are based on the very
\* revision it is about to replace (hunt.yml:55-57,391-410).  This is not what
\* aggregate_ingest.sh:76-80 expects, that a branch is pinned to the plan's
\* brain_sha and "another wave merges first": the publisher starts from the
\* pool as it is then (publish_ingest.sh:75), and in this workflow no wave
\* merges between a publication and its aggregation.
NoMovingBase ==
    \A r \in Runs : aggr[r] = "running" =>
        \A b \in Wave(r) \ merged : b.parent = rev

\* A wave that was dispatched runs to its end or is replaced by a newer one
\* while it waits (hunt.yml:55-57 and the job timeouts).
EveryRunEnds ==
    \A r \in Runs : st[r] \in {"pending", "running"}
                       ~> st[r] \in {"done", "cancelled"}

\* A run that ends green has consolidated everything that it published: to
\* skip published corpus "lo perderia en silencio"
\* (aggregate_ingest.sh:50-52), and the step claims "the exact private
\* ingest set" (hunt.yml:406).
GreenRunIsMerged ==
    \A r \in Runs : st[r] = "done" /\ Green(r) =>
        \A b \in branches : b.run = r => b \in merged
=============================================================================
