------------------------- MODULE HuntWorkflowProofs -------------------------
(***************************************************************************)
(* For every set of runs and shards and every number of attempts: the      *)
(* types of the workflow, one pinned revision per run, and no moving base. *)
(*                                                                         *)
(* None of the safety properties is inductive.  That the shards of all     *)
(* attempts read one revision rests on where pins come from: only the plan *)
(* of the first attempt pins, and before it no shard has read.  That the   *)
(* base of an aggregation does not move rests on the concurrency group:    *)
(* one run is in progress, a run that waits has no branch of its present   *)
(* attempt, and so all that a run in progress published is based on the    *)
(* present head of the pool until it merges it.                            *)
(***************************************************************************)
EXTENDS HuntWorkflow, TLAPS

\* What was read is what is pinned, and a run that has read has its pin from
\* a plan that is never repeated.
ReadsArePinned ==
    \A x \in reads : /\ x.sha = pin[x.run]
                     /\ attempt[x.run] > 1 \/ plan[x.run] = "success"

OneInProgress ==
    \A r, x \in Runs : st[r] = "running" /\ st[x] = "running" => r = x

AggregationIsInProgress ==
    \A r \in Runs : aggr[r] = "running" => st[r] = "running"

\* Branches are of attempts so far, and of the present one only once it started.
BranchesAreStarted ==
    \A b \in branches :
        /\ b.attempt <= attempt[b.run]
        /\ b.attempt = attempt[b.run] => st[b.run] \in {"running", "done"}

BasesAreFresh ==
    \A b \in branches \ merged :
        st[b.run] = "running" /\ b.attempt = attempt[b.run] => b.parent = rev

WorkflowInv ==
    /\ TypeOK
    /\ ReadsArePinned
    /\ OneInProgress /\ AggregationIsInProgress
    /\ BranchesAreStarted /\ BasesAreFresh

-----------------------------------------------------------------------------
LEMMA InitWorkflow == Init => WorkflowInv
  BY WorkflowConstants
  DEF Init, WorkflowInv, TypeOK, ReadsArePinned, OneInProgress,
      AggregationIsInProgress, BranchesAreStarted, BasesAreFresh, Results, Ended

\* The queue of the concurrency group: whatever is in progress stays so
\* (hunt.yml:55-57).
LEMMA EnqueueKeepsProgress ==
    ASSUME TypeOK, NEW r \in Runs, st[r] # "running", Enqueue(r)
    PROVE  /\ st' \in [Runs -> {"idle", "pending", "running", "done",
                                "cancelled"}]
           /\ st'[r] = "pending"
           /\ \A x \in Runs : /\ st'[x] = "running" <=> st[x] = "running"
                              /\ x # r => (st'[x] = "done" <=> st[x] = "done")
  BY DEF Enqueue, TypeOK

\* A new attempt of a run (hunt.yml:83-93 rejects a full one in its plan).
LEMMA NextAttemptKeeps ==
    ASSUME WorkflowInv, NEW r \in Runs, NextAttempt(r),
           plan' \in [Runs -> Results],
           \A x \in Runs \ {r} : plan'[x] = plan[x],
           hunt' \in [Runs -> [Shards -> Results]],
           aggr' = [aggr EXCEPT ![r] = "waiting"],
           UNCHANGED <<pin, rev, branches, merged, reads>>
    PROVE  WorkflowInv'
<1>1. /\ attempt' = [attempt EXCEPT ![r] = @ + 1]
      /\ attempt[r] < MaxAttempts /\ st[r] \in {"done", "cancelled"}
      /\ Enqueue(r)
  BY DEF NextAttempt
<1>2. /\ st' \in [Runs -> {"idle", "pending", "running", "done", "cancelled"}]
      /\ st'[r] = "pending"
      /\ \A x \in Runs : /\ st'[x] = "running" <=> st[x] = "running"
                         /\ x # r => (st'[x] = "done" <=> st[x] = "done")
  BY <1>1, EnqueueKeepsProgress DEF WorkflowInv
<1>3. TypeOK'
  <2>1. attempt' \in [Runs -> 1 .. MaxAttempts]
    BY <1>1, WorkflowConstants DEF WorkflowInv, TypeOK
  <2>2. aggr' \in [Runs -> Results]
    BY DEF WorkflowInv, TypeOK, Results
  <2> QED
    BY <1>2, <2>1, <2>2 DEF WorkflowInv, TypeOK
<1>4. ReadsArePinned'
  <2> SUFFICES ASSUME NEW x \in reads
               PROVE  x.sha = pin[x.run]
                      /\ (attempt'[x.run] > 1 \/ plan'[x.run] = "success")
    BY DEF ReadsArePinned
  <2>1. x.run \in Runs /\ attempt[x.run] \in 1 .. MaxAttempts
    BY DEF WorkflowInv, TypeOK
  <2>2. attempt'[x.run] = IF x.run = r THEN attempt[r] + 1 ELSE attempt[x.run]
    BY <1>1, <2>1 DEF WorkflowInv, TypeOK
  <2> QED
    BY <2>1, <2>2 DEF WorkflowInv, ReadsArePinned
<1>5. OneInProgress' /\ AggregationIsInProgress'
  BY <1>1, <1>2
  DEF WorkflowInv, TypeOK, OneInProgress, AggregationIsInProgress
<1>6. ASSUME NEW b \in branches
      PROVE  /\ b.run \in Runs /\ b.attempt \in Nat
             /\ attempt[b.run] \in Nat
             /\ attempt'[b.run] = IF b.run = r THEN attempt[r] + 1
                                  ELSE attempt[b.run]
  BY <1>1, WorkflowConstants DEF WorkflowInv, TypeOK
<1>7. BranchesAreStarted'
  BY <1>2, <1>6 DEF WorkflowInv, BranchesAreStarted
<1>8. BasesAreFresh'
  BY <1>2, <1>6 DEF WorkflowInv, BasesAreFresh
<1> QED
  BY <1>3, <1>4, <1>5, <1>7, <1>8 DEF WorkflowInv

LEMMA NextWorkflow ==
    ASSUME WorkflowInv, [Next]_vars
    PROVE  WorkflowInv'
<1> USE DEF WorkflowInv
<1>0. ASSUME NEW r \in Runs, Dispatch(r)
      PROVE  WorkflowInv'
  <2>1. st[r] = "idle" /\ Enqueue(r)
        /\ UNCHANGED <<attempt, plan, pin, hunt, aggr, rev, branches, merged,
                       reads>>
    BY <1>0 DEF Dispatch, jobs, brain
  <2>2. /\ st' \in [Runs -> {"idle", "pending", "running", "done",
                             "cancelled"}]
        /\ st'[r] = "pending"
        /\ \A x \in Runs : /\ st'[x] = "running" <=> st[x] = "running"
                           /\ x # r => (st'[x] = "done" <=> st[x] = "done")
    BY <2>1, EnqueueKeepsProgress
  <2>3. ASSUME NEW b \in branches
        PROVE  b.run \in Runs /\ b.attempt \in Nat /\ attempt[b.run] \in Nat
    BY DEF TypeOK
  <2> QED
    BY <2>1, <2>2, <2>3 DEF TypeOK, ReadsArePinned, OneInProgress,
       AggregationIsInProgress, BranchesAreStarted, BasesAreFresh
<1>1. ASSUME NEW r \in Runs, Start(r)
      PROVE  WorkflowInv'
  <2>1. /\ st[r] = "pending" /\ \A x \in Runs : st[x] # "running"
        /\ st' = [st EXCEPT ![r] = "running"]
        /\ UNCHANGED <<attempt, plan, pin, hunt, aggr, rev, branches, merged,
                       reads>>
    BY <1>1 DEF Start, jobs, brain
  <2>2. TypeOK' /\ ReadsArePinned'
    BY <2>1 DEF TypeOK, ReadsArePinned
  <2>3. OneInProgress' /\ AggregationIsInProgress'
    BY <2>1 DEF TypeOK, OneInProgress, AggregationIsInProgress
  <2>4. ASSUME NEW b \in branches
        PROVE  b.run \in Runs
    BY DEF TypeOK
  <2>5. BranchesAreStarted' /\ BasesAreFresh'
    BY <2>1, <2>4 DEF TypeOK, BranchesAreStarted, BasesAreFresh
  <2> QED
    BY <2>2, <2>3, <2>5
<1>2. ASSUME NEW r \in Runs, PlanSucceeds(r)
      PROVE  WorkflowInv'
  <2>1. /\ plan[r] = "waiting" /\ attempt[r] = 1
        /\ plan' = [plan EXCEPT ![r] = "success"]
        /\ pin' = [pin EXCEPT ![r] = rev]
        /\ UNCHANGED <<st, attempt, hunt, aggr, rev, branches, merged, reads>>
    BY <1>2 DEF PlanSucceeds, brain
  <2>2. TypeOK'
    BY <2>1 DEF TypeOK, Results, Ended
  <2>3. ReadsArePinned'
    <3>1. ASSUME NEW x \in reads
          PROVE  x.run # r /\ x.run \in Runs
      BY <2>1 DEF ReadsArePinned, TypeOK
    <3> QED
      BY <2>1, <3>1 DEF ReadsArePinned, TypeOK
  <2> QED
    BY <2>1, <2>2, <2>3 DEF OneInProgress, AggregationIsInProgress,
       BranchesAreStarted, BasesAreFresh
<1>3. ASSUME NEW r \in Runs, PlanFails(r)
      PROVE  WorkflowInv'
  <2>1. /\ plan[r] = "waiting"
        /\ plan' = [plan EXCEPT ![r] = "failure"]
        /\ hunt' = [hunt EXCEPT ![r] = [s \in Shards |-> "skipped"]]
        /\ aggr' = [aggr EXCEPT ![r] = "skipped"]
        /\ UNCHANGED <<st, attempt, pin, rev, branches, merged, reads>>
    BY <1>3 DEF PlanFails, brain
  <2>2. TypeOK'
    BY <2>1 DEF TypeOK, Results, Ended
  <2>3. ReadsArePinned'
    <3>1. ASSUME NEW x \in reads
          PROVE  x.run \in Runs
      BY DEF TypeOK
    <3> QED
      BY <2>1, <3>1 DEF ReadsArePinned, TypeOK
  <2> QED
    BY <2>1, <2>2, <2>3 DEF TypeOK, OneInProgress, AggregationIsInProgress,
       BranchesAreStarted, BasesAreFresh
<1>4. ASSUME NEW r \in Runs, NEW s \in Shards, ShardStart(r, s)
      PROVE  WorkflowInv'
  <2>1. /\ plan[r] = "success"
        /\ hunt' = [hunt EXCEPT ![r][s] = "running"]
        /\ reads' = reads \cup {[run |-> r, shard |-> s, sha |-> pin[r]]}
        /\ UNCHANGED <<st, attempt, plan, pin, aggr, rev, branches, merged>>
    BY <1>4 DEF ShardStart, brain
  <2>2. TypeOK'
    <3>1. hunt' \in [Runs -> [Shards -> Results]]
      BY <2>1 DEF TypeOK, Results
    <3>2. [run |-> r, shard |-> s, sha |-> pin[r]]
             \in [run : Runs, shard : Shards, sha : Nat]
      BY DEF TypeOK
    <3> QED
      BY <2>1, <3>1, <3>2 DEF TypeOK
  <2>3. ReadsArePinned'
    BY <2>1 DEF ReadsArePinned
  <2> QED
    BY <2>1, <2>2, <2>3 DEF OneInProgress, AggregationIsInProgress,
       BranchesAreStarted, BasesAreFresh
<1>5. ASSUME NEW r \in Runs, NEW s \in Shards, ShardPublish(r, s)
      PROVE  WorkflowInv'
  <2> DEFINE new == [run |-> r, attempt |-> attempt[r], shard |-> s,
                     parent |-> rev]
  <2>1. /\ st[r] = "running"
        /\ branches' = branches \cup {new}
        /\ UNCHANGED <<st, attempt, plan, pin, hunt, aggr, rev, merged, reads>>
    BY <1>5 DEF ShardPublish, jobs
  <2>2. new \in [run : Runs, attempt : 1 .. MaxAttempts, shard : Shards,
                 parent : Nat]
    BY DEF TypeOK
  <2>3. TypeOK'
    BY <2>1, <2>2 DEF TypeOK
  <2>4. /\ new.run = r /\ new.attempt = attempt[r] /\ new.parent = rev
        /\ attempt[r] \in Nat
    BY WorkflowConstants DEF TypeOK
  <2> HIDE DEF new
  <2>5. BranchesAreStarted' /\ BasesAreFresh'
    BY <2>1, <2>4 DEF BranchesAreStarted, BasesAreFresh
  <2> QED
    BY <2>1, <2>3, <2>5
    DEF ReadsArePinned, OneInProgress, AggregationIsInProgress
<1>6. ASSUME NEW r \in Runs, NEW s \in Shards,
             NEW result \in {"success", "failure"}, ShardEnd(r, s, result)
      PROVE  WorkflowInv'
  <2>1. /\ hunt' = [hunt EXCEPT ![r][s] = result]
        /\ UNCHANGED <<st, attempt, plan, pin, aggr, rev, branches, merged,
                       reads>>
    BY <1>6 DEF ShardEnd, brain
  <2>2. TypeOK'
    BY <2>1 DEF TypeOK, Results, Ended
  <2> QED
    BY <2>1, <2>2 DEF ReadsArePinned, OneInProgress, AggregationIsInProgress,
       BranchesAreStarted, BasesAreFresh
<1>7. ASSUME NEW r \in Runs, AggregateStart(r) \/ AggregateFails(r)
      PROVE  WorkflowInv'
  <2>1. /\ st[r] = "running"
        /\ \E result \in Results : aggr' = [aggr EXCEPT ![r] = result]
        /\ UNCHANGED <<st, attempt, plan, pin, hunt, rev, branches, merged,
                       reads>>
    BY <1>7 DEF AggregateStart, AggregateFails, brain, Results, Ended
  <2>2. TypeOK'
    BY <2>1 DEF TypeOK
  <2>3. AggregationIsInProgress'
    BY <2>1 DEF AggregationIsInProgress, TypeOK
  <2> QED
    BY <2>1, <2>2, <2>3 DEF ReadsArePinned, OneInProgress,
       BranchesAreStarted, BasesAreFresh
<1>8. ASSUME NEW r \in Runs, AggregatePushes(r)
      PROVE  WorkflowInv'
  <2>1. /\ st[r] = "running" /\ rev' = rev + 1
        /\ merged' = merged \cup Wave(r)
        /\ \E result \in {"success", "failure"} :
              aggr' = [aggr EXCEPT ![r] = result]
        /\ UNCHANGED <<st, attempt, plan, pin, hunt, branches, reads>>
    BY <1>8 DEF AggregatePushes
  <2>2. TypeOK'
    BY <2>1 DEF TypeOK, Results, Ended, Wave
  <2>3. AggregationIsInProgress'
    BY <2>1 DEF AggregationIsInProgress, TypeOK
  <2>4. BasesAreFresh'
    <3> SUFFICES ASSUME NEW b \in branches, b \notin merged \cup Wave(r),
                        st[b.run] = "running", b.attempt = attempt[b.run]
                 PROVE  FALSE
      BY <2>1 DEF BasesAreFresh
    <3>1. b.run = r
      BY <2>1 DEF TypeOK, OneInProgress
    <3> QED
      BY <3>1 DEF Wave
  <2> QED
    BY <2>1, <2>2, <2>3, <2>4 DEF ReadsArePinned, OneInProgress,
       BranchesAreStarted
<1>9. ASSUME NEW r \in Runs, Complete(r)
      PROVE  WorkflowInv'
  <2>1. /\ st[r] = "running" /\ aggr[r] \in Ended
        /\ st' = [st EXCEPT ![r] = "done"]
        /\ UNCHANGED <<attempt, plan, pin, hunt, aggr, rev, branches, merged,
                       reads>>
    BY <1>9 DEF Complete, AllEnded, jobs, brain
  <2>2. TypeOK' /\ ReadsArePinned'
    BY <2>1 DEF TypeOK, ReadsArePinned
  <2>3. OneInProgress' /\ AggregationIsInProgress'
    BY <2>1 DEF TypeOK, OneInProgress, AggregationIsInProgress, Ended
  <2>4. ASSUME NEW b \in branches
        PROVE  b.run \in Runs
    BY DEF TypeOK
  <2>5. BranchesAreStarted' /\ BasesAreFresh'
    BY <2>1, <2>4 DEF TypeOK, BranchesAreStarted, BasesAreFresh
  <2> QED
    BY <2>2, <2>3, <2>5
<1>10. ASSUME NEW r \in Runs, Cancel(r)
       PROVE  WorkflowInv'
  <2>1. /\ hunt' = [hunt EXCEPT ![r] =
                      [s \in Shards |-> IF hunt[r][s] \in Ended
                                        THEN hunt[r][s] ELSE "failure"]]
        /\ UNCHANGED <<st, attempt, plan, pin, aggr, rev, branches, merged,
                       reads>>
    BY <1>10 DEF Cancel, brain
  <2>2. TypeOK'
    BY <2>1 DEF TypeOK, Results, Ended
  <2> QED
    BY <2>1, <2>2 DEF ReadsArePinned, OneInProgress, AggregationIsInProgress,
       BranchesAreStarted, BasesAreFresh
<1>11. ASSUME NEW r \in Runs, CancelPending(r)
       PROVE  WorkflowInv'
  <2>1. /\ st[r] = "pending" /\ st' = [st EXCEPT ![r] = "cancelled"]
        /\ UNCHANGED <<attempt, plan, pin, hunt, aggr, rev, branches, merged,
                       reads>>
    BY <1>11 DEF CancelPending, jobs, brain
  <2>2. TypeOK' /\ ReadsArePinned'
    BY <2>1 DEF TypeOK, ReadsArePinned
  <2>3. OneInProgress' /\ AggregationIsInProgress'
    BY <2>1 DEF TypeOK, OneInProgress, AggregationIsInProgress
  <2>4. ASSUME NEW b \in branches
        PROVE  b.run \in Runs
    BY DEF TypeOK
  <2>5. BranchesAreStarted' /\ BasesAreFresh'
    BY <2>1, <2>4 DEF TypeOK, BranchesAreStarted, BasesAreFresh
  <2> QED
    BY <2>2, <2>3, <2>5
<1>12. ASSUME NEW r \in Runs, RerunFailed(r)
       PROVE  WorkflowInv'
  <2> DEFINE redo(result) == IF result = "success" THEN "success"
                             ELSE "waiting"
  <2>1. /\ NextAttempt(r)
        /\ plan' = [plan EXCEPT ![r] = redo(@)]
        /\ hunt' = [hunt EXCEPT ![r] = [s \in Shards |-> redo(hunt[r][s])]]
        /\ aggr' = [aggr EXCEPT ![r] = "waiting"]
        /\ UNCHANGED <<pin, rev, branches, merged, reads>>
    BY <1>12 DEF RerunFailed, brain
  <2>2. /\ plan' \in [Runs -> Results]
        /\ \A x \in Runs \ {r} : plan'[x] = plan[x]
        /\ hunt' \in [Runs -> [Shards -> Results]]
    BY <2>1 DEF TypeOK, Results, Ended
  <2> QED
    BY <2>1, <2>2, NextAttemptKeeps
<1>13. ASSUME NEW r \in Runs, RerunAll(r)
       PROVE  WorkflowInv'
  <2>1. /\ NextAttempt(r)
        /\ plan' = [plan EXCEPT ![r] = "waiting"]
        /\ hunt' = [hunt EXCEPT ![r] = [s \in Shards |-> "waiting"]]
        /\ aggr' = [aggr EXCEPT ![r] = "waiting"]
        /\ UNCHANGED <<pin, rev, branches, merged, reads>>
    BY <1>13 DEF RerunAll, brain
  <2>2. /\ plan' \in [Runs -> Results]
        /\ \A x \in Runs \ {r} : plan'[x] = plan[x]
        /\ hunt' \in [Runs -> [Shards -> Results]]
    BY <2>1 DEF TypeOK, Results, Ended
  <2> QED
    BY <2>1, <2>2, NextAttemptKeeps
<1>14. ASSUME UNCHANGED vars
       PROVE  WorkflowInv'
  BY <1>14 DEF vars, TypeOK, ReadsArePinned, OneInProgress,
     AggregationIsInProgress, BranchesAreStarted, BasesAreFresh
<1> QED
  BY <1>0, <1>1, <1>2, <1>3, <1>4, <1>5, <1>6, <1>7, <1>8, <1>9, <1>10,
     <1>11, <1>12, <1>13, <1>14
  DEF Next, JobStep, OperatorStep

LEMMA WorkflowInvariance == Spec => []WorkflowInv
  BY InitWorkflow, NextWorkflow, PTL DEF Spec

-----------------------------------------------------------------------------
\* Type correctness of runs, jobs and the brain (hunt.yml).
THEOREM WorkflowTypes == Spec => []TypeOK
<1>1. WorkflowInv => TypeOK
  BY DEF WorkflowInv
<1> QED
  BY <1>1, WorkflowInvariance, PTL

\* Every shard of a run, of any attempt and any number of re-runs, reads the
\* revision that the first plan pinned (hunt.yml:83-93,112-120,182-189).
THEOREM RunsReadOneRevision == Spec => []OneRevisionPerRun
<1>1. WorkflowInv => OneRevisionPerRun
  BY DEF WorkflowInv, ReadsArePinned, OneRevisionPerRun
<1> QED
  BY <1>1, WorkflowInvariance, PTL

\* With any number of runs that queue, replace each other and are re-run, the
\* base of an aggregation is the head that its branches were published on
\* (hunt.yml:55-57,391-410).
THEOREM BaseNeverMoves == Spec => []NoMovingBase
<1>1. WorkflowInv => NoMovingBase
  BY DEF WorkflowInv, AggregationIsInProgress, BasesAreFresh, NoMovingBase,
         Wave
<1> QED
  BY <1>1, WorkflowInvariance, PTL
=============================================================================
