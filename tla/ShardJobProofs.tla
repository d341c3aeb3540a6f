--------------------------- MODULE ShardJobProofs ---------------------------
(***************************************************************************)
(* For every set of surfaces and artifacts: however a shard job goes, the  *)
(* plaintext is gone at its end, what it publishes is sound, a green job   *)
(* is a clean one, and the public line is true.                            *)
(*                                                                         *)
(* The steps run in order and each one once, so an outcome, once set, does *)
(* not change; the invariant attaches to each outcome what its step left.  *)
(***************************************************************************)
EXTENDS ShardJob, TLAPS

\* A step has an outcome exactly when the job is past it.
OutcomesAreDue ==
    \A i \in 1 .. 11 : outcome[Steps[i]] = "none" <=> i >= at

\* Before a step, nothing of what it makes exists.
NothingYet ==
    /\ at = 1 => plain = {} /\ ~private
    /\ at <= 2 => ~orphan /\ signal = "none" /\ plain \cap Files = {}
    /\ at <= 5 => summary = "none"
    /\ at <= 6 => bundle = {}
    /\ at <= 9 => published = {}

\* The first step is missing only in a cancelled job.
FirstStepRuns ==
    outcome["materialize"] \in {"skipped", "cancelled"} => cancelled

\* The fuzzer ran only after a window was materialised; its files go with
\* the finalizer, which runs whenever that step succeeded.
PlaintextIsFuzzers ==
    /\ plain \cap Files # {} \/ orphan => Ok("materialize")
    /\ "materialize.out" \in plain => ~Ok("materialize")
    /\ at > 6 /\ Ok("materialize") => ~private

\* What a step that succeeded, or any step at all, left.
StepsLeave ==
    /\ Ok("materialize") => "valid" \in units
    /\ Ok("finalize") => /\ Ok("materialize")
                         /\ {"fuzzer.raw.log", "exit_code"} \subseteq bundle
    /\ Ok("upload") => uploaded
    /\ Ok("publish") => published # {}
    /\ Ok("emit") => emitted
    /\ Ok("enforce") => exit_code = 0
    /\ Ok("summary") => summary # "none"
    /\ signal \in {"asan", "oracle"} => exit_code # 0
    /\ summary \in {"execution_failed", "budget_exhausted", "container_oom"}
          => exit_code # 0

\* The two classes of a kill come from what Docker recorded, and 72 also from a
\* run that ended so by itself.
KillIsExplained ==
    /\ exit_code = 73 => status \in {124, 137} /\ oom_killed = "true"
    /\ exit_code = 72 =>
          status = 72 \/ (status \in {124, 137} /\ oom_killed # "true")

\* "no_finding" was said without an artifact; only a container that outlived
\* its removal can add one.  The lines about a kill were said of its classes.
LineHolds ==
    /\ summary = "no_finding" =>
          /\ exit_code = 0 /\ signal = "none"
          /\ orphan \/ (plain \cup bundle) \cap Artifacts = {}
    /\ summary = "container_oom" => exit_code = 73
    /\ summary = "budget_exhausted" => exit_code = 72

ShardInv ==
    /\ TypeOK
    /\ OutcomesAreDue
    /\ NothingYet
    /\ FirstStepRuns
    /\ PlaintextIsFuzzers
    /\ StepsLeave
    /\ KillIsExplained
    /\ LineHolds
    /\ PublishedIsSound

-----------------------------------------------------------------------------
(***************************************************************************)
(* The order of the steps (hunt.yml:152-389).                              *)
(***************************************************************************)
Outcomes == {"success", "failure", "skipped", "cancelled"}

LEMMA Order ==
    /\ Len(Steps) = 11
    /\ StepNames = {"materialize", "fuzz", "quarantine", "validate", "summary",
                    "finalize", "upload", "revalidate", "publish", "emit",
                    "enforce"}
    /\ Steps[1] = "materialize" /\ Steps[2] = "fuzz"
    /\ Steps[3] = "quarantine" /\ Steps[4] = "validate"
    /\ Steps[5] = "summary" /\ Steps[6] = "finalize"
    /\ Steps[7] = "upload" /\ Steps[8] = "revalidate"
    /\ Steps[9] = "publish" /\ Steps[10] = "emit" /\ Steps[11] = "enforce"
<1>1. /\ Len(Steps) = 11
      /\ Steps[1] = "materialize" /\ Steps[2] = "fuzz"
      /\ Steps[3] = "quarantine" /\ Steps[4] = "validate"
      /\ Steps[5] = "summary" /\ Steps[6] = "finalize"
      /\ Steps[7] = "upload" /\ Steps[8] = "revalidate"
      /\ Steps[9] = "publish" /\ Steps[10] = "emit" /\ Steps[11] = "enforce"
  BY DEF Steps
<1>2. StepNames = {Steps[1], Steps[2], Steps[3], Steps[4], Steps[5], Steps[6],
                   Steps[7], Steps[8], Steps[9], Steps[10], Steps[11]}
  <2>1. 1 .. Len(Steps) = {1, 2, 3, 4, 5, 6, 7, 8, 9, 10, 11}
    BY <1>1
  <2> QED
    BY <2>1 DEF StepNames
<1> QED
  BY <1>1, <1>2

\* The job is at a step's place when the step runs.
LEMMA Places ==
    ASSUME TypeOK, NEW s \in StepNames, Now(s)
    PROVE  /\ at \in 1 .. 11 /\ Steps[at] = s /\ Runs(s)
           /\ s = "materialize" => at = 1
           /\ s = "fuzz" => at = 2
           /\ s = "quarantine" => at = 3
           /\ s = "validate" => at = 4
           /\ s = "summary" => at = 5
           /\ s = "finalize" => at = 6
           /\ s = "upload" => at = 7
           /\ s = "revalidate" => at = 8
           /\ s = "publish" => at = 9
           /\ s = "emit" => at = 10
           /\ s = "enforce" => at = 11
<1>1. at \in 1 .. 11 /\ Steps[at] = s /\ Runs(s)
  BY Order DEF Now, Over, TypeOK
<1>2. at \in {1, 2, 3, 4, 5, 6, 7, 8, 9, 10, 11}
  BY <1>1
<1> QED
  BY <1>1, <1>2, Order

\* A step that ends changes its own outcome, which was not set.
LEMMA EndSetsOne ==
    ASSUME TypeOK, OutcomesAreDue, at \in 1 .. 11,
           NEW s \in StepNames, Steps[at] = s, NEW res \in Outcomes, End(s, res)
    PROVE  /\ at' = at + 1 /\ at' \in 1 .. Len(Steps) + 1
           /\ outcome' \in [StepNames -> {"none", "success", "failure",
                                          "skipped", "cancelled"}]
           /\ outcome[s] = "none" /\ outcome'[s] = res
           /\ \A t \in StepNames : t # s => outcome'[t] = outcome[t]
           /\ OutcomesAreDue'
<1>1. at' = at + 1 /\ outcome' = [outcome EXCEPT ![s] = res]
  BY DEF End
<1>2. /\ outcome \in [StepNames -> {"none", "success", "failure", "skipped",
                                    "cancelled"}]
  BY DEF TypeOK
<1>3. at' \in 1 .. Len(Steps) + 1
  BY <1>1, Order
<1>4. /\ outcome' \in [StepNames -> {"none", "success", "failure", "skipped",
                                     "cancelled"}]
      /\ outcome'[s] = res
      /\ \A t \in StepNames : t # s => outcome'[t] = outcome[t]
  BY <1>1, <1>2 DEF Outcomes
<1>5. outcome[s] = "none"
  BY DEF OutcomesAreDue
<1>6. ASSUME NEW i \in 1 .. 11
      PROVE  outcome'[Steps[i]] = "none" <=> i >= at'
  <2>1. Steps[i] \in StepNames
    BY Order DEF StepNames
  <2>2. CASE i = at
    BY <1>1, <1>4, <2>2 DEF Outcomes
  <2>3. CASE i # at
    <3>1. Steps[i] # s
      <4>1. /\ i \in {1, 2, 3, 4, 5, 6, 7, 8, 9, 10, 11}
            /\ at \in {1, 2, 3, 4, 5, 6, 7, 8, 9, 10, 11}
        OBVIOUS
      <4> QED
        BY <2>3, <4>1, Order
    <3>2. outcome'[Steps[i]] = outcome[Steps[i]]
      BY <1>4, <2>1, <3>1
    <3> QED
      BY <1>1, <2>3, <3>2 DEF OutcomesAreDue
  <2> QED
    BY <2>2, <2>3
<1> QED
  BY <1>1, <1>3, <1>4, <1>5, <1>6 DEF OutcomesAreDue

\* A step that leaves the evidence, the bundle, the line and what is
\* published alone, and the valid units in the corpus.
LEMMA QuietStep ==
    ASSUME ShardInv, at \in 1 .. 11,
           NEW s \in StepNames, Steps[at] = s, NEW res \in Outcomes, End(s, res),
           UNCHANGED <<cancelled, harness, private, plain, exit_code, status, oom_killed, signal,
                       telemetry, gpg, orphan, summary, bundle, published>>,
           units' \subseteq {"valid", "broken", "anomaly"},
           "valid" \in units => "valid" \in units',
           uploaded' \in BOOLEAN, emitted' \in BOOLEAN,
           uploaded' # uploaded => s = "upload",
           emitted' # emitted => s = "emit",
           s = "materialize" => res = "skipped" /\ cancelled,
           s = "finalize" => res = "skipped" /\ ~Ok("materialize"),
           s \in {"summary", "publish"} => res = "skipped",
           s = "upload" /\ res = "success" => uploaded',
           s = "emit" /\ res = "success" => emitted',
           s = "enforce" /\ res = "success" => exit_code = 0
    PROVE  ShardInv'
<1>1. /\ at' = at + 1 /\ at' \in 1 .. Len(Steps) + 1
      /\ outcome' \in [StepNames -> {"none", "success", "failure",
                                     "skipped", "cancelled"}]
      /\ outcome[s] = "none" /\ outcome'[s] = res
      /\ \A t \in StepNames : t # s => outcome'[t] = outcome[t]
      /\ OutcomesAreDue'
  BY EndSetsOne DEF ShardInv
<1>2. TypeOK'
  BY <1>1 DEF ShardInv, TypeOK
<1>3. NothingYet'
  BY <1>1 DEF ShardInv, NothingYet, Files
<1>4. {"materialize", "summary", "finalize", "upload", "publish", "emit",
       "enforce"} \subseteq StepNames
  BY Order
<1>5. at = 1 <=> s = "materialize"
  <2>1. at \in {1, 2, 3, 4, 5, 6, 7, 8, 9, 10, 11}
    OBVIOUS
  <2> QED
    BY <2>1, Order
<1>6. at = 6 => s = "finalize"
  BY Order
<1>7. at > 9 => s # "summary"
  <2>1. at > 9 => at = 10 \/ at = 11
    OBVIOUS
  <2> QED
    BY <2>1, Order
<1>8. FirstStepRuns'
  BY <1>1, <1>4 DEF ShardInv, FirstStepRuns
<1>9. PlaintextIsFuzzers'
  <2>1. CASE at = 1
    <3>1. ~Ok("materialize")'
      BY <1>1, <1>4, <1>5, <2>1 DEF Ok
    <3>2. plain \cap Files = {} /\ ~orphan
      BY <2>1 DEF ShardInv, NothingYet
    <3> QED
      BY <3>1, <3>2 DEF PlaintextIsFuzzers, Files
  <2>2. CASE at # 1
    <3>1. Ok("materialize")' = Ok("materialize")
      BY <1>1, <1>4, <1>5, <2>2 DEF Ok
    <3>2. at' > 6 /\ Ok("materialize")' => at > 6
      BY <1>1, <1>6, <3>1
    <3> QED
      BY <3>1, <3>2 DEF ShardInv, PlaintextIsFuzzers, Files
  <2> QED
    BY <2>1, <2>2
<1>10. StepsLeave'
  <2>1. Ok("materialize")' => "valid" \in units'
    BY <1>1, <1>4 DEF ShardInv, StepsLeave, Ok
  <2>2. Ok("finalize")' => /\ Ok("materialize")'
                           /\ {"fuzzer.raw.log", "exit_code"} \subseteq bundle'
    BY <1>1, <1>4 DEF ShardInv, StepsLeave, Ok
  <2>3. Ok("upload")' => uploaded'
    BY <1>1, <1>4 DEF ShardInv, StepsLeave, Ok
  <2>4. Ok("emit")' => emitted'
    BY <1>1, <1>4 DEF ShardInv, StepsLeave, Ok
  <2>5. /\ Ok("publish")' => published' # {}
        /\ Ok("enforce")' => exit_code' = 0
        /\ Ok("summary")' => summary' # "none"
    BY <1>1, <1>4 DEF ShardInv, StepsLeave, Ok
  <2> QED
    BY <2>1, <2>2, <2>3, <2>4, <2>5 DEF ShardInv, StepsLeave
<1>11. LineHolds' /\ KillIsExplained'
  BY DEF ShardInv, LineHolds, KillIsExplained
<1>12. PublishedIsSound'
  <2>1. published # {} => at > 9
    BY DEF ShardInv, NothingYet
  <2> QED
    BY <1>1, <1>4, <1>7, <2>1 DEF ShardInv, PublishedIsSound, Ok
<1> QED
  BY <1>1, <1>2, <1>3, <1>8, <1>9, <1>10, <1>11, <1>12 DEF ShardInv

LEMMA InitShard == Init => ShardInv
<1> SUFFICES ASSUME Init PROVE ShardInv
  OBVIOUS
<1>1. /\ at = 1 /\ \A s \in StepNames : outcome[s] = "none"
      /\ outcome \in [StepNames -> {"none", "success", "failure", "skipped",
                                    "cancelled"}]
      /\ harness \in Harnesses
      /\ plain = {} /\ exit_code = 0 /\ signal = "none" /\ units = {}
      /\ status = 0 /\ oom_killed = "unknown"
      /\ bundle = {} /\ summary = "none" /\ published = {}
  BY DEF Init
<1>2. {cancelled, private, telemetry, uploaded, emitted, orphan, gpg}
         \subseteq BOOLEAN
  BY DEF Init
<1>3. ~private /\ ~orphan
  BY DEF Init
<1>4. TypeOK
  BY <1>1, <1>2, Order DEF TypeOK, Files
<1>5. OutcomesAreDue
  <2>1. \A i \in 1 .. 11 : Steps[i] \in StepNames
    BY Order DEF StepNames
  <2> QED
    BY <1>1, <2>1 DEF OutcomesAreDue
<1>6. /\ NothingYet /\ PlaintextIsFuzzers /\ LineHolds /\ KillIsExplained
      /\ PublishedIsSound
  BY <1>1, <1>3
  DEF NothingYet, PlaintextIsFuzzers, LineHolds, KillIsExplained, PublishedIsSound
<1>7. FirstStepRuns /\ StepsLeave
  BY <1>1, Order DEF FirstStepRuns, StepsLeave, Ok
<1> QED
  BY <1>4, <1>5, <1>6, <1>7 DEF ShardInv

\* A step whose condition is false (hunt.yml:298-389).
LEMMA SkipShard ==
    ASSUME ShardInv, Skip
    PROVE  ShardInv'
<1>1. at \in 1 .. 11 /\ ~Runs(Steps[at]) /\ End(Steps[at], "skipped")
  BY Order DEF Skip, Over, ShardInv, TypeOK
<1>2. Steps[at] \in StepNames
  BY <1>1, Order DEF StepNames
<1>3. UNCHANGED <<cancelled, harness, private, plain, exit_code, status, oom_killed, signal,
                  telemetry, gpg, orphan, summary, bundle, published, units,
                  uploaded, emitted>>
  BY DEF Skip, docker, evidence, results
<1>4. Steps[at] = "materialize" => cancelled
  <2>1. SUFFICES ASSUME Steps[at] = "materialize", ~cancelled
                 PROVE  FALSE
    OBVIOUS
  <2>2. at = 1
    <3>1. at \in {1, 2, 3, 4, 5, 6, 7, 8, 9, 10, 11}
      BY <1>1
    <3> QED
      BY <2>1, <3>1, Order
  <2>3. \A i \in 1 .. 11 : outcome[Steps[i]] = "none"
    BY <2>2 DEF ShardInv, OutcomesAreDue
  <2>4. \A t \in StepNames : outcome[t] = "none"
    BY <2>3, Order DEF StepNames
  <2>5. NoneFailed
    BY <2>1, <2>4 DEF NoneFailed
  <2> QED
    BY <1>1, <2>1, <2>5 DEF Runs
<1>5. Steps[at] = "finalize" => ~Ok("materialize")
  BY <1>1 DEF Runs
<1>6. uploaded' \in BOOLEAN /\ emitted' \in BOOLEAN
      /\ units' \subseteq {"valid", "broken", "anomaly"}
  BY <1>3 DEF ShardInv, TypeOK
<1> DEFINE s == Steps[at]
<1> HIDE DEF s
<1>7. /\ s \in StepNames /\ Steps[at] = s /\ End(s, "skipped")
      /\ "skipped" \in Outcomes
      /\ s = "materialize" => cancelled
      /\ s = "finalize" => ~Ok("materialize")
  BY <1>1, <1>2, <1>4, <1>5 DEF s, Outcomes
<1> QED
  BY <1>1, <1>3, <1>6, <1>7, QuietStep

\* The gates, the upload and the reports.
LEMMA GateShard ==
    ASSUME ShardInv,
           \/ Quarantine \/ Validate \/ Revalidate \/ Emit \/ Enforce
           \/ \E ok \in BOOLEAN : Upload(ok)
    PROVE  ShardInv'
<1> USE DEF ShardInv
<1>1. "success" \in Outcomes /\ "failure" \in Outcomes
  BY DEF Outcomes
<1>2. {"quarantine", "validate", "upload", "revalidate", "emit", "enforce"}
         \subseteq StepNames
  BY Order
<1>3. /\ uploaded \in BOOLEAN /\ emitted \in BOOLEAN
      /\ units \subseteq {"valid", "broken", "anomaly"}
  BY DEF TypeOK
<1>4. CASE Quarantine
  <2> DEFINE res == Result("anomaly" \notin units /\ "valid" \in units)
  <2>1. /\ Now("quarantine") /\ End("quarantine", res)
        /\ UNCHANGED <<cancelled, harness, private, plain, exit_code, status, oom_killed, signal,
                       telemetry, gpg, orphan, summary, bundle, published,
                       uploaded, emitted>>
        /\ units' = units \/ units' = units \ {"broken"}
    BY <1>4 DEF Quarantine, docker, evidence, results
  <2>2. res \in Outcomes
    BY <1>1 DEF Result
  <2> HIDE DEF res
  <2>3. at \in 1 .. 11 /\ Steps[at] = "quarantine"
    BY <1>2, <2>1, Places
  <2>4. /\ units' \subseteq {"valid", "broken", "anomaly"}
        /\ "valid" \in units => "valid" \in units'
    BY <1>3, <2>1
  <2> QED
    BY <1>2, <1>3, <2>1, <2>2, <2>3, <2>4, QuietStep
<1>5. CASE Validate
  <2> DEFINE res == Result(CorpusOK)
  <2>1. /\ Now("validate") /\ End("validate", res)
        /\ UNCHANGED <<cancelled, harness, private, plain, exit_code, status, oom_killed, signal,
                       telemetry, gpg, orphan, summary, bundle, published,
                       uploaded, emitted, units>>
    BY <1>5 DEF Validate, docker, evidence, results
  <2>2. res \in Outcomes
    BY <1>1 DEF Result
  <2> HIDE DEF res
  <2>3. at \in 1 .. 11 /\ Steps[at] = "validate"
    BY <1>2, <2>1, Places
  <2> QED
    BY <1>2, <1>3, <2>1, <2>2, <2>3, QuietStep
<1>6. CASE Revalidate
  <2> DEFINE res == Result(CorpusOK)
  <2>1. /\ Now("revalidate") /\ End("revalidate", res)
        /\ UNCHANGED <<cancelled, harness, private, plain, exit_code, status, oom_killed, signal,
                       telemetry, gpg, orphan, summary, bundle, published,
                       uploaded, emitted, units>>
    BY <1>6 DEF Revalidate, docker, evidence, results
  <2>2. res \in Outcomes
    BY <1>1 DEF Result
  <2> HIDE DEF res
  <2>3. at \in 1 .. 11 /\ Steps[at] = "revalidate"
    BY <1>2, <2>1, Places
  <2> QED
    BY <1>2, <1>3, <2>1, <2>2, <2>3, QuietStep
<1>7. CASE Emit
  <2>1. /\ Now("emit") /\ End("emit", "success")
        /\ UNCHANGED <<cancelled, harness, private, plain, exit_code, status, oom_killed, signal,
                       telemetry, gpg, orphan, summary, bundle, published,
                       uploaded, units>>
    BY <1>7 DEF Emit, docker, evidence
  <2>2. emitted' /\ emitted' \in BOOLEAN
    BY <1>7, Zenon DEF Emit
  <2>3. at \in 1 .. 11 /\ Steps[at] = "emit"
    BY <1>2, <2>1, Places
  <2> QED
    BY <1>1, <1>2, <1>3, <2>1, <2>2, <2>3, QuietStep
<1>8. CASE Enforce
  <2> DEFINE res == Result(exit_code = 0)
  <2>1. /\ Now("enforce") /\ End("enforce", res)
        /\ UNCHANGED <<cancelled, harness, private, plain, exit_code, status, oom_killed, signal,
                       telemetry, gpg, orphan, summary, bundle, published,
                       uploaded, emitted, units>>
    BY <1>8 DEF Enforce, docker, evidence, results
  <2>2. res \in Outcomes /\ (res = "success" => exit_code = 0)
    BY <1>1 DEF Result
  <2> HIDE DEF res
  <2>3. at \in 1 .. 11 /\ Steps[at] = "enforce"
    BY <1>2, <2>1, Places
  <2> QED
    BY <1>2, <1>3, <2>1, <2>2, <2>3, QuietStep
<1>9. ASSUME NEW ok \in BOOLEAN, Upload(ok)
       PROVE  ShardInv'
  <2> DEFINE res == Result(ok)
  <2>1. /\ Now("upload") /\ End("upload", res) /\ uploaded' = ok
        /\ UNCHANGED <<cancelled, harness, private, plain, exit_code, status, oom_killed, signal,
                       telemetry, gpg, orphan, summary, bundle, published,
                       emitted, units>>
    BY <1>9 DEF Upload, docker, evidence
  <2>2. res \in Outcomes /\ (res = "success" => ok)
    BY <1>1 DEF Result
  <2> HIDE DEF res
  <2>3. at \in 1 .. 11 /\ Steps[at] = "upload"
    BY <1>2, <2>1, Places
  <2>4. uploaded' \in BOOLEAN /\ (res = "success" => uploaded')
    BY <2>1, <2>2
  <2> QED
    BY <1>2, <1>3, <2>1, <2>2, <2>3, <2>4, QuietStep
<1> QED
  BY <1>4, <1>5, <1>6, <1>7, <1>8, <1>9

\* The operator cancels (hunt.yml:152-389).
LEMMA CancelShard ==
    ASSUME ShardInv, Cancel
    PROVE  ShardInv'
<1>1. UNCHANGED <<at, outcome, harness, private, plain, exit_code, status, oom_killed, signal,
                  telemetry, gpg, orphan, summary, bundle, published, units,
                  uploaded, emitted>>
  BY DEF Cancel, docker, evidence, results
<1>2. cancelled' /\ cancelled' \in BOOLEAN
  BY Zenon DEF Cancel
<1>3. TypeOK'
  BY <1>1, <1>2 DEF ShardInv, TypeOK
<1>4. FirstStepRuns'
  BY <1>2 DEF FirstStepRuns
<1> QED
  BY <1>1, <1>3, <1>4
  DEF ShardInv, OutcomesAreDue, NothingYet, PlaintextIsFuzzers, StepsLeave,
      KillIsExplained, LineHolds, PublishedIsSound, Ok

\* The first step (hunt.yml:200-237).
LEMMA MaterializeShard ==
    ASSUME ShardInv, CancelMaterialize \/ \E ok \in BOOLEAN : Materialize(ok)
    PROVE  ShardInv'
<1> DEFINE s == "materialize"
<1>1. s \in StepNames /\ StepNames \ {s} = {"fuzz", "quarantine", "validate",
            "summary", "finalize", "upload", "revalidate", "publish", "emit",
            "enforce"}
  BY Order
<1>2. ASSUME NEW res \in Outcomes, Now(s), End(s, res)
      PROVE  /\ at = 1 /\ at' = 2 /\ at' \in 1 .. Len(Steps) + 1
             /\ outcome' \in [StepNames -> {"none", "success", "failure",
                                            "skipped", "cancelled"}]
             /\ outcome'[s] = res
             /\ \A t \in StepNames \ {s} : outcome'[t] = "none"
             /\ OutcomesAreDue'
             /\ Ok("materialize")' <=> res = "success"
             /\ \A t \in StepNames \ {s} : ~Ok(t)'
  <2>1. at \in 1 .. 11 /\ Steps[at] = s /\ at = 1
    BY <1>1, <1>2, Places DEF ShardInv
  <2>2. \A i \in 1 .. 11 : outcome[Steps[i]] = "none"
    BY <2>1 DEF ShardInv, OutcomesAreDue
  <2>3. \A t \in StepNames : outcome[t] = "none"
    BY <2>2, Order DEF StepNames
  <2>4. /\ at' = at + 1 /\ at' \in 1 .. Len(Steps) + 1
        /\ outcome' \in [StepNames -> {"none", "success", "failure",
                                       "skipped", "cancelled"}]
        /\ outcome'[s] = res
        /\ \A t \in StepNames : t # s => outcome'[t] = outcome[t]
        /\ OutcomesAreDue'
    BY <1>1, <1>2, <2>1, EndSetsOne DEF ShardInv
  <2> QED
    BY <1>1, <2>1, <2>3, <2>4 DEF Ok
<1> HIDE DEF s
<1>3. CASE CancelMaterialize
  <2>1. /\ Now(s) /\ End(s, "cancelled") /\ "cancelled" \in Outcomes
        /\ plain' = {"materialize.out"}
        /\ UNCHANGED <<harness, exit_code, status, oom_killed, signal, telemetry, gpg, orphan,
                       summary, bundle, published, units, uploaded, emitted>>
    BY <1>3 DEF CancelMaterialize, docker, results, s, Outcomes
  <2>2. private' /\ cancelled' /\ {private', cancelled'} \subseteq BOOLEAN
    BY <1>3 DEF CancelMaterialize
  <2>3. /\ at = 1 /\ at' = 2 /\ at' \in 1 .. Len(Steps) + 1
        /\ outcome' \in [StepNames -> {"none", "success", "failure",
                                       "skipped", "cancelled"}]
        /\ OutcomesAreDue' /\ ~Ok("materialize")'
        /\ \A t \in StepNames \ {s} : ~Ok(t)'
    BY <1>2, <2>1
  <2>4. TypeOK'
    BY <2>1, <2>2, <2>3 DEF ShardInv, TypeOK
  <2>5. plain' \cap Files = {}
    BY <2>1, ShardConstants DEF Files
  <2>6. NothingYet' /\ PlaintextIsFuzzers'
    BY <2>1, <2>3, <2>5 DEF ShardInv, NothingYet, PlaintextIsFuzzers, Files
  <2>7. FirstStepRuns' /\ StepsLeave'
    BY <1>1, <2>1, <2>2, <2>3 DEF ShardInv, NothingYet, FirstStepRuns, StepsLeave
  <2>8. KillIsExplained' /\ LineHolds' /\ PublishedIsSound'
    BY <2>1, <2>3
    DEF ShardInv, NothingYet, KillIsExplained, LineHolds, PublishedIsSound
  <2> QED
    BY <2>3, <2>4, <2>6, <2>7, <2>8 DEF ShardInv
<1>4. ASSUME NEW ok \in BOOLEAN, Materialize(ok)
      PROVE  ShardInv'
  <2> DEFINE res == Result(ok)
  <2>1. /\ Now(s) /\ End(s, res) /\ res \in {"success", "failure"}
        /\ res \in Outcomes
        /\ res = "success" => ok
        /\ units' = IF ok THEN {"valid"} ELSE {}
        /\ UNCHANGED <<cancelled, harness, private, plain, exit_code, status, oom_killed, signal,
                       telemetry, gpg, orphan, summary, bundle, published,
                       uploaded, emitted>>
    BY <1>4 DEF Materialize, docker, evidence, results, s, Result, Outcomes
  <2> HIDE DEF res
  <2>2. /\ at = 1 /\ at' = 2 /\ at' \in 1 .. Len(Steps) + 1
        /\ outcome' \in [StepNames -> {"none", "success", "failure",
                                       "skipped", "cancelled"}]
        /\ outcome'[s] = res
        /\ OutcomesAreDue' /\ (Ok("materialize")' <=> res = "success")
        /\ \A t \in StepNames \ {s} : ~Ok(t)'
    BY <1>2, <2>1
  <2>3. TypeOK'
    BY <2>1, <2>2 DEF ShardInv, TypeOK
  <2>4. NothingYet' /\ PlaintextIsFuzzers'
    BY <2>1, <2>2 DEF ShardInv, NothingYet, PlaintextIsFuzzers, Files
  <2>5. FirstStepRuns'
    BY <2>1, <2>2 DEF FirstStepRuns, s
  <2>6. StepsLeave'
    <3>1. ok => "valid" \in units'
      BY <2>1
    <3> QED
      BY <1>1, <2>1, <2>2, <3>1 DEF ShardInv, NothingYet, StepsLeave
  <2>7. KillIsExplained' /\ LineHolds' /\ PublishedIsSound'
    BY <2>1, <2>2
    DEF ShardInv, NothingYet, KillIsExplained, LineHolds, PublishedIsSound
  <2> QED
    BY <2>2, <2>3, <2>4, <2>5, <2>6, <2>7 DEF ShardInv
<1> QED
  BY <1>3, <1>4

\* What any way of ending the fuzz step must leave (run_fuzzer_shard.sh).
LEMMA FuzzShard ==
    ASSUME ShardInv, Fuzz
    PROVE  ShardInv'
<1> DEFINE s == "fuzz"
           Codes == (0 .. 255) \ {124, 137}
<1>1. /\ s \in StepNames /\ "materialize" \in StepNames
      /\ StepNames \ {s, "materialize"} = {"quarantine", "validate", "summary",
            "finalize", "upload", "revalidate", "publish", "emit", "enforce"}
  BY Order
<1>2. /\ Now(s) /\ at = 2 /\ Steps[at] = s /\ at \in 1 .. 11 /\ NoneFailed
  BY <1>1, Places DEF Fuzz, ShardInv, Runs
<1>3. Ok("materialize")
  <2>1. outcome["materialize"] # "none"
    BY <1>2, Order DEF ShardInv, OutcomesAreDue
  <2>2. outcome["materialize"] \notin {"failure", "skipped", "cancelled"}
    BY <1>1, <1>2 DEF NoneFailed, ShardInv, FirstStepRuns
  <2> QED
    BY <1>1, <2>1, <2>2 DEF ShardInv, TypeOK, Ok
<1>4. \A t \in StepNames \ {s, "materialize"} : outcome[t] = "none"
  <2>1. \A i \in 3 .. 11 : outcome[Steps[i]] = "none"
    BY <1>2 DEF ShardInv, OutcomesAreDue
  <2>2. \A t \in StepNames \ {s, "materialize"} : \E i \in 3 .. 11 : Steps[i] = t
    BY <1>1, Order
  <2> QED
    BY <2>1, <2>2
<1>5. ASSUME NEW res \in Outcomes, End(s, res),
             UNCHANGED <<harness, gpg, summary, bundle, uploaded, published,
                         emitted>>,
             {cancelled', private', telemetry', orphan'} \subseteq BOOLEAN,
             plain' \subseteq Files, plain' # {} => private',
             exit_code' \in Codes, status' \in 0 .. 255,
             oom_killed' \in {"true", "false", "unknown"}, KillIsExplained',
             signal' \in {"none", "asan", "ubsan", "oracle"},
             signal' \in {"asan", "oracle"} => exit_code' # 0,
             units \subseteq units',
             units' \subseteq {"valid", "broken", "anomaly"}
      PROVE  ShardInv'
  <2>1. /\ at' = at + 1 /\ at' \in 1 .. Len(Steps) + 1
        /\ outcome' \in [StepNames -> {"none", "success", "failure",
                                       "skipped", "cancelled"}]
        /\ \A t \in StepNames : t # s => outcome'[t] = outcome[t]
        /\ OutcomesAreDue'
    BY <1>1, <1>2, <1>5, EndSetsOne DEF ShardInv
  <2>2. /\ Ok("materialize")' /\ outcome'["materialize"] = "success"
        /\ \A t \in StepNames \ {s, "materialize"} : ~Ok(t)'
    BY <1>1, <1>3, <1>4, <2>1 DEF Ok
  <2>3. TypeOK'
    BY <1>5, <2>1 DEF ShardInv, TypeOK
  <2>4. NothingYet'
    BY <1>2, <1>5, <2>1 DEF ShardInv, NothingYet
  <2>5. PlaintextIsFuzzers'
    BY <1>2, <1>5, <2>1, <2>2, ShardConstants DEF PlaintextIsFuzzers, Files
  <2>6. StepsLeave'
    BY <1>1, <1>2, <1>3, <1>5, <2>2 DEF ShardInv, NothingYet, StepsLeave
  <2>7. FirstStepRuns' /\ LineHolds' /\ PublishedIsSound'
    BY <1>2, <1>5, <2>2
    DEF ShardInv, NothingYet, FirstStepRuns, LineHolds, PublishedIsSound
  <2> QED
    BY <1>5, <2>1, <2>3, <2>4, <2>5, <2>6, <2>7 DEF ShardInv
<1>6. /\ {cancelled, private, telemetry, orphan} \subseteq BOOLEAN
      /\ signal = "none" /\ units \subseteq {"valid", "broken", "anomaly"}
  BY <1>2 DEF ShardInv, TypeOK, NothingYet
<1>6a. ASSUME UNCHANGED <<status, oom_killed>>, exit_code' \notin {72, 73}
      PROVE  /\ status' \in 0 .. 255 /\ KillIsExplained'
             /\ oom_killed' \in {"true", "false", "unknown"}
  BY <1>6a DEF ShardInv, TypeOK, KillIsExplained
<1>7. CASE \E raw \in ContainerExits, oom \in {"true", "false", "unknown"},
            output, tele, lives \in BOOLEAN, files \in SUBSET Artifacts,
            sig \in {"none", "asan", "ubsan", "oracle"},
            left \in SUBSET {"broken", "anomaly"} :
            RunFuzzer(raw, oom, output, files, sig, left, tele, lives)
  <2>0. PICK raw \in ContainerExits, oom \in {"true", "false", "unknown"},
             output \in BOOLEAN, tele \in BOOLEAN, lives \in BOOLEAN,
             files \in SUBSET Artifacts,
             sig \in {"none", "asan", "ubsan", "oracle"},
             left \in SUBSET {"broken", "anomaly"} :
             RunFuzzer(raw, oom, output, files, sig, left, tele, lives)
    BY <1>7, Zenon
  <2> DEFINE res == Result(exit_code' = 0)
  <2>1. /\ End(s, res) /\ res \in Outcomes
        /\ UNCHANGED <<cancelled, harness, gpg, summary, bundle, uploaded,
                       published, emitted>>
        /\ telemetry' = tele /\ orphan' = lives /\ signal' = sig
        /\ units' = units \cup left
        /\ plain' = {"fuzzer.raw.log", "exit_code", "oom_killed", "harness"}
                       \cup files
    BY <2>0 DEF RunFuzzer, results, Result, Outcomes
  <2>2. private' /\ private' \in BOOLEAN
    BY <2>0, Zenon DEF RunFuzzer
  <2>3. /\ exit_code' \in Codes /\ status' \in 0 .. 255 /\ KillIsExplained'
        /\ oom_killed' \in {"true", "false", "unknown"}
        /\ sig \in {"asan", "oracle"} => exit_code' # 0
    <3>1. /\ exit_code' = ExitClass(raw, oom, output)
          /\ status' = raw /\ oom_killed' = oom
          /\ sig \in {"asan", "oracle"} => raw # 0
      BY <2>0 DEF RunFuzzer, Leaves
    <3>2. raw \in (0 .. 255) \ {73, 74}
      BY ShardConstants
    <3> QED
      BY <3>1, <3>2 DEF ExitClass, KillIsExplained
  <2> HIDE DEF res, Codes
  <2>4. plain' \subseteq Files
    BY <2>1 DEF Files
  <2>5. {cancelled', private', telemetry', orphan'} \subseteq BOOLEAN
    BY <1>6, <2>1, <2>2
  <2> QED
    BY <1>5, <1>6, <2>1, <2>2, <2>3, <2>4, <2>5
<1>8. ASSUME NEW code \in {64, 65, 69}, NEW made \in BOOLEAN,
             NEW wrote \in BOOLEAN, FuzzerRefused(code, made, wrote)
      PROVE  ShardInv'
  <2>1. /\ End(s, "failure") /\ "failure" \in Outcomes
        /\ UNCHANGED <<cancelled, harness, status, oom_killed, signal, telemetry,
                       gpg, units, orphan, summary, bundle, uploaded, published,
                       emitted>>
        /\ private' = made /\ exit_code' = code
        /\ plain' = IF wrote THEN {"exit_code"} ELSE {}
        /\ wrote => made
    BY <1>8 DEF FuzzerRefused, docker, results, Outcomes
  <2>2. plain' \subseteq Files /\ (plain' # {} => private')
    BY <2>1 DEF Files
  <2>3. {cancelled', private', telemetry', orphan'} \subseteq BOOLEAN
    BY <1>6, <2>1
  <2> QED
    BY <1>5, <1>6a, <1>6, <2>1, <2>2, <2>3
<1>9. ASSUME NEW trapped \in BOOLEAN, NEW lives \in BOOLEAN,
             NEW files \in SUBSET Artifacts,
             NEW left \in SUBSET {"broken", "anomaly"},
             CancelFuzzer(trapped, files, left, lives)
      PROVE  ShardInv'
  <2>1. /\ End(s, "failure") /\ "failure" \in Outcomes
        /\ UNCHANGED <<harness, status, oom_killed, signal, telemetry, gpg,
                       summary, bundle, uploaded, published, emitted>>
        /\ exit_code' = 143 /\ orphan' = lives
        /\ units' = units \cup left
        /\ plain' = files \cup {"fuzzer.raw.log"}
                       \cup (IF trapped THEN {"exit_code"} ELSE {})
    BY <1>9 DEF CancelFuzzer, docker, results, Outcomes
  <2>2. private' /\ {private', cancelled'} \subseteq BOOLEAN
    BY <1>9 DEF CancelFuzzer
  <2>3. plain' \subseteq Files
    BY <2>1 DEF Files
  <2>4. {cancelled', private', telemetry', orphan'} \subseteq BOOLEAN
    BY <1>6, <2>1, <2>2
  <2>5. /\ signal' = "none" /\ exit_code' \in Codes
        /\ units \subseteq units'
        /\ units' \subseteq {"valid", "broken", "anomaly"}
    BY <1>6, <2>1
  <2> QED
    BY <1>5, <1>6a, <2>1, <2>2, <2>3, <2>4, <2>5
<1>10. CASE \E code \in {64, 65, 69}, made, wrote \in BOOLEAN :
               FuzzerRefused(code, made, wrote)
  BY <1>8, <1>10
<1>11. CASE \E trapped, lives \in BOOLEAN, files \in SUBSET Artifacts,
               left \in SUBSET {"broken", "anomaly"} :
               CancelFuzzer(trapped, files, left, lives)
  BY <1>9, <1>11
<1> QED
  BY <1>7, <1>10, <1>11 DEF Fuzz

\* A container that survived writes on: into the corpus, and into
\* private_plain as long as it exists (run_fuzzer_shard.sh:122-130,182-253).
LEMMA OrphanShard ==
    ASSUME ShardInv, OrphanWrites
    PROVE  ShardInv'
<1>1. /\ orphan /\ at > 2
      /\ UNCHANGED <<at, outcome, cancelled, harness, private, exit_code, status, oom_killed, signal,
                     telemetry, gpg, orphan, summary, bundle, uploaded,
                     published, emitted>>
      /\ \/ plain' = plain
         \/ private /\ \E a \in Artifacts : plain' = plain \cup {a}
      /\ units' \in {units, units \cup {"broken"}, units \ {"broken"}}
  BY DEF OrphanWrites, docker, results
<1>2. Ok("materialize")
  BY <1>1 DEF ShardInv, PlaintextIsFuzzers
<1>3. /\ units' \subseteq {"valid", "broken", "anomaly"}
      /\ "valid" \in units => "valid" \in units'
  BY <1>1 DEF ShardInv, TypeOK
<1>4. /\ plain' \subseteq Files \cup {"materialize.out"}
      /\ plain' # {} => private
      /\ "materialize.out" \notin plain'
  <2>1. /\ plain \subseteq Files \cup {"materialize.out"}
        /\ plain # {} => private
        /\ "materialize.out" \notin plain
    BY <1>2 DEF ShardInv, TypeOK, PlaintextIsFuzzers
  <2>2. CASE plain' = plain
    BY <2>1, <2>2
  <2>3. CASE private /\ \E a \in Artifacts : plain' = plain \cup {a}
    <3>1. PICK a \in Artifacts : plain' = plain \cup {a}
      BY <2>3
    <3>2. a \in Files /\ a # "materialize.out"
      BY ShardConstants DEF Files
    <3> QED
      BY <2>1, <2>3, <3>1, <3>2
  <2> QED
    BY <1>1, <2>2, <2>3
<1>5. TypeOK'
  BY <1>1, <1>3, <1>4 DEF ShardInv, TypeOK
<1>6. OutcomesAreDue' /\ FirstStepRuns'
  BY <1>1 DEF ShardInv, OutcomesAreDue, FirstStepRuns
<1>7. NothingYet'
  BY <1>1 DEF ShardInv, NothingYet, TypeOK
<1>8. PlaintextIsFuzzers'
  BY <1>1, <1>2, <1>4 DEF ShardInv, PlaintextIsFuzzers, Ok
<1>9. StepsLeave' /\ KillIsExplained' /\ LineHolds' /\ PublishedIsSound'
  BY <1>1, <1>3
  DEF ShardInv, StepsLeave, KillIsExplained, LineHolds, PublishedIsSound, Ok
<1> QED
  BY <1>5, <1>6, <1>7, <1>8, <1>9 DEF ShardInv

\* The public line (public_summary.py:100-175).
LEMMA SummariseShard ==
    ASSUME ShardInv, NEW within \in BOOLEAN, Summarise(within)
    PROVE  ShardInv'
<1> DEFINE s == "summary"
           ok == /\ within
                 /\ {"fuzzer.raw.log", "exit_code", "harness"} \subseteq plain
                 /\ Cardinality(Found) <= 1
           res == Result(ok)
<1>1. /\ Now(s) /\ End(s, res) /\ summary' = (IF ok THEN Classified ELSE "none")
      /\ UNCHANGED <<cancelled, harness, private, plain, exit_code, status, oom_killed, signal,
                     telemetry, gpg, units, bundle, uploaded, published, emitted,
                     orphan>>
  BY DEF Summarise, docker, evidence
<1>2. res \in Outcomes /\ (res = "success" => ok)
  BY DEF Result, Outcomes
<1>3. /\ Classified # "none"
      /\ Classified \in {"execution_failed", "budget_exhausted",
                         "container_oom"} => exit_code # 0
      /\ Classified = "no_finding" => /\ exit_code = 0 /\ signal = "none"
                                      /\ plain \cap Artifacts = {}
      /\ Classified = "container_oom" => exit_code = 73
      /\ Classified = "budget_exhausted" => exit_code = 72
  BY DEF Classified, Found, ShardInv, TypeOK
<1>4. /\ summary' = "no_finding" => /\ exit_code = 0 /\ signal = "none"
                                    /\ plain \cap Artifacts = {}
      /\ summary' \in {"execution_failed", "budget_exhausted",
                       "container_oom"} => exit_code # 0
      /\ res = "success" => summary' # "none"
      /\ summary' = "container_oom" => exit_code = 73
      /\ summary' = "budget_exhausted" => exit_code = 72
  BY <1>1, <1>2, <1>3
<1>5. {"materialize", "summary", "finalize", "upload", "publish", "emit",
       "enforce"} \subseteq StepNames
  BY Order
<1>6. at = 5 /\ Steps[at] = s
  BY <1>1, <1>5, Places DEF ShardInv
<1> HIDE DEF ok, res
<1>7. /\ at' = 6 /\ at' \in 1 .. Len(Steps) + 1
      /\ outcome' \in [StepNames -> {"none", "success", "failure",
                                     "skipped", "cancelled"}]
      /\ outcome'[s] = res
      /\ \A t \in StepNames : t # s => outcome'[t] = outcome[t]
      /\ OutcomesAreDue'
  BY <1>1, <1>2, <1>5, <1>6, EndSetsOne DEF ShardInv
<1>8. TypeOK'
  BY <1>1, <1>7 DEF ShardInv, TypeOK
<1>9. NothingYet'
  BY <1>1, <1>6, <1>7 DEF ShardInv, NothingYet
<1>10. FirstStepRuns' /\ PlaintextIsFuzzers'
  BY <1>1, <1>5, <1>7 DEF ShardInv, FirstStepRuns, PlaintextIsFuzzers, Files, Ok
<1>11. StepsLeave'
  BY <1>1, <1>4, <1>5, <1>7 DEF ShardInv, StepsLeave, Ok
<1>12. KillIsExplained' /\ LineHolds' /\ PublishedIsSound'
  BY <1>1, <1>4, <1>6
  DEF ShardInv, NothingYet, KillIsExplained, LineHolds, PublishedIsSound
<1> QED
  BY <1>7, <1>8, <1>9, <1>10, <1>11, <1>12 DEF ShardInv

\* The finalizer (cloud_finalize_incident.sh:60-88, package_incident.py).
LEMMA FinalizeShard ==
    ASSUME ShardInv, NEW secured \in BOOLEAN, Finalize(secured)
    PROVE  ShardInv'
<1> DEFINE s == "finalize"
           res == Result(secured /\ Ok("validate") /\ Ok("summary"))
<1>1. /\ Now(s) /\ End(s, res) /\ (secured => Packaged)
      /\ bundle' = (IF secured THEN plain ELSE {})
      /\ plain' = {}
      /\ UNCHANGED <<cancelled, harness, exit_code, status, oom_killed, signal, telemetry, gpg,
                     units, summary, uploaded, published, emitted, orphan>>
  BY DEF Finalize, docker
<1>2. ~private' /\ private' \in BOOLEAN
  BY Zenon DEF Finalize
<1>3. res \in Outcomes /\ (res = "success" => secured)
  BY DEF Result, Outcomes
<1>4. {"materialize", "summary", "finalize", "upload", "publish", "emit",
       "enforce"} \subseteq StepNames
  BY Order
<1>5. at = 6 /\ Steps[at] = s /\ Ok("materialize")
  BY <1>1, <1>4, Places DEF ShardInv, Runs
<1> HIDE DEF res
<1>6. /\ at' = 7 /\ at' \in 1 .. Len(Steps) + 1
      /\ outcome' \in [StepNames -> {"none", "success", "failure",
                                     "skipped", "cancelled"}]
      /\ outcome'[s] = res
      /\ \A t \in StepNames : t # s => outcome'[t] = outcome[t]
      /\ OutcomesAreDue'
  BY <1>1, <1>3, <1>4, <1>5, EndSetsOne DEF ShardInv
<1>7. /\ secured => {"fuzzer.raw.log", "exit_code"} \subseteq bundle'
      /\ bundle' \subseteq plain
  BY <1>1 DEF Packaged
<1>8. bundle' \subseteq Files
  BY <1>5, <1>7 DEF ShardInv, TypeOK, PlaintextIsFuzzers
<1>9. TypeOK'
  BY <1>1, <1>2, <1>6, <1>8 DEF ShardInv, TypeOK
<1>10. Ok("materialize")'
  BY <1>4, <1>5, <1>6 DEF Ok
<1>11. NothingYet' /\ PlaintextIsFuzzers' /\ FirstStepRuns'
  BY <1>1, <1>2, <1>5, <1>6, <1>10
  DEF ShardInv, NothingYet, PlaintextIsFuzzers, FirstStepRuns, Ok
<1>12. StepsLeave'
  BY <1>1, <1>3, <1>4, <1>5, <1>6, <1>7, <1>10 DEF ShardInv, StepsLeave, Ok
<1>13. KillIsExplained' /\ LineHolds'
  BY <1>1, <1>7 DEF ShardInv, KillIsExplained, LineHolds
<1>14. PublishedIsSound'
  BY <1>1, <1>5 DEF ShardInv, NothingYet, PublishedIsSound
<1> QED
  BY <1>6, <1>9, <1>11, <1>12, <1>13, <1>14 DEF ShardInv

\* The publication (hunt.yml:346-378, publish_ingest.sh).
LEMMA PublishShard ==
    ASSUME ShardInv, NEW ok \in BOOLEAN, NEW landed \in BOOLEAN,
           Publish(ok, landed)
    PROVE  ShardInv'
<1> DEFINE s == "publish"
           res == Result(ok)
<1>1. /\ Now(s) /\ End(s, res) /\ (ok => landed) /\ (landed => PublishAccepts)
      /\ published' = (IF landed THEN units ELSE {})
      /\ UNCHANGED <<cancelled, harness, private, plain, exit_code, status, oom_killed, signal,
                     telemetry, gpg, units, summary, bundle, uploaded, emitted,
                     orphan>>
  BY DEF Publish, docker, evidence
<1>2. res \in Outcomes /\ (res = "success" => ok)
  BY DEF Result, Outcomes
<1>3. {"materialize", "summary", "finalize", "upload", "publish", "emit",
       "enforce"} \subseteq StepNames
  BY Order
<1>4. at = 9 /\ Steps[at] = s /\ Ok("summary") /\ Ok("finalize")
  BY <1>1, <1>3, Places DEF ShardInv, Runs
<1> HIDE DEF res
<1>5. /\ at' = 10 /\ at' \in 1 .. Len(Steps) + 1
      /\ outcome' \in [StepNames -> {"none", "success", "failure",
                                     "skipped", "cancelled"}]
      /\ outcome'[s] = res
      /\ \A t \in StepNames : t # s => outcome'[t] = outcome[t]
      /\ OutcomesAreDue'
  BY <1>1, <1>2, <1>3, <1>4, EndSetsOne DEF ShardInv
<1>6. "valid" \in units /\ {"fuzzer.raw.log", "exit_code"} \subseteq bundle
  BY <1>4 DEF ShardInv, StepsLeave
<1>7. published' # {} => published' = {"valid"}
  <2>1. units \subseteq {"valid", "broken", "anomaly"}
    BY DEF ShardInv, TypeOK
  <2>2. landed => units \subseteq {"valid"}
    BY <1>1, <2>1 DEF PublishAccepts
  <2> QED
    BY <1>1, <1>6, <2>2
<1>8. published' \subseteq {"valid", "broken", "anomaly"}
  BY <1>1 DEF ShardInv, TypeOK
<1>9. TypeOK'
  BY <1>1, <1>5, <1>8 DEF ShardInv, TypeOK
<1>10. NothingYet' /\ PlaintextIsFuzzers' /\ FirstStepRuns'
  BY <1>1, <1>3, <1>4, <1>5
  DEF ShardInv, NothingYet, PlaintextIsFuzzers, FirstStepRuns, Files, Ok
<1>11. StepsLeave'
  <2>1. res = "success" => published' # {}
    BY <1>1, <1>2, <1>6
  <2> QED
    BY <1>1, <1>3, <1>5, <2>1 DEF ShardInv, StepsLeave, Ok
<1>12. KillIsExplained' /\ LineHolds'
  BY <1>1 DEF ShardInv, KillIsExplained, LineHolds
<1>13. PublishedIsSound'
  BY <1>1, <1>3, <1>4, <1>5, <1>6, <1>7 DEF PublishedIsSound, Ok
<1> QED
  BY <1>5, <1>9, <1>10, <1>11, <1>12, <1>13 DEF ShardInv

LEMMA NextShard ==
    ASSUME ShardInv, [Next]_vars
    PROVE  ShardInv'
<1>1. CASE UNCHANGED vars
  BY <1>1
  DEF vars, KillIsExplained, ShardInv, TypeOK, OutcomesAreDue, NothingYet, FirstStepRuns,
      PlaintextIsFuzzers, StepsLeave, LineHolds, PublishedIsSound, Ok
<1>2. CASE Next
  BY <1>2, SkipShard, CancelShard, MaterializeShard, FuzzShard, OrphanShard,
     FinalizeShard, PublishShard, SummariseShard, GateShard DEF Next
<1> QED
  BY <1>1, <1>2

LEMMA ShardInvariance == Spec => []ShardInv
  BY InitShard, NextShard, PTL DEF Spec

-----------------------------------------------------------------------------
\* Type correctness of a shard job, for any surfaces, artifacts and statuses of
\* the container: an ambiguous status never reaches exit_code
\* (run_fuzzer_shard.sh:234-246).
THEOREM ShardTypes == Spec => []TypeOK
<1>1. ShardInv => TypeOK
  BY DEF ShardInv
<1> QED
  BY <1>1, ShardInvariance, PTL

\* However the job ends, none of the fuzzer's plaintext is left on the runner
\* (hunt.yml:298-326, cloud_finalize_incident.sh:60-88).
THEOREM PlaintextIsGone == Spec => []NoPlaintextLeft
<1>1. ShardInv => NoPlaintextLeft
  <2> SUFFICES ASSUME ShardInv, Over PROVE plain \cap Files = {}
    BY DEF NoPlaintextLeft
  <2>1. at > 6
    BY Order DEF Over, ShardInv, TypeOK
  <2> QED
    BY <2>1 DEF ShardInv, PlaintextIsFuzzers, TypeOK
<1> QED
  BY <1>1, ShardInvariance, PTL

\* What reaches the brain is a corpus of valid units with an encrypted
\* incident and a summary (hunt.yml:346-378).
THEOREM OnlySoundIsPublished == Spec => []PublishedIsSound
<1>1. ShardInv => PublishedIsSound
  BY DEF ShardInv
<1> QED
  BY <1>1, ShardInvariance, PTL

\* A green job fuzzed to the end and delivered everything (hunt.yml:238-390).
THEOREM GreenIsClean == Spec => []GreenMeansClean
<1>1. ShardInv => GreenMeansClean
  <2> SUFFICES ASSUME ShardInv, Green
               PROVE  /\ exit_code = 0 /\ signal \in {"none", "ubsan"}
                      /\ uploaded /\ published # {} /\ emitted
                      /\ summary \notin {"none", "execution_failed",
                                         "budget_exhausted", "container_oom"}
    BY DEF GreenMeansClean
  <2>1. /\ Ok("summary") /\ Ok("upload") /\ Ok("publish") /\ Ok("emit")
        /\ Ok("enforce")
    BY Order DEF Green, Ok
  <2> QED
    BY <2>1 DEF ShardInv, StepsLeave, TypeOK
<1> QED
  BY <1>1, ShardInvariance, PTL

\* The public line is true: "no_finding" of no run that failed, left a report,
\* or whose bundle holds an artifact, and the lines about a kill only of the kill
\* that Docker recorded (run_fuzzer_shard.sh:219-246, public_summary.py:139-158).
THEOREM PublicLineWasTrue == Spec => []PublicLineIsTrue
<1>1. ShardInv => PublicLineIsTrue
  BY DEF ShardInv, KillIsExplained, LineHolds, PublicLineIsTrue
<1> QED
  BY <1>1, ShardInvariance, PTL
=============================================================================
