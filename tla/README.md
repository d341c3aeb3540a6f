# Verification of fireblocks-mpc-hunt

TLA+ models of the fuzzing campaign in `src/`: the GitHub workflow that runs it, the scripts that
move its results into the private "brain" repository, and the C++ harness that fuzzes the CMP ECDSA
signing protocol. TLC checks the models on small instances, and TLAPS proves all their safety
properties, and the refinement, for every value of their constants.

## The system

| component | state it keeps | operations | interacts through |
|---|---|---|---|
| path authority, `brain_paths.sh` | none | generate and parse refs and paths | called by publisher, aggregator, workflow |
| publisher, `publish_ingest.sh` | a private clone | validate, stage, commit, push | ingest ref of its shard |
| aggregator, `aggregate_ingest.sh` | a private clone | fetch, list, merge, gate, push | ingest refs, `corpus-pool` |
| workflow, `hunt.yml`, `plan_wave.sh` | runs, attempts, jobs, pinned revision | dispatch, plan, shards, aggregate, re-run, cancel | concurrency group, brain |
| window scheduler, `materialize_window.py` | none; reads the pinned pool | choose one window of one bucket | run number, pool |
| shard job, steps of `hunt.yml` and their scripts | `private_plain`, corpus, bundle, summary | eleven steps from window to status | files on the runner, container |
| telemetry, `telemetry_v2.cpp`, `telemetry_evidence.py` | counters, claims, documents | claim, record, publish, sanitize | a directory shared by processes |
| dual harness, `dual_session.cpp`, `fuzzer_dual_session.cpp` | two ceremonies over shared stores | schedule, step, judge | signing library |
| single harness, `driver.cpp`, `oracles.cpp`, `fuzzer.cpp`, `fuzzer_reachability_v2.cpp` | one ceremony, key and signing stores | rounds, mutation, oracles, judge | signing library |
| batches, `main.cpp`, `smoke.cpp` | a session, the tally | controls and cases | single harness |
| fixture, `snapshot.cpp`, `mk_snapshot.cpp` | the snapshot file, the key stores | generate, verify, write, read back, load, install | a file that all programs read |
| generator, `det_rand.cpp` | seed, counter, block | reseed, draw | OpenSSL's RAND method |

What is hard to test is concurrency on the remote (two waves, two attempts, two publishers of one
shard), kills at any instruction of a telemetry writer or of the fixture's writer, every combination
of failed steps and cancellation in the shard job, the schedules of the dual harness, and key stores
that outlive the case that changed them. `PROJECT.json` lists these
under `hazards`, each at its line, with the property that would catch it.

## Modules

| module | models | state and actions |
|---|---|---|
| `BrainPaths` | `brain_paths.sh`, the capacity limits | operators only: a path or ref is the record of its fields, a git tree a function from paths to entries |
| `BrainIngest` | publisher and aggregator | `pool`, `rev`, `refs` are the remote; `pub`, `agg` one record per invocation; one action per command that can interleave (`PublishPrepare`, `PublishPush`, `AggregateFetch`, `AggregateList`, `AggregateMerge`, `AggregateCommit`, `AggregatePush`) and the failures |
| `BrainPool` | nothing of the code: the abstract store | `Publish` a branch once, `Consolidate` branches of one wave atomically |
| `HuntWorkflow` | runs, attempts, jobs, the concurrency group | one action per job transition and per operator's choice |
| `WindowSchedule` | the schedule of windows over waves | `Window` is the pure function, `Plan`, `materialize`, `Aggregate` the run around it; `hist` only observes |
| `ShardJob` | one shard's steps | `at` is the step, `outcome` its result as `hunt.yml` sees it; every step is one action, the fuzzer's is parameterised by what it may leave |
| `Telemetry` | writer processes and the sanitizer | `pc` per process between `claim_job`, record, temporary file and rename; `docs`, `claims`, `tmps` are the directory |
| `DualSession` | the dual harness and its fuzz target | `step` is one signer's call in a round of the ceremony that has the turn, `library_call` is external and may misbehave at most `MaxFaults` times; `SignaturesSeen` judges what the two ceremonies signed |
| `SigningDriver` | the single harness, its two fuzz targets, the case runner and the smoke test | `StartCase`, `StartBatchCase`, `StartControl` are calls of `session::run`, `Call` is one guarded call of one signer, `Oracles` the checks after, `Judge...` the programs |
| `Fixture` | `snapshot.cpp`, `mk_snapshot.cpp`, the start of every program | `file` is the sequence of serialized fields; `Generate`, `OpenFile`, `WriteSome`, `WriteDone`, `ReadBack` are `mk_snapshot`, `Load`, `Probe`, `Install`, `Control` a program up to its first input |
| `DetRand` | the generator and the start of a process | bytes are named by key, block and position |
| `MC...` | instances for TLC | constants and symmetry sets only |
| `BrainIngestProofs`, `HuntWorkflowProofs`, `WindowScheduleProofs`, `ShardJobProofs`, `TelemetryProofs`, `DualSessionProofs`, `SigningDriverProofs`, `HarnessStartProofs` | nothing of the code: the inductive invariant of the module they extend (the last extends `Fixture` and `DetRand`, whose specification is named `RandSpec` for that), lemmas and theorems | |

`BrainIngest` EXTENDS `BrainPaths` and instantiates `BrainPool`. The other modules stand on their own
and meet at the abstractions they share: `HuntWorkflow` uses whole publications and aggregations,
whose atomicity is what `BrainIngest` shows; `ShardJob.Publish` is one invocation of the publisher;
`ShardJob.telemetry` is the result of `Telemetry.sanitize`; `WindowSchedule.Aggregate` is one push;
`Fixture` ends where `SigningDriver` and `DualSession` begin, with stores that an honest ceremony can
sign with (the one exception is among the disagreements below).

Data is abstracted to what the properties tell apart. A blob is a model value with a name, a size and
possibly the job whose telemetry it is; a corpus in `ShardJob` is the set of kinds of unit it holds;
a signing record is its round plus the fields the digest does and does not take; a signature is the
set of messages that it verifies for and the sign of its r; a curve point is named by its scalar, a sum
of shares is the bag of its terms, and a key pair is named by the invocation and the player it was
generated for.

## Runs

| run | bounds | shows |
|---|---|---|
| `waves` | 2 publishers, 2 aggregators, 2 runs, capacity 2 | acknowledged publications and aggregations stay; the pool only grows; the pipeline refines `BrainPool`; the inductive invariant holds |
| `foreign` | 1 publisher, 1 aggregator, 2 surfaces, legacy and malformed refs, ill-formed trees, a unit that the shard accepts and the pool does not | no branch makes the pool unhealthy or crosses surfaces |
| `workflow` | 2 runs, 2 shards, one run re-run once | one revision per run; an aggregation's base never moves; every dispatched run ends or is replaced |
| `windows` | 2 lanes, windows of 3, 1 or 2 shards, 5 waves | windows fit, and one is empty only when its own bucket has no private unit; consecutive waves cover the pool; re-runs are stable |
| `shard` | all steps, 14 container statuses (success, libFuzzer's, sanitizers', the entrypoint's, Docker's, the kills'), 2 artifacts | no plaintext left, sound publications, truthful status and public line |
| `telemetry` | 3 processes, 2 at a time, 3 indices, 2 cases each | exclusive claims, whole documents, nothing acknowledged is lost |
| `dual` | 2 signers, control run and 1 case, 2 faults, every schedule | runs complete, tampering is caught, no false findings, abort iff counted, what counts as alternating had both ceremonies under way |
| `signing` | 2-of-2 general, runner and smoke, 3-of-4 reachability, 2 cases, 2 faults | no false findings; signatures over tampered messages are checked and a foreign exception after a mutation stops the program; abort iff counted; a batch that exits 0 left no signer unable to sign |
| `fixture` | bytes of 8 values, 20 command lines with 1 to 10 players, 2 invocations, every cut of the file, every field damaged | what `mk_snapshot` reports is whole and as asked; a program that accepts inputs has a whole fixture that can sign, or one of which only the algorithm field is damaged |
| `rand` | blocks of 3 bytes, draws up to 4, 7 bytes a case, 3 cases | cases reproduce, no byte is used twice |

Why the bounds are enough. Two actors of a kind are what a race on a ref, on the head or on an index
needs, and two waves are what crossing selections need. Capacity 2 puts the pool at its limit after
one wave. Draws of 4 over blocks of 3 start, end and cross at every position. Three processes over
two slots give a second generation of documents. In `windows`, five waves are more than the
ordinals that the pools of the instance need. The dual harness's ceremonies have five rounds, and the
run has all interleavings of two of them. In `fixture`, ten players and a threshold of ten are above
the width of a byte of eight values, repeated ids stand among the signers and after them, and two
invocations leave an old file behind a new one. A batch of two cases with a control between them has
all three places of a control. Deadlock is not checked anywhere: every one of these
systems may stop (no more waves, no more inputs, the job is over).

Every property has a mutant in `PROJECT.json`: a bug in one mapped definition which TLC must find
through that property.

### Where code and text disagree

Two runs expect a violation; each shows a behaviour of the code that a comment or document rules
out. `findings` in `PROJECT.json` quotes both sides.

| run | behaviour |
|---|---|
| `workflow_stranded` | branches of an earlier attempt are never merged by a run that ends green |
| `shard_evidence` | refused telemetry destroys the artifact of a finding |

Other places where a text promises more than the code does were met while modelling. They have no
run of their own; the properties named here are stated so that they say what the code guarantees.

- Coverage "for a fixed shard count" (`2026-08-17-scalable-corpus-windows.md:52`): all lanes draw
  ordinals from one `GITHUB_RUN_NUMBER`, so alternating lanes may revisit the same buckets.
  `CoverageBound` asks for consecutive numbers.
- "no corpus is ever published after a failed gate" (`cloud_finalize_incident.sh:17`): the publish
  step's condition (`hunt.yml:352`) drops `success()`, so it runs after a failed upload or
  revalidation. `PublishedIsSound` holds through the publisher's own validation.
- "Preserve finding/tool failure status" (`hunt.yml:386`): a UBSan report is recoverable, exits 0 and
  ends green. `GreenMeansClean` excepts it.
- "mas de ocho documentos significa que alguien escribio" (`telemetry_evidence.py:59`): every
  fork-mode job leaves a document, so long campaigns exceed `MAX_JOBS` and their evidence is refused.
- "degenero en secuencial ... no cuenta como cobertura" (`dual_session.h:102`): the change of turn
  from an ended ceremony to the other one is a crossing, so back-to-back ceremonies are counted as an
  applied "blocked" schedule. `AlternatingIsInterleaved` says which cells are reliable.
- "false = HALLAZGO" (`dual_session.h:112`): a finding of a case that is not applied is dropped
  (`fuzzer_dual_session.cpp:187`).
- The fingerprint that shows "un paso de B no toco el registro de A" (`dual_session.cpp:236`) takes
  only the size of some byte strings; `TamperingIsCaught` is exact about what it sees.
- "Anything else is not a clean rejection and is escalated" (`driver.cpp:65`): both targets drop the
  verdict when no mutation was applied. `TamperedMeansChecked` has that condition.
- "the key store must be byte-identical" (`driver.cpp:397`): rejection paths and players other than
  the observer are not judged, and the digest takes the public part of the auxiliary keys only.
  `TamperedMeansChecked` speaks of the observer after a signature. The batches' controls ask only for
  CLEAN-SIGN (`main.cpp:136-141`), so `BatchIsControlled` says that no signer was left unable to sign:
  a change that leaves it able to (a ttl, flags, another key's entry) passes when a rejected case made
  it, although the digest would show it.
- "un hallazgo sea reproducible desde el fichero" (`fuzzer_dual_session.cpp:155`):
  `LLVMFuzzerInitialize` of the dual target (line 81) never calls `install_deterministic_rand`, so
  the library does not read the stream that each case reseeds. `CasesAreReproducible` excepts it.
- "HARNESS_FAULT invalidates the batch" (`driver.h:18`): the general target returns before it looks at
  the verdict when no mutation was applied (`fuzzer.cpp:162`), so with a fixture of t < n, where every
  run is refused, it accepts inputs and tests nothing.
- "snapshot re-installed from frozen bytes" (`driver.h:94`): the constructor installs it once, and the
  key stores live as long as the session. `keys` of `SigningDriver` outlives a run for that reason.
- "The full exception surface" (`driver.cpp:59-65`) has `std::out_of_range` and `std::bad_alloc`; the
  dual harness takes both for a fault of its own.
- "derived deterministically from the seed" (`snapshot.cpp:177`): the share depends on the player id
  alone, so fixtures of two seeds share all shares and differ in their auxiliary keys.
- "ordered by id" (`snapshot.h:59`) and "every internal-consistency invariant the library will later
  rely on" (`snapshot.h:90`): `verify_snapshot` compares no ids, so repeated ones pass. Among the
  signers they are caught by the probe or by the control run, which `RunningIsSound` rests on.
  Nor does it look at the algorithm, which is installed in the metadata (`snapshot.cpp:471`) and
  chooses the oracle's curve (`oracles.cpp:61-69`), while ceremonies are started for algorithm 0
  (`driver.cpp:239-240`, `dual_session.cpp:141-142`) and the probe with the snapshot's own value
  (`driver.cpp:545-547`). With another value no honest ceremony signs. The programs with a control
  refuse it; the general and the reachability target, which have none, may accept inputs with it and
  test nothing. `RunningIsSound` states this exception.
- "an ingest branch is pinned to the brain_sha the plan job resolved, so whenever another wave merges
  first the branch is based on an older pool" (`aggregate_ingest.sh:76-80`): the publisher checks out
  the pool as it is when it publishes (`publish_ingest.sh:75-76`), and the concurrency group
  (`hunt.yml:55-57`) lets no other wave merge before the aggregation. `NoMovingBase` says that the
  case never occurs in the workflow; the comparison of trees that the comment explains matters only
  for aggregations started outside of it, which `BrainIngest` has.
- `--t` of `mk_snapshot` keeps the low byte of its value (`mk_snapshot.cpp:40`): 258 builds a fixture
  of threshold 2. `BuiltAsAsked` is stated modulo that width.

## Fairness

Only `HuntWorkflow` has liveness. `WF_vars(JobStep(r))` for each run says that a job that can move
does: every job has `timeout-minutes`, and the service starts what its `needs` and the concurrency
group allow. Operators (dispatch, cancel, re-run) owe nothing. All other specifications are safety
only: scripts and fuzzers may die at any point.

## Proofs

`BrainIngestProofs` proves, for every set of jobs, names, blobs, publishers, aggregators and foreign
refs that satisfies `PathConstants`, `CapacityConstants` and `IngestConstants`:
`IngestInvariance`, `TypeCorrect`, `PoolAlwaysHealthy`, `SurfacesStaySeparate`, `PublishedStays`,
`MergedStays`, `PoolOnlyGrows` and the refinement `PipelineIsAtomic`.

The pool's health is not inductive: a push replaces the pool by a stage, so the invariant has to say
what a stage is. `IngestInv` adds that BASE is a past head, and equals the present one if no push
happened since (`BaseIsPast`); that a stage is its base plus what the merged branches hold, each in
the part its job owns (`StageIsSound`); that a commit passed the capacity gate, changes something and
has no branch left (`CommitIsChecked`); and that what was reported done is in the pool
(`DoneIsInPool`). A push without force requires `rev = base`, so base and pool coincide, and
everything said of the stage becomes true of the pool. The lemmas show per operator that `Merge`
keeps content addressing, evidence and ownership. `PipelineIsAtomic` maps a push to `Consolidate` with
the merged branches as witness, a publication to `Publish`, and all else to stuttering.

The other proof modules follow one pattern: a lemma that Init establishes the invariant, one case or
lemma per action that it keeps it, and short theorems that read a property off it. TLC has checked each
invariant on the instance of the component's run.

| module | theorems | invariant, and why the properties need it |
|---|---|---|
| `HuntWorkflowProofs` | `WorkflowTypes`, `RunsReadOneRevision`, `BaseNeverMoves` | `WorkflowInv`: what was read is what is pinned, by a plan that is not repeated; one run is in progress; a run that waits has no branch of its present attempt. Hence all unmerged branches of the run in progress are based on the present head |
| `WindowScheduleProofs` | `WindowsFit`, `RetriesGetTheSame`, `StreaksCoverThePool` | `WindowInv`: a shard's window is the schedule's value at the pinned inventory, and a lane's history holds the windows of its latest waves as scheduled over today's pool |
| `ShardJobProofs` | `ShardTypes`, `PlaintextIsGone`, `OnlySoundIsPublished`, `GreenIsClean`, `PublicLineWasTrue` | `ShardInv`: a step has an outcome exactly when the job is past it, and each outcome implies what its step left behind; the class in `exit_code` is explained by the container's status and Docker's record of it (`KillIsExplained`), and what the line says by that class (`LineHolds`) |
| `TelemetryProofs` | `TelemetryTypes`, `WritersAreExclusive`, `DocumentsAlwaysClose`, `AcknowledgedSurvives`, `EvidenceCoversTheCampaign` | `TelemetryInv`: owners hold distinct claims, counters lead acknowledgements by at most the case under way, and memory closes as documents do |
| `DualSessionProofs` | `SchedulesNeverCut`, `DualTypes`, `TamperingAlwaysCaught`, `DualHasNoFalseFinding`, `DualCountsItsAborts`, `AlternatingWasInterleaved` | `DualInv`: turns taken are completed rounds plus throws, so at most ten and never the limit of 32. `OracleInv`: the isolation flag is exact, signer by signer, about what calls touched, and a second crossing means that both ceremonies were under way |
| `SigningDriverProofs` | `DriverTypes`, `DriverHasNoFalseFinding`, `DriverChecksWhatItTampers`, `DriverCountsItsAborts`, `BatchesAreControlled` | `DriverInv`: whose call is next, how often a round's views were mutated, that key stores change or lose the ability to sign by faults only, and what a verdict, a control's CLEAN-SIGN included, means when it is judged |
| `HarnessStartProofs` | `FixtureTypes`, `FixtureIsBuiltAsAsked`, `RunningProgramsAreSound` | `FixtureInv`: the file is empty, the beginning of one written snapshot's buffer, or one whole buffer with a field changed (`FileIsKnown`); what was generated keeps its request (`SnapshotIsGenerated`); what a program carries from gate to gate was verified and has the shares of its ids (`HostIsSound`), and what was written has algorithm 0 (`BuiltAlgorithm`). The properties speak of the moment of success only, and what is true then depends on what the file may hold before |
| `HarnessStartProofs` | `EveryCaseIsReproducible`, `NoByteIsReused` | `RandInv`: inside a case the stream stands at the number of bytes drawn, `BlockSize * counter + used = d + BlockSize`, and every byte given out is a function of input and position |

Four arguments are more than an induction over steps.

- Coverage is arithmetic over all window sizes, bucket counts and shard counts. Shards of consecutive
  waves have consecutive ordinals (`StreakSpans`); window i of the bucket of rank b, one of W windows
  among P buckets, is served by the ordinals congruent to P * i + b modulo P * W (`StretchServes`);
  and P * W consecutive numbers hold one of each residue (`ResidueIsNear`).
- The totals of telemetry are folds over finite sets. That they do not depend on the order, grow by
  one with a counter, and cover the sum of the acknowledgements (`SumRemoves`, `SumBumps`,
  `SumCovers`) is an induction over subsets, taken from the well-foundedness of strict inclusion with
  a set of good subsets in place of a predicate.
- A file is a prefix of a buffer, and a reader of it decides by the player count whether it is the
  whole: `ReadsBack` goes from the place of a field to its owner and column and back, so a torn file is
  never accepted and a whole one gives back the very snapshot. `DamageIsHarmless` shows that a file
  with any one other field still has the shares of its ids if it passes `verify_snapshot`, and
  `SumsAgree` that, once t designated ids are different, the sum over positions that the public key was
  made of is the sum over ids that the signers will form. `SoundSigns` concludes that the
  stores fit each other, also where ids repeat after the signers; with algorithm 0, which every
  written snapshot has and every control tests, a ceremony can complete.
- A draw that crosses blocks gives the bytes of its positions (`ByteIsSpot`, `DrawMovesOn`) by the
  uniqueness of quotient and remainder.

Assumptions on constants, all named in the modules that declare them and evaluated by TLC on every
run: sets of processes, cells and names are finite (a directory, a table, a git tree); there is at
least one public seed and fewer than `WINDOW_SIZE` (`materialize_window.py` refuses others);
thresholds, block size and shard counts are positive; a byte has more than two values;
`materialize.out` is not the name of an artifact of the fuzzer; no process in the container ends with
73 or 74, the classes that `run_fuzzer_shard.sh` reserves for its own verdict on a kill (it passes any
other status through, 72 of libFuzzer included).

Only model-checked: `EveryRunEnds` of `HuntWorkflow`, which is liveness under fairness; the prover has
no rule for it.

Out of the prover's reach altogether are liveness under fairness, ENABLED, and induction theorems whose
parameter is an operator. Induction over the subsets of a finite set is within reach in the form used
for the sums.

## Assumptions and limits

- A foreign ingest ref never points at a commit of `corpus-pool`'s own history, so a non-fast-forward
  is always refused. Content determines its SHA-1 name, and `DetRand` ignores hash collisions.
- A failed process substitution (`ls-remote`, `ls-tree`) yields a shorter list. For `ls-remote` the
  result is an empty wave, which fails at its empty commit, as `AggregateFail` does. The line
  `! git diff --cached --quiet` does not trigger `set -e`; `git commit` itself refuses the empty
  commit.
- COUNT is parsed and range-checked by the aggregator and never compared with the number of branches.
- In `ShardJob`, the removal of `private_plain` is atomic except that a surviving container can make
  it fail. A cancellation during the window step leaves that step's empty sidecar, which is not the
  fuzzer's plaintext, and `NoPlaintextLeft` does not speak of it.
- The runs do not exhaust the job indices of `Telemetry`.
- `signal` in `ShardJob` is what the log shows; how frames are normalised is left out. The allowlist
  and size limits of `package_incident.py` are one way for the packaging to fail, and those of
  `public_summary.py` one way for the summary to.
- The limit of 512 MiB on a corpus (`materialize_corpus.py:53`) is left out of `BrainIngest`, the early
  return for a verdict outside the table (`telemetry_v2.cpp:258`) of `Telemetry`, and a scheduled plan
  that is skipped (`hunt.yml:65`) is a plan that fails in `HuntWorkflow`.
- In `Fixture`, no two different bags of shares, which are digests of ids, have the same sum; a program
  reads the file once, so nothing happens to the file after `Load`; a damaged copy differs in one field
  other than an id, since no check can tell one id from another; and a read that finds fewer
  fields stands for a cut at any byte.
- Faults of the signing library in `SigningDriver` change a key store visibly or not to its digest,
  and with or without harm to signing; a store that was harmed stays so. The dual oracles judge the
  first signature of each ceremony, and a ceremony has one block.

Not modelled, and why: the curve arithmetic behind the oracles and the key generators, which is
external or abstracted to what it decides; the platform stubs of `fixtures.cpp`, which return
constants; `validate_rt4.py`, an offline verdict that nothing in the pipeline calls; image builds and
CI, which share no state with the rest; and the tuple table and expiry of `plan_wave.sh`, a pure check
against the clock (the plan accepts or refuses).

## Plan

Done: the ingest pipeline with its refinement, workflow, windows, shard job, telemetry, fixture, both
harnesses with all their programs, and the generator, each with runs and mutants; the safety
properties of all of them as theorems.

Possible extensions of the model: `plan_wave.sh`'s authorisation with a clock; `check` of
`telemetry_evidence.py` over `Telemetry`'s directory; a composition of `HuntWorkflow` with
`BrainIngest`, so that a wave's aggregation is the script itself.
