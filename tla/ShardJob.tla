------------------------------ MODULE ShardJob ------------------------------
(***************************************************************************)
(* One job of the hunt matrix (hunt.yml:152-389): fuzz in a container,     *)
(* then set broken units aside, validate, summarise, encrypt the evidence, *)
(* upload it, publish the corpus, and only then report the fuzzer's status.*)
(*                                                                         *)
(* The order and the conditions of the steps are the workflow's; what each *)
(* step does is its script.  The operator may cancel the job, a container  *)
(* that survives its removal goes on writing, and every tool may fail.     *)
(***************************************************************************)
EXTENDS Naturals, FiniteSets, Sequences

CONSTANTS
    Harnesses,         \* surfaces
    TelemetryHarness,  \* the one whose counters are packaged (r4_tn)
    Artifacts,         \* artifact files that libFuzzer may write
    ContainerExits     \* statuses that docker run may end with

\* Nothing in the container ends with the classes 73 and 74 that the script
\* reserves for its own verdict on a kill.
ASSUME ShardConstants == /\ TelemetryHarness \in Harnesses
                         /\ "materialize.out" \notin Artifacts
                         /\ ContainerExits \subseteq (0 .. 255) \ {73, 74}

Steps == <<"materialize", "fuzz", "quarantine", "validate", "summary",
           "finalize", "upload", "revalidate", "publish", "emit", "enforce">>
StepNames == {Steps[i] : i \in 1 .. Len(Steps)}

VARIABLES
    at,         \* position in Steps
    outcome,    \* step -> its outcome
    cancelled,  \* the operator cancelled the job
    harness,    \* the surface that the lane maps to
    private,    \* private_plain exists
    plain,      \* the files in it
    exit_code,  \* what its file exit_code says
    status,     \* observation: the status of docker run before it is classified
    oom_killed, \* what its file oom_killed says
    signal,     \* what sanitisers and oracles left in the log
    units,      \* kinds of corpus units: "valid", "broken", "anomaly"
    telemetry,  \* whether telemetry_evidence.py accepts the counters
    bundle,     \* the files in the encrypted bundle, {} for no bundle
    summary,    \* the line summary= of the public summary
    uploaded, published, emitted,
    orphan,     \* the container outlived its removal
    gpg         \* observation: the encryption works on this runner

vars == <<at, outcome, cancelled, harness, private, plain, exit_code, status,
          oom_killed, signal, units, telemetry, bundle, summary, uploaded,
          published, emitted, orphan, gpg>>
docker   == <<status, oom_killed>>
evidence == <<private, plain, exit_code, docker, signal, telemetry, gpg>>
results  == <<summary, bundle, uploaded, published, emitted>>

Init ==
    /\ at = 1
    /\ outcome = [s \in StepNames |-> "none"]
    /\ cancelled = FALSE
    /\ harness \in Harnesses
    /\ private = FALSE /\ plain = {} /\ exit_code = 0 /\ signal = "none"
    /\ status = 0 /\ oom_killed = "unknown"
    /\ units = {} /\ telemetry = FALSE
    /\ bundle = {} /\ summary = "none"
    /\ uploaded = FALSE /\ published = {} /\ emitted = FALSE
    /\ orphan = FALSE
    /\ gpg \in BOOLEAN

Ok(s) == outcome[s] = "success"

\* success(), which does not see the fuzz step: it continues on error.
NoneFailed == /\ ~cancelled
              /\ \A t \in StepNames \ {"fuzz"} : outcome[t] # "failure"

\* Mutant: the finalizer is a step like the others.
Runs_FinalizeOnSuccess(s) ==
    IF s = "publish"
    THEN ~cancelled /\ Ok("validate") /\ Ok("summary") /\ Ok("finalize")
    ELSE NoneFailed

\* The if: condition of a step; one without a condition needs success().
Runs(s) ==
    IF s = "finalize" THEN Ok("materialize")
    ELSE IF s = "publish"
    THEN ~cancelled /\ Ok("validate") /\ Ok("summary") /\ Ok("finalize")
    ELSE NoneFailed

Over == at > Len(Steps)

\* The step ends and the job goes on to the next one.
End(s, result) ==
    /\ outcome' = [outcome EXCEPT ![s] = result]
    /\ at' = at + 1

Now(s) == ~Over /\ Steps[at] = s /\ Runs(s)

Result(ok) == IF ok THEN "success" ELSE "failure"

Skip ==
    /\ ~Over /\ ~Runs(Steps[at])
    /\ End(Steps[at], "skipped")
    /\ UNCHANGED <<cancelled, harness, evidence, units, results, orphan>>

\* Cancelled between two steps: those without always() are skipped.
Cancel ==
    /\ ~Over /\ ~cancelled
    /\ cancelled' = TRUE
    /\ UNCHANGED <<at, outcome, harness, evidence, units, results, orphan>>

\* Cancelled while materialising: the step's sidecar stays.
CancelMaterialize ==
    /\ Now("materialize")
    /\ cancelled' = TRUE
    /\ private' = TRUE /\ plain' = {"materialize.out"}
    /\ End("materialize", "cancelled")
    /\ UNCHANGED <<harness, exit_code, docker, signal, telemetry, gpg, units,
                   results, orphan>>

\* A window of one unit or more; on failure nothing private is left behind.
Materialize(ok) ==
    /\ Now("materialize")
    /\ units' = IF ok THEN {"valid"} ELSE {}
    /\ End("materialize", Result(ok))
    /\ UNCHANGED <<cancelled, harness, evidence, results, orphan>>

(***************************************************************************)
(* run_fuzzer_shard.sh                                                     *)
(***************************************************************************)

\* Mutant: the status of the container as it is.
ExitClass_Raw(raw, oom, output) == raw

\* Mutant: a watchdog that expired is believed before the container's state.
ExitClass_TimeoutFirst(raw, oom, output) ==
    IF raw \notin {124, 137} THEN raw
    ELSE IF raw = 124 \/ (oom = "false" /\ output) THEN 72
    ELSE IF oom = "true" THEN 73
    ELSE 74

\* The exit status of the container, told apart by what Docker recorded.
ExitClass(raw, oom, output) ==
    IF raw \notin {124, 137} THEN raw
    ELSE IF oom = "true" THEN 73
    ELSE IF raw = 124 \/ (oom = "false" /\ output) THEN 72
    ELSE 74

\* What the run leaves: a finding of libFuzzer (70 timeout, 71 oom, 77 crash or
\* leak) writes its artifact, a slow unit may be written by a run that is clean,
\* and whatever else ends the container may cut anything.  ASan and the oracles
\* end the process, with whatever status; UBSan reports and goes on, as the image
\* sets no halt_on_error where it fuzzes (CMakeLists.txt:13,
\* Dockerfile.fuzzer:108).  Crashes are not ignored in fork mode (line 168).
Leaves(raw, files, sig) ==
    /\ raw \in {70, 71, 77} => files # {}
    /\ sig \in {"asan", "oracle"} => raw # 0

RunFuzzer(raw, oom, output, files, sig, left, tele, lives) ==
    /\ Leaves(raw, files, sig)
    /\ lives => raw \in {124, 137}
    /\ private' = TRUE
    /\ plain' = {"fuzzer.raw.log", "exit_code", "oom_killed", "harness"}
                   \cup files
    /\ status' = raw /\ oom_killed' = oom
    /\ exit_code' = ExitClass(raw, oom, output)
    /\ signal' = sig
    /\ units' = units \cup left
    /\ telemetry' = tele
    /\ orphan' = lives
    /\ End("fuzz", Result(exit_code' = 0))
    /\ UNCHANGED <<cancelled, harness, gpg, results>>

\* The invocation is refused: before private_plain exists, after it, or
\* through fail_rc, which leaves exit_code alone.
FuzzerRefused(code, made, wrote) ==
    /\ wrote => made /\ code \in {64, 69}
    /\ code = 69 => wrote
    /\ private' = made
    /\ plain' = IF wrote THEN {"exit_code"} ELSE {}
    /\ exit_code' = code
    /\ End("fuzz", "failure")
    /\ UNCHANGED <<cancelled, harness, docker, signal, telemetry, gpg, units,
                   results, orphan>>

\* Cancelled while the container runs: on_cancel leaves the minimum, unless
\* the runner kills the shell before its trap runs.
CancelFuzzer(trapped, files, left, lives) ==
    /\ cancelled' = TRUE
    /\ private' = TRUE
    /\ plain' = files \cup {"fuzzer.raw.log"}
                   \cup (IF trapped THEN {"exit_code"} ELSE {})
    /\ exit_code' = 143
    /\ units' = units \cup left
    /\ orphan' = lives
    /\ End("fuzz", "failure")
    /\ UNCHANGED <<harness, docker, signal, telemetry, gpg, results>>

\* A container that docker rm did not remove finishes a unit, starts one, or
\* writes an artifact.
OrphanWrites ==
    /\ orphan /\ ~Over /\ at > 2
    /\ \/ units' = units \cup {"broken"} /\ UNCHANGED plain
       \/ units' = units \ {"broken"} /\ UNCHANGED plain
       \/ /\ private
          /\ \E a \in Artifacts : plain' = plain \cup {a}
          /\ UNCHANGED units
    /\ UNCHANGED <<at, outcome, cancelled, harness, private, exit_code, docker,
                   signal, telemetry, gpg, results, orphan>>

(***************************************************************************)
(* The gates after the fuzzer.                                             *)
(***************************************************************************)

\* quarantine_corpus.py
Quarantine ==
    /\ Now("quarantine")
    /\ IF "anomaly" \in units
       THEN \/ UNCHANGED units
            \/ units' = units \ {"broken"}
       ELSE units' = units \ {"broken"}
    /\ End("quarantine", Result("anomaly" \notin units /\ "valid" \in units))
    /\ UNCHANGED <<cancelled, harness, evidence, results, orphan>>

\* validate_corpus.py
CorpusOK == units = {"valid"}

Validate ==
    /\ Now("validate")
    /\ End("validate", Result(CorpusOK))
    /\ UNCHANGED <<cancelled, harness, evidence, units, results, orphan>>

Found == plain \cap Artifacts

\* Mutant: the exit code is not consulted.
Classified_LogOnly ==
    IF signal # "none" THEN signal
    ELSE IF Found # {} THEN "artifact" ELSE "no_finding"

\* public_summary.py: sanitiser or oracle, else the artifact's kind; without
\* an artifact a failed run is a tool failure.
Classified ==
    IF Found = {} /\ exit_code # 0
    THEN IF exit_code = 72 THEN "budget_exhausted"
         ELSE IF exit_code = 73 THEN "container_oom" ELSE "execution_failed"
    ELSE IF signal # "none" THEN signal
    ELSE IF Found # {} THEN "artifact" ELSE "no_finding"

\* The log and the artifact may be larger than the summary accepts.
Summarise(within) ==
    LET ok == /\ within
              /\ {"fuzzer.raw.log", "exit_code", "harness"} \subseteq plain
              /\ Cardinality(Found) <= 1
    IN /\ Now("summary")
       /\ summary' = IF ok THEN Classified ELSE "none"
       /\ End("summary", Result(ok))
       /\ UNCHANGED <<cancelled, harness, evidence, units, bundle, uploaded,
                      published, emitted, orphan>>

(***************************************************************************)
(* cloud_finalize_incident.sh and package_incident.py                      *)
(***************************************************************************)
NeedsTelemetry == "harness" \in plain /\ harness = TelemetryHarness

Packaged == /\ private
            /\ {"fuzzer.raw.log", "exit_code"} \subseteq plain
            /\ NeedsTelemetry => telemetry
            /\ gpg

\* Encrypt and remove the plaintext, or destroy it; in either case succeed
\* only if the gates before did.  A file that appears while private_plain is
\* removed makes the packaging fail.
Finalize(secured) ==
    /\ Now("finalize")
    /\ secured => Packaged
    /\ ~secured => ~Packaged \/ orphan
    /\ bundle' = IF secured THEN plain ELSE {}
    /\ private' = FALSE /\ plain' = {}
    /\ End("finalize", Result(secured /\ Ok("validate") /\ Ok("summary")))
    /\ UNCHANGED <<cancelled, harness, exit_code, docker, signal, telemetry, gpg,
                   units, summary, uploaded, published, emitted, orphan>>

Upload(ok) ==
    /\ Now("upload")
    /\ uploaded' = ok
    /\ End("upload", Result(ok))
    /\ UNCHANGED <<cancelled, harness, evidence, units, summary, bundle,
                   published, emitted, orphan>>

Revalidate ==
    /\ Now("revalidate")
    /\ End("revalidate", Result(CorpusOK))
    /\ UNCHANGED <<cancelled, harness, evidence, units, results, orphan>>

\* Mutant: what validate_corpus.py saw is trusted.
PublishAccepts_Unchecked == TRUE

\* publish_ingest.sh copies and validates the corpus again.
PublishAccepts == units \cap {"broken", "anomaly"} = {}

\* The push may land although its acknowledgement is lost.
Publish(ok, landed) ==
    /\ Now("publish")
    /\ ok => landed
    /\ landed => PublishAccepts
    /\ published' = IF landed THEN units ELSE {}
    /\ End("publish", Result(ok))
    /\ UNCHANGED <<cancelled, harness, evidence, units, summary, bundle,
                   uploaded, emitted, orphan>>

\* emit_summary.py
Emit ==
    /\ Now("emit")
    /\ emitted' = TRUE
    /\ End("emit", "success")
    /\ UNCHANGED <<cancelled, harness, evidence, units, summary, bundle,
                   uploaded, published, orphan>>

\* Mutant: the step succeeds whatever the code.
Enforce_Lenient ==
    /\ Now("enforce")
    /\ End("enforce", "success")
    /\ UNCHANGED <<cancelled, harness, evidence, units, results, orphan>>

\* enforce_summary_status.py
Enforce ==
    /\ Now("enforce")
    /\ End("enforce", Result(exit_code = 0))
    /\ UNCHANGED <<cancelled, harness, evidence, units, results, orphan>>

Fuzz ==
    /\ Now("fuzz")
    /\ \/ \E raw \in ContainerExits, oom \in {"true", "false", "unknown"},
             output, tele, lives \in BOOLEAN, files \in SUBSET Artifacts,
             sig \in {"none", "asan", "ubsan", "oracle"},
             left \in SUBSET {"broken", "anomaly"} :
             RunFuzzer(raw, oom, output, files, sig, left, tele, lives)
       \/ \E code \in {64, 65, 69}, made, wrote \in BOOLEAN :
             FuzzerRefused(code, made, wrote)
       \/ \E trapped, lives \in BOOLEAN, files \in SUBSET Artifacts,
             left \in SUBSET {"broken", "anomaly"} :
             CancelFuzzer(trapped, files, left, lives)

Next ==
    \/ Skip \/ Cancel \/ CancelMaterialize \/ Fuzz \/ OrphanWrites
    \/ \E ok \in BOOLEAN : \/ Materialize(ok) \/ Finalize(ok) \/ Upload(ok)
                           \/ Summarise(ok)
    \/ \E ok, landed \in BOOLEAN : Publish(ok, landed)
    \/ Quarantine \/ Validate \/ Revalidate \/ Emit \/ Enforce

Spec == Init /\ [][Next]_vars

-----------------------------------------------------------------------------
(***************************************************************************)
(* Properties                                                              *)
(***************************************************************************)
Green == Over /\ ~cancelled /\
         \A t \in StepNames \ {"fuzz"} : outcome[t] = "success"

Files == {"fuzzer.raw.log", "exit_code", "oom_killed", "harness"}
            \cup Artifacts

\* The type invariant of the job: the ambiguous statuses of a kill never reach
\* exit_code (run_fuzzer_shard.sh:234-246), and no file is without its directory.
TypeOK ==
    /\ at \in 1 .. Len(Steps) + 1
    /\ outcome \in [StepNames -> {"none", "success", "failure", "skipped",
                                  "cancelled"}]
    /\ {cancelled, private, telemetry, uploaded, emitted, orphan, gpg}
          \subseteq BOOLEAN
    /\ harness \in Harnesses
    /\ plain \subseteq Files \cup {"materialize.out"} /\ (plain # {} => private)
    /\ bundle \subseteq Files
    /\ exit_code \in (0 .. 255) \ {124, 137} /\ status \in 0 .. 255
    /\ oom_killed \in {"true", "false", "unknown"}
    /\ signal \in {"none", "asan", "ubsan", "oracle"}
    /\ units \subseteq {"valid", "broken", "anomaly"}
    /\ published \subseteq {"valid", "broken", "anomaly"}

\* However the job ends, cancellation and failed gates included, none of the
\* fuzzer's plaintext is left on the runner (hunt.yml:298-326,
\* cloud_finalize_incident.sh:60-88).
NoPlaintextLeft == Over => plain \cap Files = {}

\* What reaches the brain is a corpus of valid units with an encrypted incident
\* that holds the log and the exit code, and a summary that was made
\* (hunt.yml:346-378), although a container that survived its removal goes on
\* writing after the validations.
PublishedIsSound ==
    published # {} =>
        /\ published = {"valid"}
        /\ {"fuzzer.raw.log", "exit_code"} \subseteq bundle
        /\ Ok("summary")

\* A green job fuzzed to the end, without a report but the recoverable ones of
\* UBSan, and delivered everything: bundle, corpus and summary
\* (hunt.yml:238-390).
GreenMeansClean ==
    Green => /\ exit_code = 0 /\ signal \in {"none", "ubsan"}
             /\ uploaded /\ published # {} /\ emitted
             /\ summary \notin {"none", "execution_failed",
                                "budget_exhausted", "container_oom"}

\* The public line is true of the run.  It never says "no_finding" of one that
\* failed, that left a report in its log, or whose bundle holds an artifact that
\* was there when the summary was made; "container_oom" only of a container that
\* was killed with the kill on Docker's record; and "budget_exhausted" only of one
\* killed without that record, or that ended with 72, libFuzzer's status for an
\* interrupted run, by itself (run_fuzzer_shard.sh:219-246,
\* public_summary.py:139-158).
PublicLineIsTrue ==
    /\ summary = "no_finding" =>
          /\ exit_code = 0 /\ signal = "none"
          /\ orphan \/ bundle \cap Artifacts = {}
    /\ summary = "container_oom" =>
          status \in {124, 137} /\ oom_killed = "true"
    /\ summary = "budget_exhausted" =>
          status = 72 \/ (status \in {124, 137} /\ oom_killed # "true")

\* "so evidence is always secured before the failure propagates"
\* (hunt.yml:301-302); only a failure of GPG or of the cleanup destroys it
\* (cloud_finalize_incident.sh:12-14).  A finding's artifact is in the bundle
\* once the finalizer ended.
EvidenceIsSecured ==
    (/\ outcome["finalize"] \in {"success", "failure"}
     /\ exit_code \in {70, 71, 77}
     /\ gpg /\ ~orphan) => bundle \cap Artifacts # {}
=============================================================================
