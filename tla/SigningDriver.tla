--------------------------- MODULE SigningDriver ---------------------------
(***************************************************************************)
(* The single-session programs: session::run drives the five rounds of one *)
(* signing ceremony, tampers with what the honest players receive from the *)
(* attacker, and judges the outcome (driver.cpp, oracles.cpp).  The fuzz   *)
(* targets turn the verdict into nothing, a counter, an abort or a         *)
(* fail_closed (fuzzer.cpp, fuzzer_reachability_v2.cpp); the case runner   *)
(* and the smoke test run a fixed batch of cases between honest controls   *)
(* (main.cpp, smoke.cpp).                                                  *)
(*                                                                         *)
(* The signing library is external: any call may succeed or throw one of   *)
(* its own exceptions, and, within a budget of faults, it may throw        *)
(* something else, change a key store, keep its record, or sign badly.     *)
(***************************************************************************)
EXTENDS Naturals, FiniteSets, FiniteSetsExt

CONSTANTS
    GeneralN,        \* players of snapshot.bin, all of whom sign
    ControlEvery,    \* cases of the smoke test between two controls, 26
    ReachT, ReachN,  \* threshold and players of snapshot_tn.bin
    MaxCases,        \* cases of a batch; bound on the inputs of a fuzzer
    MaxFaults        \* bound on the library's misbehaviours

ASSUME DriverConstants ==
    /\ {GeneralN, ReachT, ReachN, ControlEvery, MaxCases, MaxFaults}
          \subseteq Nat
    /\ ControlEvery > 0 /\ MaxCases > 0
    /\ GeneralN >= 2 /\ 2 <= ReachT /\ ReachT < ReachN

Targets == {"general", "reachability", "runner", "smoke"}
Batch == {"runner", "smoke"}
AllPlayers == 1 .. Max({GeneralN, ReachN})

VARIABLES
    pc,          \* "idle", "call", "oracles", "judge", or how it stopped
    target,      \* the program
    stage,       \* what a batch runs next: control, cases, control
    attacker,    \* cfg.malicious_ids; NoAttacker in an honest control
    mutation,    \* the round and the kind of the one mutation
    positiveR,   \* metadata_json asks for a positive r
    round,       \* round under way
    signer,      \* player whose call is next
    applied,     \* res.mutations_applied
    keys,        \* player -> changes that the digest of its key store shows;
                 \* the stores outlive a run
    keysAtStart, \* the digests when the run started
    harmed,      \* players whose key store no longer signs for the public key
    harmedAtStart,
    rec,         \* players whose signing store holds the record of the txid
    sigs,        \* the signatures that the observer got
    verdict,     \* res.v
    counted,     \* the verdict that record_case counted last
    tally,       \* verdicts of the batch's cases
    cases, faults,
    seen         \* observations: the library threw outside its surface, the
                 \* ceremony exceeded its time

input == <<target, attacker, mutation, positiveR, keysAtStart, harmedAtStart,
           cases>>
stores == <<keys, harmed>>
vars == <<pc, stage, input, round, signer, applied, stores, rec, sigs, verdict,
          counted, tally, faults, seen>>

Ids == 1 .. (IF target = "reachability" THEN ReachN ELSE GeneralN)
Threshold == IF target = "reachability" THEN ReachT ELSE GeneralN

\* The reachability target names the first t players; the others leave
\* signers_ids empty, so everyone signs.
Signers == IF target = "reachability" THEN 1 .. ReachT ELSE Ids
NoAttacker == 0
Control == attacker = NoAttacker

Honest == Signers \ {attacker}
Observer == Min(Honest)
Rounds == 5

NothingSeen == [fatal |-> FALSE, slow |-> FALSE]
NoKeyChanged == [p \in AllPlayers |-> 0]
NoMutation == [round |-> 0, op |-> "none"]

\* The signatures of a run, by the worst of its blocks: how many there are,
\* the messages it verifies for under the derived key, the sign of its r.
Signatures == [count : BOOLEAN, verifies : SUBSET {"requested", "canary"},
               positive : BOOLEAN]
NoSigs == [count |-> FALSE, verifies |-> {}, positive |-> FALSE]

Init ==
    /\ pc = "idle" /\ target \in Targets
    /\ stage = IF target \in Batch THEN "pre" ELSE "cases"
    /\ attacker = NoAttacker /\ mutation = NoMutation /\ positiveR = FALSE
    /\ round = 1 /\ signer = 1 /\ applied = 0
    /\ keys = NoKeyChanged /\ keysAtStart = NoKeyChanged
    /\ harmed = {} /\ harmedAtStart = {}
    /\ rec = {} /\ sigs = NoSigs
    /\ verdict = "none" /\ counted = "none" /\ tally = {}
    /\ cases = 0 /\ faults = 0 /\ seen = NothingSeen

\* The fields that a program tampers with, by round: the tables of the
\* general target and of the batches, and the cells of the reachability target.
FIELDS == [round : 1 .. 4, op : {"change"}]
Cells == {[round |-> 1, op |-> "change"], [round |-> 4, op |-> "extra"]}
Mutations == IF target = "reachability" THEN Cells ELSE FIELDS

\* run() checks the configuration, makes fresh signing stores over the same
\* key stores and starts with the first signer.
run(a, m, pr) ==
    /\ attacker' = a /\ mutation' = m /\ positiveR' = pr
    /\ round' = 1 /\ signer' = Min(Signers) /\ applied' = 0
    /\ rec' = {} /\ sigs' = NoSigs /\ counted' = "none"
    /\ keysAtStart' = keys /\ harmedAtStart' = harmed
    /\ IF Cardinality(Signers) = Threshold /\ Signers # {a}
       THEN pc' = "call" /\ verdict' = "none"
       ELSE pc' = "judge" /\ verdict' = "HARNESS-FAULT"
    /\ seen' = NothingSeen

\* An input of a fuzz target selects attacker, mutation and metadata.
StartCase(a, m, pr) ==
    /\ pc = "idle" /\ target \notin Batch /\ cases < MaxCases
    /\ cases' = cases + 1
    /\ run(a, m, pr)
    /\ UNCHANGED <<target, stage, stores, tally, faults>>

\* The next case of a batch: the second player attacks, without metadata.
StartBatchCase(m) ==
    /\ pc = "idle" /\ target \in Batch /\ stage = "cases"
    /\ cases < MaxCases
    /\ cases' = cases + 1
    /\ run(2, m, FALSE)
    /\ UNCHANGED <<target, stage, stores, tally, faults>>

\* The honest control before, within and after a batch.
StartControl ==
    /\ pc = "idle" /\ stage \in {"pre", "mid", "post"}
    /\ run(NoAttacker, NoMutation, FALSE)
    /\ UNCHANGED <<target, stage, stores, tally, cases, faults>>

\* An input of less than eight bytes, or of more than 4096, is dropped; the
\* reachability target counts it, or fails closed when it cannot.
DoorReject(written) ==
    /\ pc = "idle" /\ cases < MaxCases /\ target \notin Batch
    /\ target = "general" => written
    /\ pc' = IF written THEN "idle" ELSE "fail_closed"
    /\ cases' = cases + 1
    /\ counted' = "none" /\ seen' = NothingSeen /\ verdict' = "none"
    /\ UNCHANGED <<target, stage, attacker, mutation, positiveR, round, signer,
                   applied, stores, keysAtStart, harmedAtStart, rec, sigs, tally,
                   faults>>

(***************************************************************************)
(* One call of the library.                                                *)
(***************************************************************************)

\* Mutant: the attacker tampers with its own view too.
Mutable_Everyone ==
    /\ mutation # NoMutation /\ mutation.round = round - 1
    /\ mutation.op = "extra" => Ids \ Signers # {}

\* Whether the view of the signer can be mutated: there is a mutation and its
\* message is the one of the round before, the attacker's own view stays
\* honest, and an extra entry needs a player that does not sign.
Mutable ==
    /\ mutation # NoMutation /\ mutation.round = round - 1
    /\ signer # attacker
    /\ mutation.op = "extra" => Ids \ Signers # {}

\* det_signing_persistency refuses a second store and any use without one.
StoreAllows == round = 1 <=> signer \notin rec

\* The record after the call: stored in round 1, deleted in round 5.
RecordAfter(result, fault) ==
    IF result # "ok" \/ fault = "survive" THEN rec
    ELSE IF round = Rounds THEN rec \ {signer} ELSE rec \cup {signer}

Later == {p \in Signers : p > signer}

\* A fault may change player p's key store: "keys" what the digest takes and
\* signing does not need (ttl, flags, another key), "hidden" what signing needs
\* and the digest leaves out (the private auxiliary keys), "harm" both
\* (fixtures.cpp:290-325).
library_call(result, fault, p) ==
    /\ result = "ok" => StoreAllows
    /\ fault = "survive" => round = Rounds /\ result = "ok"
    /\ fault # "none" \/ result = "fatal" => faults < MaxFaults
    /\ faults' = faults + (IF fault # "none" \/ result = "fatal" THEN 1 ELSE 0)
    /\ keys' = IF fault \in {"keys", "harm"} THEN [keys EXCEPT ![p] = @ + 1]
               ELSE keys
    /\ harmed' = IF fault \in {"harm", "hidden"} THEN harmed \cup {p} ELSE harmed
    /\ rec' = RecordAfter(result, fault)
    /\ seen' = [seen EXCEPT !.fatal = @ \/ result = "fatal"]

\* guarded: the library's own exceptions are rejections, which an honest
\* control must not meet.
Thrown(result) ==
    IF result = "fatal" THEN "CRASH"
    ELSE IF Control THEN "HARNESS-FAULT" ELSE "CLEAN-REJECT"

\* A signer's call of the round, on a view that may be mutated.  A throw ends
\* the run; the last signer's call ends the round, and only an honest player
\* makes the call of round 5.
Call(result, fault, p, mutated) ==
    /\ pc = "call"
    /\ mutated => Mutable
    /\ mutation.op = "extra" => mutated = Mutable
    /\ applied' = applied + (IF mutated THEN 1 ELSE 0)
    /\ library_call(result, fault, p)
    /\ IF result # "ok"
       THEN /\ pc' = "judge"
            /\ verdict' = Thrown(result)
            /\ UNCHANGED <<round, signer>>
       ELSE /\ pc' = IF round = Rounds THEN "oracles" ELSE "call"
            /\ round' = IF round < Rounds /\ Later = {} THEN round + 1
                        ELSE round
            /\ signer' = IF round = Rounds THEN signer
                         ELSE IF Later # {} THEN Min(Later)
                         ELSE IF round = Rounds - 1 THEN Observer
                         ELSE Min(Signers)
            /\ UNCHANGED verdict
    /\ UNCHANGED <<input, stage, sigs, counted, tally>>

(***************************************************************************)
(* The oracles, in the order of driver.cpp:397-448.                        *)
(***************************************************************************)

\* Mutant: the record of any signer counts.
RecordSurvives_Anywhere == rec # {}

\* O4b: the observer's store still holds the record.
RecordSurvives == Observer \in rec

\* Mutant: the key store is compared before the ceremony.
KeyStoreUnchanged_Early == TRUE

\* O4: the digest of the observer's key store.
KeyStoreUnchanged == keys[Observer] = keysAtStart[Observer]

\* O1: the signature verifies for the requested message, and its r has the
\* sign that was asked for.
oracle_signature_valid(s) ==
    "requested" \in s.verifies /\ (positiveR => s.positive)

\* Messages that nobody agreed to sign.
oracle_no_canary_forgery(s) == "canary" \notin s.verifies

\* A control has no time budget.
Verdict(s, slow) ==
    IF ~KeyStoreUnchanged \/ RecordSurvives THEN "STATE-CORRUPTION"
    ELSE IF \/ ~s.count
            \/ ~oracle_signature_valid(s)
            \/ ~oracle_no_canary_forgery(s) THEN "INVALID-SIGNATURE"
    ELSE IF slow /\ ~Control THEN "TIMEOUT" ELSE "CLEAN-SIGN"

\* What the library promises of its signatures.
AsPromised(s) ==
    s.count /\ s.verifies = {"requested"} /\ (positiveR => s.positive)

\* The signers' key stores signed for the public key when the run started.
KeysSign == harmedAtStart \cap Signers = {}

Oracles(s, slow) ==
    /\ pc = "oracles"
    /\ AsPromised(s) => KeysSign
    /\ ~AsPromised(s) /\ KeysSign => faults < MaxFaults
    /\ faults' = faults + (IF ~AsPromised(s) /\ KeysSign THEN 1 ELSE 0)
    /\ sigs' = s
    /\ verdict' = Verdict(s, slow)
    /\ pc' = "judge"
    /\ seen' = [seen EXCEPT !.slow = slow]
    /\ UNCHANGED <<input, stage, round, signer, applied, stores, rec, counted,
                   tally>>

(***************************************************************************)
(* The fuzz targets.                                                       *)
(***************************************************************************)
Findings == {"INVALID-SIGNATURE", "STATE-CORRUPTION", "CRASH", "TIMEOUT"}

\* The switch at the end of both targets.
Outcome ==
    IF verdict \in Findings THEN "finding"
    ELSE IF verdict = "HARNESS-FAULT" THEN "fail_closed" ELSE "idle"

\* fuzzer.cpp: a case that changed nothing is dropped before its verdict.
JudgeGeneral ==
    /\ pc = "judge" /\ target = "general"
    /\ pc' = IF applied = 0 THEN "idle" ELSE Outcome
    /\ UNCHANGED <<input, stage, round, signer, applied, stores, rec, sigs,
                   verdict, counted, tally, faults, seen>>

\* Mutant: the process aborts before the case is counted.
JudgeReachability_AbortFirst(written) ==
    /\ pc = "judge" /\ target = "reachability"
    /\ IF verdict \in Findings \cup {"HARNESS-FAULT"} \/ ~written
       THEN pc' = Outcome /\ UNCHANGED counted
       ELSE /\ counted' = IF applied = 0 THEN "none" ELSE verdict
            /\ pc' = "idle"
    /\ UNCHANGED <<input, stage, round, signer, applied, stores, rec, sigs,
                   verdict, tally, faults, seen>>

\* fuzzer_reachability_v2.cpp: a harness fault first, then the counters, then
\* the same switch.
JudgeReachability(written) ==
    /\ pc = "judge" /\ target = "reachability"
    /\ IF verdict = "HARNESS-FAULT" \/ ~written
       THEN pc' = "fail_closed" /\ UNCHANGED counted
       ELSE /\ counted' = IF applied = 0 THEN "none" ELSE verdict
            /\ pc' = IF applied = 0 THEN "idle" ELSE Outcome
    /\ UNCHANGED <<input, stage, round, signer, applied, stores, rec, sigs,
                   verdict, tally, faults, seen>>

(***************************************************************************)
(* The batches.                                                            *)
(***************************************************************************)

\* What follows a case: the next one, behind a control where it is due, or
\* the last control.
AfterCase ==
    IF cases = MaxCases THEN "post"
    ELSE IF target = "smoke" /\ cases % ControlEvery = 0 THEN "mid"
    ELSE "cases"

\* Mutant: no control after the last case.
JudgeControl_NoPost ==
    /\ pc = "judge" /\ target \in Batch /\ Control
    /\ pc' = IF stage = "post" THEN "pass"
             ELSE IF verdict # "CLEAN-SIGN" THEN "fault" ELSE "idle"
    /\ stage' = "cases"
    /\ UNCHANGED <<input, round, signer, applied, stores, rec, sigs, verdict,
                   counted, tally, faults, seen>>

\* A control that is not clean ends the batch: exit 1 of the runner, exit 2
\* of the smoke test.  The clean last one lets it exit 0.
JudgeControl ==
    /\ pc = "judge" /\ target \in Batch /\ Control
    /\ pc' = IF verdict # "CLEAN-SIGN" THEN "fault"
             ELSE IF stage = "post" THEN "pass" ELSE "idle"
    /\ stage' = "cases"
    /\ UNCHANGED <<input, round, signer, applied, stores, rec, sigs, verdict,
                   counted, tally, faults, seen>>

\* The runner only tallies the verdict of a case.
JudgeRunnerCase ==
    /\ pc = "judge" /\ target = "runner" /\ ~Control
    /\ tally' = tally \cup {verdict}
    /\ pc' = "idle"
    /\ stage' = AfterCase
    /\ UNCHANGED <<input, round, signer, applied, stores, rec, sigs, verdict,
                   counted, faults, seen>>

\* The smoke test stops at a case that tested nothing (exit 2), at a finding
\* (3) and at an accepted mutation (4).
JudgeSmokeCase ==
    /\ pc = "judge" /\ target = "smoke" /\ ~Control
    /\ tally' = tally \cup {verdict}
    /\ pc' = IF applied = 0 \/ verdict = "HARNESS-FAULT" THEN "fault"
             ELSE IF verdict \in Findings THEN "finding"
             ELSE IF verdict = "CLEAN-SIGN" THEN "review" ELSE "idle"
    /\ stage' = AfterCase
    /\ UNCHANGED <<input, round, signer, applied, stores, rec, sigs, verdict,
                   counted, faults, seen>>

Next ==
    \/ \E a \in Signers, m \in Mutations, pr \in BOOLEAN : StartCase(a, m, pr)
    \/ \E m \in Mutations : StartBatchCase(m)
    \/ StartControl
    \/ \E written \in BOOLEAN : DoorReject(written)
    \/ \E result \in {"ok", "reject", "fatal"},
          fault \in {"none", "keys", "harm", "hidden", "survive"},
          p \in Ids, mutated \in BOOLEAN :
          Call(result, fault, p, mutated)
    \/ \E s \in Signatures, slow \in BOOLEAN : Oracles(s, slow)
    \/ JudgeGeneral
    \/ \E written \in BOOLEAN : JudgeReachability(written)
    \/ JudgeControl
    \/ JudgeRunnerCase
    \/ JudgeSmokeCase

Spec == Init /\ [][Next]_vars

-----------------------------------------------------------------------------
(***************************************************************************)
(* Properties                                                              *)
(***************************************************************************)

\* The type invariant of a process.
TypeOK ==
    /\ pc \in {"idle", "call", "oracles", "judge", "finding", "fail_closed",
               "pass", "fault", "review"}
    /\ target \in Targets /\ stage \in {"pre", "cases", "mid", "post"}
    /\ attacker \in Ids \cup {NoAttacker} /\ positiveR \in BOOLEAN
    /\ mutation \in [round : 1 .. 4, op : {"change", "extra"}]
                     \cup {NoMutation}
    /\ round \in 1 .. Rounds /\ signer \in Ids
    /\ applied \in 0 .. Cardinality(Honest)
    /\ {keys, keysAtStart} \subseteq [AllPlayers -> 0 .. MaxFaults]
    /\ harmed \subseteq AllPlayers /\ harmedAtStart \subseteq AllPlayers
    /\ rec \subseteq Signers /\ sigs \in Signatures
    /\ verdict \in Findings \cup
                   {"none", "CLEAN-SIGN", "CLEAN-REJECT", "HARNESS-FAULT"}
    /\ counted \in Findings \cup {"none", "CLEAN-SIGN", "CLEAN-REJECT"}
    /\ tally \subseteq Findings \cup {"CLEAN-SIGN", "CLEAN-REJECT"}
    /\ cases \in 0 .. MaxCases /\ faults \in 0 .. MaxFaults
    /\ seen \in [fatal : BOOLEAN, slow : BOOLEAN]

\* A library that keeps its contract, whatever it rejects, never makes a
\* target abort or the smoke test report a finding, unless the ceremony was
\* slow (driver.cpp:397-448).
NoFalseFinding == pc = "finding" => faults > 0 \/ seen.slow

\* After tampered messages a fuzzer or the smoke test goes on only if no call
\* threw outside the library's surface ("Anything else is not a clean
\* rejection and is escalated", driver.cpp:65) and, when there is a signature,
\* the observer's stores are as they should be and the signature is for the
\* requested message alone (driver.cpp:397-440, fuzzer.cpp:161-177,
\* oracles.cpp:52-148).
TamperedMeansChecked ==
    pc \in {"idle", "pass"} /\ target # "runner" /\ applied > 0 =>
        /\ ~seen.fatal
        /\ sigs # NoSigs => /\ keys[Observer] = keysAtStart[Observer]
                            /\ Observer \notin rec
                            /\ AsPromised(sigs)

\* The reachability target aborts exactly when its counters hold the finding
\* (fuzzer_reachability_v2.cpp:200-228).
AbortMatchesCounters ==
    target = "reachability" => (pc = "finding" <=> counted \in Findings)

\* A batch that exits 0 ran all of its cases, none of which left a signer's key
\* store unable to sign, although the stores are not compared where a case was
\* rejected: its last control shows that much and no more ("control regressed
\* after the batch; discard these results", main.cpp:136-141, smoke.cpp:187-189).
\* A change that does not disturb signing may pass on every store but the
\* observer's during that control (driver.cpp:400).  In the smoke test every case
\* was a tampered one that the library rejected (smoke.cpp:127-195).
BatchIsControlled ==
    pc = "pass" => /\ cases = MaxCases
                   /\ KeysSign
                   /\ keys[Observer] = keysAtStart[Observer]
                   /\ target = "smoke" => tally = {"CLEAN-REJECT"}
=============================================================================
