---------------------------- MODULE DualSession ----------------------------
(***************************************************************************)
(* The dual-session fuzzer: dual_session::run interleaves two signing      *)
(* ceremonies of one key over shared stores, byte by byte of a schedule;   *)
(* evaluate_dual_oracles judges the outcome; LLVMFuzzerTestOneInput counts *)
(* the case and aborts on a finding.                                       *)
(*                                                                         *)
(* The signing library is external: any call may succeed, throw its own    *)
(* exception or throw something else, and, within a budget of faults, it   *)
(* may do what the oracles look for.  A schedule is read one byte at a     *)
(* time, so every schedule of every length is among the behaviours.        *)
(***************************************************************************)
EXTENDS Naturals

CONSTANTS
    T,           \* threshold of the snapshot: the signers are 1 .. T
    MaxCases,    \* bound on the inputs that libFuzzer feeds
    MaxFaults    \* bound on the library's misbehaviours

ASSUME DualConstants == T \in Nat \ {0} /\ MaxCases \in Nat /\ MaxFaults \in Nat

Signers  == 1 .. T
Observer == 1
Rounds   == 5
MaxSteps == 32
Ceremonies == {0, 1}

\* A temporary record of a store: the round that wrote it, the fields that
\* the digest covers, and the byte strings of which it covers the length.
NoRecord == [round |-> 0, fields |-> 0, blob |-> 0]
Records  == [round : 0 .. 4, fields : 0 .. 2, blob : 0 .. 1]

VARIABLES
    pc,         \* where run() is: "loop", "call", "check" or "judge"; "idle"
                \* between inputs; or how the process stopped
    gate,       \* the startup control is still running
    cases,      \* inputs so far
    cer,        \* ceremony -> state and completed rounds
    rec,        \* signer -> ceremony -> record in the signing store
    keys,       \* the key stores, which outlive a run: changes so far
    keysBefore, \* their digest when the run started
    exhausted,  \* the schedule has no byte left
    turn, lastTurn, signer, before, moved,
    steps,      \* res.schedule.size(), which equals the loop's counter taken
    crossings,  \* interleave_points; crossed is crossings > 0
    advanced,   \* advanced_past_injection
    isolated,   \* observations.other_records_unchanged
    counted,    \* what record_case counted last
    faults,     \* library misbehaviours so far
    seen        \* observations of the behaviour that the code does not make

loop == <<turn, lastTurn, signer, before, moved, steps, crossings, advanced,
          isolated, exhausted>>
process == <<gate, cases, counted, keysBefore>>
vars == <<pc, process, cer, rec, keys, loop, faults, seen>>

finished(c) == cer[c].state \in {"completed", "rejected", "faulted"}

Digest(r) == [round |-> r.round, fields |-> r.fields]
record_fingerprint(c) == [p \in Signers |-> Digest(rec[p][c])]

NotCounted == [cell |-> "none", applied |-> FALSE, verdict |-> "none"]
NothingSeen == [overlap |-> FALSE, touched |-> FALSE, forged |-> FALSE]

\* Two fresh ceremonies over fresh signing stores.
NewCeremonies == [c \in Ceremonies |-> [state |-> "pending", round |-> 0]]
EmptyStores   == [p \in Signers |-> [c \in Ceremonies |-> NoRecord]]
NoFingerprint == [p \in Signers |-> Digest(NoRecord)]

\* LLVMFuzzerInitialize starts the control run.
Init ==
    /\ pc = "loop" /\ gate = TRUE /\ cases = 0
    /\ keys = 0 /\ keysBefore = 0
    /\ counted = NotCounted /\ faults = 0
    /\ cer = NewCeremonies /\ rec = EmptyStores
    /\ exhausted = FALSE
    /\ turn = 0 /\ lastTurn = 2 /\ signer = 1
    /\ before = NoFingerprint /\ moved = FALSE
    /\ steps = 0 /\ crossings = 0 /\ advanced = 0 /\ isolated = TRUE
    /\ seen = NothingSeen

(***************************************************************************)
(* dual_session::run                                                       *)
(***************************************************************************)

\* Mutant: an exhausted schedule leaves the rest undone.
Turn_Unfinished(bit) ==
    IF exhausted THEN 0 ELSE IF finished(bit) THEN 1 - bit ELSE bit

\* The ceremony that the byte grants the turn to: one that can use it.
Turn(bit) ==
    IF exhausted THEN (IF finished(0) THEN 1 ELSE 0)
    ELSE IF finished(bit) THEN 1 - bit ELSE bit

\* The head of the loop.  The control schedule alternates and is longer than
\* any run; an input's bytes are arbitrary and may run out after the first.
TakeTurn(bit, last) ==
    LET t == Turn(bit)
    IN /\ pc = "loop"
       /\ ~(finished(0) /\ finished(1)) /\ steps < MaxSteps
       /\ gate => bit = steps % 2 /\ ~last
       /\ exhausted => last
       /\ exhausted' = last
       /\ IF finished(t)
          THEN pc' = "judge" /\ UNCHANGED <<turn, lastTurn, crossings, before,
                                            signer, steps, seen>>
          ELSE /\ pc' = "call"
               /\ turn' = t /\ lastTurn' = t /\ signer' = 1
               /\ crossings' = crossings +
                     (IF lastTurn \notin {2, t} THEN 1 ELSE 0)
               /\ before' = record_fingerprint(1 - t)
               /\ steps' = steps + 1
               /\ seen' = [seen EXCEPT
                     !.overlap = @ \/ cer[1 - t].state = "running"]
       /\ UNCHANGED <<process, cer, rec, keys, moved, advanced, isolated,
                      faults>>

EndLoop ==
    /\ pc = "loop"
    /\ (finished(0) /\ finished(1)) \/ steps = MaxSteps
    /\ pc' = "judge"
    /\ UNCHANGED <<process, cer, rec, keys, loop, faults, seen>>

(***************************************************************************)
(* One call of the library at one signer.                                  *)
(***************************************************************************)
Kinds == {"none", "fields", "blob", "delete", "survive", "keys"}

\* The record of the other ceremony after the call: as it was, unless the
\* library reads or writes the wrong txid.
OtherRecord(r, fault) ==
    IF fault = "fields" THEN [r EXCEPT !.fields = 2]
    ELSE IF fault = "blob" THEN [r EXCEPT !.blob = 1]
    ELSE IF fault = "delete" THEN NoRecord ELSE r

\* Its own record: written in the rounds 1 to 4, deleted in the last one.
OwnRecord(r, n, result, fault) ==
    IF result # "ok" \/ fault = "survive" THEN r
    ELSE IF n = Rounds THEN NoRecord
    ELSE [round |-> n, fields |-> 1, blob |-> 0]

\* det_signing_persistency: store refuses a txid that it holds, load and
\* update refuse one that it does not.
StoreAllows(n) == n = 1 <=> rec[signer][turn] = NoRecord

library_call(result, fault) ==
    LET c == turn
        o == 1 - turn
        n == cer[turn].round + 1
        r == OtherRecord(rec[signer][o], fault)
    IN /\ result = "ok" => StoreAllows(n)
       /\ fault # "none" => faults < MaxFaults
       /\ fault \in {"fields", "blob", "delete"} => r # rec[signer][o]
       /\ fault = "blob" => rec[signer][o] # NoRecord
       /\ fault = "survive" => n = Rounds /\ result = "ok"
       /\ faults' = faults + (IF fault = "none" THEN 0 ELSE 1)
       /\ rec' = [rec EXCEPT ![signer][c] = OwnRecord(@, n, result, fault),
                             ![signer][o] = r]
       /\ keys' = keys + (IF fault = "keys" THEN 1 ELSE 0)
       /\ seen' = [seen EXCEPT
             !.touched = @ \/ fault \in {"fields", "delete"}]

\* The ceremony after a call of round n, its last one if over.
AfterCall(result, n, over) ==
    [state |-> IF result = "reject" THEN "rejected"
               ELSE IF result = "fatal" THEN "faulted"
               ELSE IF over /\ n = Rounds THEN "completed" ELSE "running",
     round |-> IF result = "ok" /\ over THEN n ELSE n - 1]

\* Mutant: the last signer is not the end of a round.
step_OneTooMany(result, fault) ==
    LET n == cer[turn].round + 1
        over == signer > T \/ n = Rounds
    IN /\ pc = "call"
       /\ library_call(result, fault)
       /\ cer' = [cer EXCEPT ![turn] = AfterCall(result, n, over)]
       /\ IF result = "ok" /\ ~over
          THEN signer' = signer + 1 /\ UNCHANGED <<pc, moved>>
          ELSE pc' = "check" /\ moved' = (result = "ok") /\ UNCHANGED signer
       /\ UNCHANGED <<process, turn, lastTurn, before, steps, crossings,
                      advanced, isolated, exhausted>>

\* ceremony::step, one signer's call of it: rounds 1 to 4 call every signer,
\* round 5 the observer alone; the first throw ends the ceremony.
step(result, fault) ==
    LET n == cer[turn].round + 1
        over == signer = T \/ n = Rounds
    IN /\ pc = "call"
       /\ library_call(result, fault)
       /\ cer' = [cer EXCEPT ![turn] = AfterCall(result, n, over)]
       /\ IF result = "ok" /\ ~over
          THEN signer' = signer + 1 /\ UNCHANGED <<pc, moved>>
          ELSE pc' = "check" /\ moved' = (result = "ok") /\ UNCHANGED signer
       /\ UNCHANGED <<process, turn, lastTurn, before, steps, crossings,
                      advanced, isolated, exhausted>>

\* Mutant: the flag says what the last step did.
AfterStep_Forgets ==
    /\ pc = "check"
    /\ isolated' = (record_fingerprint(1 - turn) = before)
    /\ advanced' = advanced + (IF moved /\ crossings > 0 THEN 1 ELSE 0)
    /\ pc' = "loop"
    /\ signer' = 1 /\ before' = NoFingerprint /\ moved' = FALSE
    /\ UNCHANGED <<process, cer, rec, keys, turn, lastTurn, steps, crossings,
                   exhausted, faults, seen>>

\* The rest of the loop body: the other record must be as it was.  The
\* variables of the body end with it.
AfterStep ==
    /\ pc = "check"
    /\ isolated' = (isolated /\ record_fingerprint(1 - turn) = before)
    /\ advanced' = advanced + (IF moved /\ crossings > 0 THEN 1 ELSE 0)
    /\ pc' = "loop"
    /\ signer' = 1 /\ before' = NoFingerprint /\ moved' = FALSE
    /\ UNCHANGED <<process, cer, rec, keys, turn, lastTurn, steps, crossings,
                   exhausted, faults, seen>>

(***************************************************************************)
(* The oracles.                                                            *)
(***************************************************************************)
both_completed == \A c \in Ceremonies : cer[c].state = "completed"

\* Mutant: every signer's store must be empty.
RollbackClean_AllSigners ==
    \A c \in Ceremonies, p \in Signers :
        cer[c].state = "completed" => rec[p][c] = NoRecord

\* A completed ceremony leaves no record at the observer.
RollbackClean ==
    \A c \in Ceremonies :
        cer[c].state = "completed" => rec[Observer][c] = NoRecord

\* The signatures of a run: which ceremonies have one, whose messages each
\* of them verifies for, and whether their r is the same.
Signatures ==
    {s \in [produced : SUBSET Ceremonies,
            verifies : [Ceremonies -> SUBSET Ceremonies], same_r : BOOLEAN] :
        /\ \A c \in Ceremonies \ s.produced : s.verifies[c] = {}
        /\ s.same_r => s.produced = Ceremonies}

\* The observations of run() after the loop.
Observation(s) ==
    LET observed == both_completed /\ s.produced = Ceremonies
    IN [both_completed |-> both_completed,
        signatures_observed |-> observed,
        valid |-> observed /\ \A c \in Ceremonies : c \in s.verifies[c],
        crossed |-> observed /\ \E c \in Ceremonies : 1 - c \in s.verifies[c],
        nonce_equal |-> observed /\ s.same_r,
        other_records_unchanged |-> isolated,
        rollback_clean |-> RollbackClean,
        key_stores_unchanged |-> keys = keysBefore,
        harness_fault |-> \E c \in Ceremonies : cer[c].state = "faulted"]

evaluate_dual_oracles(o) ==
    [signatures_valid |-> o.signatures_observed /\ o.valid,
     cross_session_verification |-> o.signatures_observed /\ o.crossed,
     nonce_reuse |-> o.signatures_observed /\ o.nonce_equal,
     state_isolation |-> o.other_records_unchanged,
     rollback_clean |-> o.rollback_clean,
     key_store_unchanged |-> o.key_stores_unchanged,
     harness_fault |-> \/ o.harness_fault
                       \/ o.both_completed /\ ~o.signatures_observed]

Verdict(s) == evaluate_dual_oracles(Observation(s))

any_finding(v) ==
    \/ v.cross_session_verification \/ v.nonce_reuse
    \/ ~v.state_isolation \/ ~v.rollback_clean \/ ~v.key_store_unchanged
    \/ both_completed /\ ~v.signatures_valid

(***************************************************************************)
(* The fuzz target.                                                        *)
(***************************************************************************)

\* Mutant: one crossing in four steps is enough.
schedule_cell_Coarse ==
    IF crossings = 0 THEN "sequential"
    ELSE IF crossings * 4 >= steps THEN "alternating" ELSE "blocked"

schedule_cell ==
    IF crossings = 0 THEN "sequential"
    ELSE IF crossings * 2 >= steps THEN "alternating" ELSE "blocked"

applied == advanced > 0

\* Mutant: a changed key store is not counted.
CaseVerdict_NoKeys(v) ==
    IF ~applied THEN "none"
    ELSE IF v.cross_session_verification THEN "INVALID-SIGNATURE"
    ELSE IF v.nonce_reuse \/ ~v.state_isolation \/ ~v.rollback_clean
         THEN "STATE-CORRUPTION"
    ELSE IF both_completed
         THEN IF v.signatures_valid THEN "CLEAN-SIGN" ELSE "INVALID-SIGNATURE"
    ELSE "CLEAN-REJECT"

\* The verdict that a case is counted under, "none" if it did not apply.
CaseVerdict(v) ==
    IF ~applied THEN "none"
    ELSE IF v.cross_session_verification THEN "INVALID-SIGNATURE"
    ELSE IF v.nonce_reuse \/ ~v.state_isolation \/ ~v.rollback_clean
               \/ ~v.key_store_unchanged THEN "STATE-CORRUPTION"
    ELSE IF both_completed
         THEN IF v.signatures_valid THEN "CLEAN-SIGN" ELSE "INVALID-SIGNATURE"
    ELSE "CLEAN-REJECT"

\* What the library promises of the signatures of completed ceremonies.
AsPromised(s) == /\ \A c \in Ceremonies : s.verifies[c] = {c}
                 /\ ~s.same_r

\* A ceremony that completed may have a signature, the others have none.  A
\* broken promise counts as a fault, unless the keys were changed before.
SignaturesSeen(s) ==
    LET broken == both_completed /\ ~AsPromised(s)
        charged == broken /\ keys = 0
    IN /\ \A c \in s.produced : cer[c].state = "completed"
       /\ charged => faults < MaxFaults
       /\ faults' = faults + (IF charged THEN 1 ELSE 0)
       /\ seen' = [seen EXCEPT !.forged = broken]

\* The startup gate: the control must complete, verify and find nothing.
JudgeControl(sigs) ==
    LET v == Verdict(sigs)
    IN /\ pc = "judge" /\ gate
       /\ SignaturesSeen(sigs)
       /\ pc' = IF both_completed /\ v.signatures_valid /\ ~v.harness_fault
                      /\ ~any_finding(v)
                THEN "idle" ELSE "fail_closed"
       /\ gate' = FALSE
       /\ UNCHANGED <<cases, counted, keysBefore, cer, rec, keys, loop>>

\* TestOneInput after the run: count the case, then abort on a finding.  A
\* failure to write the counters (written = FALSE) is fail_closed too.
JudgeCase(sigs, written) ==
    LET v == Verdict(sigs)
    IN /\ pc = "judge" /\ ~gate
       /\ SignaturesSeen(sigs)
       /\ IF v.harness_fault \/ ~written
          THEN pc' = "fail_closed" /\ UNCHANGED counted
          ELSE /\ counted' = [cell |-> schedule_cell, applied |-> applied,
                              verdict |-> CaseVerdict(v)]
               /\ pc' = IF applied /\ any_finding(v) THEN "finding"
                        ELSE "idle"
       /\ UNCHANGED <<gate, cases, keysBefore, cer, rec, keys, loop>>

\* An input of a byte or more starts a run.
StartCase ==
    /\ pc = "idle" /\ cases < MaxCases
    /\ pc' = "loop"
    /\ cases' = cases + 1
    /\ keysBefore' = keys
    /\ counted' = NotCounted
    /\ cer' = NewCeremonies /\ rec' = EmptyStores
    /\ exhausted' = FALSE
    /\ turn' = 0 /\ lastTurn' = 2 /\ signer' = 1
    /\ before' = NoFingerprint /\ moved' = FALSE
    /\ steps' = 0 /\ crossings' = 0 /\ advanced' = 0 /\ isolated' = TRUE
    /\ seen' = NothingSeen
    /\ UNCHANGED <<gate, keys, faults>>

\* An empty or oversized input is counted and dropped.
DoorReject(written) ==
    /\ pc = "idle" /\ cases < MaxCases
    /\ cases' = cases + 1
    /\ counted' = NotCounted
    /\ pc' = IF written THEN "idle" ELSE "fail_closed"
    /\ UNCHANGED <<gate, keysBefore, cer, rec, keys, loop, faults, seen>>

Next ==
    \/ \E bit \in {0, 1}, last \in BOOLEAN : TakeTurn(bit, last)
    \/ EndLoop
    \/ \E result \in {"ok", "reject", "fatal"}, fault \in Kinds :
          step(result, fault)
    \/ AfterStep
    \/ \E sigs \in Signatures : JudgeControl(sigs)
    \/ \E sigs \in Signatures, written \in BOOLEAN : JudgeCase(sigs, written)
    \/ StartCase
    \/ \E written \in BOOLEAN : DoorReject(written)

Spec == Init /\ [][Next]_vars

-----------------------------------------------------------------------------
(***************************************************************************)
(* Properties                                                              *)
(***************************************************************************)
Findings == {"INVALID-SIGNATURE", "STATE-CORRUPTION"}
Verdicts == Findings \cup {"none", "CLEAN-SIGN", "CLEAN-REJECT"}
CeremonyStates == {"pending", "running", "completed", "rejected", "faulted"}
Digests == [round : 0 .. 4, fields : 0 .. 2]

\* The type invariant of a fuzzing process.
TypeOK ==
    /\ pc \in {"loop", "call", "check", "judge", "idle", "finding",
               "fail_closed"}
    /\ gate \in BOOLEAN
    /\ cases \in 0 .. MaxCases
    /\ cer \in [Ceremonies -> [state : CeremonyStates, round : 0 .. Rounds]]
    /\ rec \in [Signers -> [Ceremonies -> Records]]
    /\ keys \in Nat /\ keysBefore \in Nat
    /\ exhausted \in BOOLEAN
    /\ turn \in Ceremonies /\ lastTurn \in Ceremonies \cup {2}
    /\ signer \in Signers
    /\ before \in [Signers -> Digests]
    /\ moved \in BOOLEAN
    /\ steps \in Nat /\ crossings \in Nat /\ advanced \in Nat
    /\ isolated \in BOOLEAN
    /\ counted \in [cell : {"none", "sequential", "alternating", "blocked"},
                    applied : BOOLEAN, verdict : Verdicts]
    /\ faults \in Nat
    /\ seen \in [overlap : BOOLEAN, touched : BOOLEAN, forged : BOOLEAN]

\* Whatever the schedule and wherever it ends, both ceremonies run to their
\* own end, within ten turns: neither an exhausted schedule nor the limit
\* max_steps invents a rejection (dual_session.cpp:359-379).
RunCompletes ==
    pc = "judge" =>
        /\ finished(0) /\ finished(1)
        /\ steps <= 2 * Rounds
        /\ \A c \in Ceremonies :
              cer[c].state = "completed" <=> cer[c].round = Rounds

\* The isolation oracle fires exactly when some step changed the other
\* ceremony's record, in whatever round and however the run went on, except
\* in the byte strings of which the digest takes the size only; and a counted
\* case shows it, as it shows a signature that does not verify for its own
\* message, that verifies for the other's, or that repeats the other's r
\* (dual_session.cpp:387-398,415-444, fuzzer_dual_session.cpp:170-180).
TamperingIsCaught ==
    /\ pc = "judge" => (isolated <=> ~seen.touched)
    /\ counted.applied /\ (seen.touched \/ seen.forged) =>
           counted.verdict \in Findings

\* A library that does nothing wrong, rejections included, never makes the
\* oracles report a finding (dual_session.cpp:446-463).
NoFalseFinding ==
    pc = "judge" /\ faults = 0 =>
        \A s \in Signatures :
            (both_completed => AsPromised(s)) => ~any_finding(Verdict(s))

\* The process aborts exactly when the counters of its last case hold a
\* finding (fuzzer_dual_session.cpp:170-195).
AbortMatchesCounters == pc = "finding" <=> counted.verdict \in Findings

\* A case counted as an applied "alternating" schedule, or with more than one
\* crossing, really had both ceremonies under way at once; a crossing from an
\* ended ceremony to the other one can only be the single one of a "blocked"
\* schedule (dual_session.cpp:400-403, fuzzer_dual_session.cpp:63-72).
AlternatingIsInterleaved ==
    /\ counted.applied /\ counted.cell = "alternating" => seen.overlap
    /\ pc = "judge" /\ crossings > 1 => seen.overlap
=============================================================================
