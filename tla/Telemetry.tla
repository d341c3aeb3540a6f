----------------------------- MODULE Telemetry -----------------------------
(***************************************************************************)
(* The counters of a shard.  Every fuzzing process claims a job index in a *)
(* shared directory, keeps counters in memory and, after each case,        *)
(* rewrites its own document by a temporary file and a rename              *)
(* (telemetry_v2.cpp).  When the campaign is over, telemetry_evidence.py   *)
(* reads the directory and accepts all of it or none.                      *)
(*                                                                         *)
(* Processes come in generations: under -fork libFuzzer keeps Parallelism  *)
(* children alive and replaces those that exit.  A process may be killed   *)
(* between any two steps.                                                  *)
(***************************************************************************)
EXTENDS Naturals, FiniteSets, FiniteSetsExt

CONSTANTS
    Procs,        \* fuzzing processes of the campaign, over all generations
    Parallelism,  \* -fork=N, and FIREBLOCKS_FORK_COUNT
    MaxIndex,     \* MAX_JOB_DOCUMENTS - 1
    MaxJobs,      \* MAX_JOBS of the sanitiser
    Cells,        \* the closed set of cells
    MaxExecs      \* bound on the cases of one process

ASSUME TelemetryConstants ==
    /\ {Parallelism, MaxIndex, MaxJobs, MaxExecs} \subseteq Nat
    /\ IsFiniteSet(Procs) /\ IsFiniteSet(Cells)

Indices == 0 .. MaxIndex

VARIABLES
    pc,        \* process -> where it is
    job,       \* process -> index it tries, then the one it claimed
    mem,       \* process -> counters in memory
    acked,     \* process -> cases whose record_* call returned true
    claims,    \* claim files in the control directory
    docs,      \* index -> published document
    tmps,      \* indices with a temporary file
    evidence   \* result of the sanitiser

vars == <<pc, job, mem, acked, claims, docs, tmps, evidence>>
disk == <<claims, docs, tmps>>

NoDoc == [execs |-> 0]
NoEvidence == [st |-> "pending", jobs |-> {}, execs |-> 0]
Zero == [execs |-> 0, door_rejects |-> 0, decoded |-> 0,
         selected |-> [c \in Cells |-> 0], applied |-> [c \in Cells |-> 0],
         not_applied |-> [c \in Cells |-> 0], verdicts |-> 0]

Init ==
    /\ pc = [p \in Procs |-> "unborn"]
    /\ job = [p \in Procs |-> 0]
    /\ mem = [p \in Procs |-> Zero]
    /\ acked = [p \in Procs |-> 0]
    /\ claims = {} /\ tmps = {}
    /\ docs = [i \in Indices |-> NoDoc]
    /\ evidence = NoEvidence

Gone(p) == pc[p] \in {"exited", "failed", "killed"}
Alive(p) == ~Gone(p) /\ pc[p] # "unborn"

\* The supervisor starts a process that configures its telemetry; a process
\* that did not exit by itself ends the campaign.
configure(p) ==
    /\ evidence.st = "pending" /\ pc[p] = "unborn"
    /\ Cardinality({q \in Procs : Alive(q)}) < Parallelism
    /\ \A q \in Procs : pc[q] \notin {"failed", "killed"}
    /\ pc' = [pc EXCEPT ![p] = "configured"]
    /\ UNCHANGED <<job, mem, acked, disk, evidence>>

Claiming(p) == pc[p] \in {"configured", "claiming"}

\* Mutant: open without O_EXCL.
claim_job_Shared(p) ==
    /\ Claiming(p)
    /\ claims' = claims \cup {job[p]}
    /\ pc' = [pc EXCEPT ![p] = "ready"]
    /\ UNCHANGED <<job, mem, acked, docs, tmps, evidence>>

\* Mutant: the claim is unlinked once it is written.
claim_job_Released(p) ==
    /\ Claiming(p) /\ job[p] \notin claims
    /\ pc' = [pc EXCEPT ![p] = "ready"]
    /\ UNCHANGED <<job, mem, acked, disk, evidence>>

\* The first case claims an index.  One turn of the loop of claim_job: create
\* the claim of the next index, or go on to the one after it; without an
\* index left the case fails.
claim_job(p) ==
    /\ Claiming(p)
    /\ IF job[p] \notin claims
       THEN /\ claims' = claims \cup {job[p]}
            /\ pc' = [pc EXCEPT ![p] = "ready"]
            /\ UNCHANGED job
       ELSE /\ job' = [job EXCEPT ![p] = IF @ + 1 \in Indices THEN @ + 1 ELSE @]
            /\ pc' = [pc EXCEPT ![p] =
                        IF job[p] + 1 \in Indices THEN "claiming"
                        ELSE "failed"]
            /\ UNCHANGED claims
    /\ UNCHANGED <<mem, acked, docs, tmps, evidence>>

\* The claim is created but its owner cannot be written.
ClaimFails(p) ==
    /\ Claiming(p) /\ job[p] \notin claims
    /\ claims' = claims \cup {job[p]}
    /\ pc' = [pc EXCEPT ![p] = "failed"]
    /\ UNCHANGED <<job, mem, acked, docs, tmps, evidence>>

Bump(f, c) == [f EXCEPT ![c] = @ + 1]

\* record_door_reject.
CountDoorReject(m) ==
    [m EXCEPT !.execs = @ + 1, !.door_rejects = @ + 1]

\* Mutant: the early return of a case that was not applied.
CountCase_NotApplied(m, c, was_applied) ==
    [m EXCEPT !.execs = @ + 1, !.decoded = @ + 1,
              !.selected = Bump(@, c),
              !.applied = IF was_applied THEN Bump(@, c) ELSE @,
              !.verdicts = IF was_applied THEN @ + 1 ELSE @]

\* record_case: one cell per decoded case, a verdict if it was applied.
CountCase(m, c, was_applied) ==
    [m EXCEPT !.execs = @ + 1, !.decoded = @ + 1,
              !.selected = Bump(@, c),
              !.applied = IF was_applied THEN Bump(@, c) ELSE @,
              !.not_applied = IF was_applied THEN @ ELSE Bump(@, c),
              !.verdicts = IF was_applied THEN @ + 1 ELSE @]

Record(p, m) ==
    /\ pc[p] = "ready" /\ mem[p].execs < MaxExecs
    /\ mem' = [mem EXCEPT ![p] = m]
    /\ pc' = [pc EXCEPT ![p] = "publishing"]
    /\ UNCHANGED <<job, acked, disk, evidence>>

record_door_reject(p) == Record(p, CountDoorReject(mem[p]))
record_case(p) ==
    \E c \in Cells, was_applied \in BOOLEAN :
        Record(p, CountCase(mem[p], c, was_applied))

\* The target exits: the atexit handler publishes once more what was counted.
Exit(p) ==
    /\ \/ pc[p] = "configured"
       \/ pc[p] = "ready" /\ mem[p].execs > 0
    /\ pc' = [pc EXCEPT ![p] = IF @ = "ready" THEN "leaving" ELSE "exited"]
    /\ UNCHANGED <<job, mem, acked, disk, evidence>>

\* atomic_publish: create and write the temporary file ...
OpenTmp(p) ==
    /\ pc[p] \in {"publishing", "leaving"}
    /\ job[p] \notin tmps
    /\ tmps' = tmps \cup {job[p]}
    /\ pc' = [pc EXCEPT ![p] = IF @ = "leaving" THEN "left" ELSE "written"]
    /\ UNCHANGED <<job, mem, acked, claims, docs, evidence>>

\* Mutant: the call returns before the rename.
Rename_AckFirst(p) ==
    /\ pc[p] \in {"written", "left"}
    /\ tmps' = tmps \ {job[p]}
    /\ \/ UNCHANGED docs
       \/ docs' = [docs EXCEPT ![job[p]] = mem[p]]
    /\ pc' = [pc EXCEPT ![p] = IF @ = "left" THEN "exited" ELSE "ready"]
    /\ acked' = [acked EXCEPT ![p] = mem[p].execs]
    /\ UNCHANGED <<job, mem, claims, evidence>>

\* ... rename it over the document, sync the directory and return true.
Rename(p) ==
    /\ pc[p] \in {"written", "left"}
    /\ tmps' = tmps \ {job[p]}
    /\ docs' = [docs EXCEPT ![job[p]] = mem[p]]
    /\ pc' = [pc EXCEPT ![p] = IF @ = "left" THEN "exited" ELSE "ready"]
    /\ acked' = [acked EXCEPT ![p] = mem[p].execs]
    /\ UNCHANGED <<job, mem, claims, evidence>>

\* A system call fails: the temporary file is removed, or the document is
\* already in place and only the sync failed; the target fails closed.
PublishFails(p) ==
    /\ pc[p] \in {"publishing", "leaving", "written", "left"}
    /\ tmps' = IF pc[p] \in {"written", "left"} THEN tmps \ {job[p]} ELSE tmps
    /\ \/ UNCHANGED docs
       \/ /\ pc[p] \in {"written", "left"}
          /\ docs' = [docs EXCEPT ![job[p]] = mem[p]]
    /\ pc' = [pc EXCEPT ![p] = "failed"]
    /\ UNCHANGED <<job, mem, acked, claims, evidence>>

\* A finding's abort, the memory limit, libFuzzer's timeout, or the watchdog.
Kill(p) ==
    /\ Alive(p)
    /\ pc' = [pc EXCEPT ![p] = "killed"]
    /\ UNCHANGED <<job, mem, acked, disk, evidence>>

(***************************************************************************)
(* telemetry_evidence.py                                                   *)
(***************************************************************************)
Published == {i \in Indices : docs[i] # NoDoc}

Sum(f, S) == MapThenSumSet(LAMBDA x : f[x], S)
Total(f) == Sum(f, Cells)

\* parse_document: the equations close.
Closes(d) ==
    /\ d.door_rejects + d.decoded = d.execs
    /\ Total(d.selected) = d.decoded
    /\ \A c \in Cells : d.applied[c] + d.not_applied[c] = d.selected[c]
    /\ d.verdicts = Total(d.applied)

\* Mutant: the documents beyond the limit are dropped, not refused.
Readable_FirstJobs == IF tmps = {} THEN {i \in Published : i < MaxJobs} ELSE {}

\* read_directory: nothing but documents, not none and not too many, with
\* indices from zero on; the empty set when it refuses.
Readable ==
    IF /\ tmps = {}
       /\ Cardinality(Published) <= MaxJobs
       /\ Published = {i \in Indices : i < Cardinality(Published)}
    THEN Published ELSE {}

TotalExecs(jobs) == Sum([i \in jobs |-> docs[i].execs], jobs)

\* sanitize, after the campaign: the totals, or a refusal.
sanitize ==
    /\ evidence.st = "pending"
    /\ \A p \in Procs : ~Alive(p)
    /\ evidence' =
          IF Readable # {} /\ \A i \in Readable : Closes(docs[i])
          THEN [st |-> "accepted", jobs |-> Readable,
                execs |-> TotalExecs(Readable)]
          ELSE [NoEvidence EXCEPT !.st = "refused"]
    /\ UNCHANGED <<pc, job, mem, acked, disk>>

Step(p) ==
    \/ configure(p) \/ claim_job(p) \/ ClaimFails(p)
    \/ record_door_reject(p) \/ record_case(p) \/ Exit(p)
    \/ OpenTmp(p) \/ Rename(p) \/ PublishFails(p)
    \/ Kill(p)

Next == sanitize \/ \E p \in Procs : Step(p)

Spec == Init /\ [][Next]_vars

-----------------------------------------------------------------------------
(***************************************************************************)
(* Properties                                                              *)
(***************************************************************************)
Counters ==
    [execs : Nat, door_rejects : Nat, decoded : Nat,
     selected : [Cells -> Nat], applied : [Cells -> Nat],
     not_applied : [Cells -> Nat], verdicts : Nat]

\* The type invariant of the processes and of the directory.
TypeOK ==
    /\ pc \in [Procs -> {"unborn", "configured", "claiming", "ready",
                         "publishing",
                         "leaving", "written", "left", "exited",
                         "failed", "killed"}]
    /\ job \in [Procs -> Indices]
    /\ mem \in [Procs -> Counters]
    /\ acked \in [Procs -> Nat]
    /\ claims \subseteq Indices /\ tmps \subseteq claims
    /\ docs \in [Indices -> Counters \cup {NoDoc}]
    /\ evidence \in [st : {"pending", "refused", "accepted"},
                     jobs : SUBSET Indices, execs : Nat]

Claimed(p) == pc[p] = "ready" \/ mem[p].execs > 0

\* No two processes write the same document, whatever the order of their
\* claims (telemetry_v2.cpp:111-139).
ClaimsAreExclusive ==
    \A p, q \in Procs : p # q /\ Claimed(p) /\ Claimed(q) => job[p] # job[q]

\* A document is whole at every moment, even if its writer dies: the
\* equations of the validator close (telemetry_v2.cpp:168-198,245-266).
DocumentsClose == \A i \in Published : Closes(docs[i])

\* A case that was acknowledged to the target is on disk, and a document
\* holds at most one case more (telemetry_v2.cpp:233-300).
AcknowledgedIsDurable ==
    \A p \in Procs : acked[p] > 0 =>
        /\ docs[job[p]] # NoDoc
        /\ docs[job[p]].execs \in {acked[p], acked[p] + 1}

\* Evidence that is accepted covers every acknowledged case of every process
\* of every generation (telemetry_evidence.py:208-272).
EvidenceIsComplete ==
    evidence.st = "accepted" =>
        evidence.execs >= Sum(acked, Procs)
=============================================================================
