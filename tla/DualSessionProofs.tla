------------------------- MODULE DualSessionProofs -------------------------
(***************************************************************************)
(* For every threshold, number of inputs and behaviour of the library: the *)
(* loop of dual_session::run ends with both ceremonies at their own end,   *)
(* and its oracles and counters report what the library did, no less and   *)
(* no more.                                                                *)
(*                                                                         *)
(* The first argument counts turns.  A turn either completes a round of    *)
(* its ceremony or ends the ceremony by a throw, so the turns taken are    *)
(* the completed rounds plus the throws, at most ten, and max_steps = 32   *)
(* is never what stops the loop.  The second one relates the flag of the   *)
(* isolation oracle, signer by signer, to what a call touched, and the     *)
(* count of crossings to who is under way.                                 *)
(***************************************************************************)
EXTENDS DualSession, TLAPS

Threw(c) == cer[c].state \in {"rejected", "faulted"}
Cost(c)  == cer[c].round + (IF Threw(c) THEN 1 ELSE 0)

Typed ==
    /\ cer \in [Ceremonies -> [state : CeremonyStates, round : 0 .. Rounds]]
    /\ turn \in Ceremonies
    /\ steps \in Nat

CompletedIsLastRound ==
    \A c \in Ceremonies : cer[c].state = "completed" <=> cer[c].round = Rounds

TurnsAreCounted ==
    /\ pc \in {"loop", "check", "judge"} => steps = Cost(0) + Cost(1)
    /\ pc = "call" => steps = Cost(0) + Cost(1) + 1 /\ ~finished(turn)

DualInv ==
    /\ Typed
    /\ CompletedIsLastRound
    /\ TurnsAreCounted
    /\ pc = "judge" => finished(0) /\ finished(1)

\* A ceremony costs at most five turns (dual_session.cpp:113-126).
LEMMA CostBound ==
    ASSUME Typed, CompletedIsLastRound, NEW c \in Ceremonies
    PROVE  Cost(c) \in 0 .. Rounds
<1>1. cer[c] \in [state : CeremonyStates, round : 0 .. Rounds]
  BY DEF Typed
<1>2. CASE Threw(c)
  <2>1. cer[c].round # Rounds
    BY <1>2 DEF CompletedIsLastRound, Threw
  <2> QED
    BY <1>1, <1>2, <2>1 DEF Cost, Rounds
<1>3. CASE ~Threw(c)
  BY <1>1, <1>3 DEF Cost, Rounds
<1> QED
  BY <1>2, <1>3

\* The turn goes to a ceremony that can use it (dual_session.cpp:359-371).
LEMMA TurnIsUsable ==
    ASSUME NEW bit \in {0, 1}, ~(finished(0) /\ finished(1))
    PROVE  Turn(bit) \in Ceremonies /\ ~finished(Turn(bit))
<1>1. CASE exhausted
  BY <1>1 DEF Turn, Ceremonies
<1>2. CASE ~exhausted /\ bit = 0
  BY <1>2 DEF Turn, Ceremonies
<1>3. CASE ~exhausted /\ bit = 1
  BY <1>3 DEF Turn, Ceremonies
<1> QED
  BY <1>1, <1>2, <1>3

LEMMA InitDual == Init => DualInv
  BY DEF Init, DualInv, Typed, CompletedIsLastRound, TurnsAreCounted, Cost,
         Threw, finished, NewCeremonies, Ceremonies, CeremonyStates, Rounds

LEMMA NextDual ==
    ASSUME DualInv, [Next]_vars
    PROVE  DualInv'
<1> USE DEF DualInv
<1>1. ASSUME NEW bit \in {0, 1}, NEW last \in BOOLEAN, TakeTurn(bit, last)
      PROVE  DualInv'
  <2>1. /\ pc = "loop" /\ ~(finished(0) /\ finished(1))
        /\ cer' = cer
    BY <1>1 DEF TakeTurn
  <2>2. ~finished(Turn(bit)) /\ Turn(bit) \in Ceremonies
    BY <2>1, TurnIsUsable
  <2>3. pc' = "call" /\ turn' = Turn(bit) /\ steps' = steps + 1
    BY <1>1, <2>2 DEF TakeTurn
  <2>4. Typed'
    BY <2>1, <2>2, <2>3 DEF Typed
  <2>5. CompletedIsLastRound'
    BY <2>1 DEF CompletedIsLastRound
  <2>6. TurnsAreCounted'
    BY <2>1, <2>2, <2>3 DEF TurnsAreCounted, Cost, Threw, finished
  <2> QED
    BY <2>3, <2>4, <2>5, <2>6
<1>2. ASSUME EndLoop
      PROVE  DualInv'
  <2>1. /\ pc = "loop" /\ pc' = "judge" /\ UNCHANGED <<cer, turn, steps>>
        /\ (finished(0) /\ finished(1)) \/ steps = MaxSteps
    BY <1>2 DEF EndLoop, loop
  <2>2. steps # MaxSteps
    <3>1. Cost(0) \in 0 .. Rounds /\ Cost(1) \in 0 .. Rounds
      BY CostBound DEF Ceremonies
    <3>2. steps = Cost(0) + Cost(1)
      BY <2>1 DEF TurnsAreCounted
    <3> QED
      BY <3>1, <3>2 DEF Rounds, MaxSteps
  <2> QED
    BY <2>1, <2>2
    DEF Typed, CompletedIsLastRound, TurnsAreCounted, Cost, Threw, finished
<1>3. ASSUME NEW result \in {"ok", "reject", "fatal"}, NEW fault \in Kinds,
             step(result, fault)
      PROVE  DualInv'
  <2> DEFINE n == cer[turn].round + 1
             over == signer = T \/ n = Rounds
             other == 1 - turn
  <2>1. /\ pc = "call" /\ steps' = steps /\ turn' = turn
        /\ turn \in Ceremonies
        /\ cer \in [Ceremonies -> [state : CeremonyStates,
                                   round : 0 .. Rounds]]
    BY <1>3 DEF step, Typed
  <2>2. ~finished(turn) /\ ~Threw(turn)
    BY <2>1 DEF TurnsAreCounted, finished, Threw
  <2>3. cer[turn].state \in {"pending", "running"} /\ n \in 1 .. Rounds
    BY <2>1, <2>2 DEF CompletedIsLastRound, finished, CeremonyStates, Rounds
  <2>4. other \in Ceremonies /\ other # turn /\ {turn, other} = {0, 1}
    BY <2>1 DEF Ceremonies
  <2>5. CASE result = "ok" /\ ~over
    <3>1. cer' = [cer EXCEPT ![turn] = [state |-> "running", round |-> n - 1]]
      BY <1>3, <2>3, <2>5 DEF step, AfterCall, Rounds
    <3>2. pc' = "call"
      BY <1>3, <2>1, <2>5 DEF step
    <3>3. Typed'
      BY <2>1, <2>3, <3>1 DEF Typed, CeremonyStates, Rounds
    <3>4. CompletedIsLastRound'
      BY <2>1, <2>3, <3>1 DEF CompletedIsLastRound, Rounds
    <3>5. Cost(turn)' = Cost(turn) /\ Cost(other)' = Cost(other)
      BY <2>1, <2>2, <2>3, <2>4, <3>1 DEF Cost, Threw, Rounds
    <3>6. (Cost(0) + Cost(1))' = Cost(0) + Cost(1)
      BY <2>1, <2>4, <3>5 DEF Ceremonies
    <3>7. ~finished(turn)'
      BY <2>1, <3>1 DEF finished
    <3> QED
      BY <2>1, <3>2, <3>3, <3>4, <3>6, <3>7 DEF TurnsAreCounted
  <2>6. CASE ~(result = "ok" /\ ~over)
    <3> DEFINE new == AfterCall(result, n, over)
    <3>1. cer' = [cer EXCEPT ![turn] = new]
      BY <1>3 DEF step
    <3>2. pc' = "check"
      BY <1>3, <2>6 DEF step
    <3>3. /\ new \in [state : CeremonyStates, round : 0 .. Rounds]
          /\ new.state = "completed" <=> new.round = Rounds
          /\ new.round + (IF new.state \in {"rejected", "faulted"}
                          THEN 1 ELSE 0) = n
      BY <2>3, <2>6 DEF AfterCall, CeremonyStates, Rounds
    <3> HIDE DEF new
    <3>4. Typed'
      BY <2>1, <3>1, <3>3 DEF Typed
    <3>5. CompletedIsLastRound'
      BY <2>1, <3>1, <3>3 DEF CompletedIsLastRound
    <3>6. Cost(turn)' = Cost(turn) + 1 /\ Cost(other)' = Cost(other)
      BY <2>1, <2>2, <2>3, <2>4, <3>1, <3>3 DEF Cost, Threw
    <3>7. Cost(0) \in Nat /\ Cost(1) \in Nat
      BY CostBound DEF Ceremonies, Rounds
    <3>8. (Cost(0) + Cost(1))' = Cost(0) + Cost(1) + 1
      BY <2>1, <2>4, <3>6, <3>7 DEF Ceremonies
    <3> QED
      BY <2>1, <3>2, <3>4, <3>5, <3>8 DEF TurnsAreCounted
  <2> QED
    BY <2>5, <2>6
<1>4. ASSUME AfterStep
      PROVE  DualInv'
  BY <1>4 DEF AfterStep, Typed, CompletedIsLastRound, TurnsAreCounted, Cost,
              Threw, finished
<1>5. ASSUME NEW sigs \in Signatures, JudgeControl(sigs)
      PROVE  DualInv'
  <2>1. pc' \in {"idle", "fail_closed"} /\ UNCHANGED <<cer, turn, steps>>
    BY <1>5 DEF JudgeControl, loop
  <2> QED
    BY <2>1 DEF Typed, CompletedIsLastRound, TurnsAreCounted
<1>6. ASSUME NEW sigs \in Signatures, NEW written \in BOOLEAN,
             JudgeCase(sigs, written)
      PROVE  DualInv'
  <2>1. /\ pc' \in {"idle", "fail_closed", "finding"}
        /\ UNCHANGED <<cer, turn, steps>>
    BY <1>6 DEF JudgeCase, loop
  <2> QED
    BY <2>1 DEF Typed, CompletedIsLastRound, TurnsAreCounted
<1>7. ASSUME StartCase
      PROVE  DualInv'
  BY <1>7 DEF StartCase, Typed, CompletedIsLastRound, TurnsAreCounted, Cost,
              Threw, finished, NewCeremonies, Ceremonies, CeremonyStates,
              Rounds
<1>8. ASSUME NEW written \in BOOLEAN, DoorReject(written)
      PROVE  DualInv'
  BY <1>8 DEF DoorReject, loop, Typed, CompletedIsLastRound, TurnsAreCounted
<1>9. ASSUME UNCHANGED vars
      PROVE  DualInv'
  BY <1>9 DEF vars, loop, Typed, CompletedIsLastRound, TurnsAreCounted, Cost,
              Threw, finished
<1> QED
  BY <1>1, <1>2, <1>3, <1>4, <1>5, <1>6, <1>7, <1>8, <1>9 DEF Next

LEMMA DualInvariance == Spec => []DualInv
  BY InitDual, NextDual, PTL DEF Spec

\* Whatever the schedule and the library do, the loop of dual_session::run
\* ends only when both ceremonies have ended, in at most ten turns
\* (dual_session.cpp:357-414).
THEOREM SchedulesNeverCut == Spec => []RunCompletes
<1>1. DualInv => RunCompletes
  <2> SUFFICES ASSUME DualInv, pc = "judge"
               PROVE  /\ finished(0) /\ finished(1)
                      /\ steps <= 2 * Rounds
                      /\ CompletedIsLastRound
    BY DEF RunCompletes, CompletedIsLastRound
  <2>1. Cost(0) \in 0 .. Rounds /\ Cost(1) \in 0 .. Rounds
    BY CostBound DEF DualInv, Ceremonies
  <2>2. steps = Cost(0) + Cost(1)
    BY DEF DualInv, TurnsAreCounted
  <2> QED
    BY <2>1, <2>2 DEF DualInv, Rounds
<1> QED
  BY <1>1, DualInvariance, PTL

-----------------------------------------------------------------------------
(***************************************************************************)
(* Types, and what one call of the library changes.                        *)
(***************************************************************************)
LEMMA RecordTypes ==
    ASSUME NEW r \in Records, NEW n \in 1 .. Rounds, NEW result, NEW fault
    PROVE  /\ OtherRecord(r, fault) \in Records
           /\ OwnRecord(r, n, result, fault) \in Records
  BY DEF Records, NoRecord, OtherRecord, OwnRecord, Rounds

LEMMA DigestTypes ==
    ASSUME TypeOK
    PROVE  /\ NoFingerprint \in [Signers -> Digests]
           /\ \A c \in Ceremonies :
                 record_fingerprint(c) \in [Signers -> Digests]
<1>1. \A r \in Records : Digest(r) \in Digests
  BY DEF Digest, Records, Digests
<1>2. NoRecord \in Records
  BY DEF NoRecord, Records
<1>3. \A c \in Ceremonies, p \in Signers : rec[p][c] \in Records
  BY DEF TypeOK
<1> QED
  BY <1>1, <1>2, <1>3 DEF NoFingerprint, record_fingerprint

\* A call changes the records of its own signer only.
LEMMA CallChanges ==
    ASSUME TypeOK, DualInv, NEW result \in {"ok", "reject", "fatal"},
           NEW fault \in Kinds, step(result, fault)
    PROVE  /\ turn \in Ceremonies /\ 1 - turn \in Ceremonies /\ 1 - turn # turn
           /\ Ceremonies = {turn, 1 - turn}
           /\ signer \in Signers
           /\ cer[turn].round + 1 \in 1 .. Rounds
           /\ ~finished(turn)
           /\ rec' \in [Signers -> [Ceremonies -> Records]]
           /\ \A p \in Signers : p # signer => rec'[p] = rec[p]
           /\ rec'[signer][turn] = OwnRecord(rec[signer][turn],
                                             cer[turn].round + 1, result, fault)
           /\ rec'[signer][1 - turn] = OtherRecord(rec[signer][1 - turn], fault)
           /\ \A c \in Ceremonies : c # turn => cer'[c] = cer[c]
<1> DEFINE o == 1 - turn
           n == cer[turn].round + 1
           A == OwnRecord(rec[signer][turn], n, result, fault)
           B == OtherRecord(rec[signer][o], fault)
<1>1. /\ turn \in Ceremonies /\ o \in Ceremonies /\ o # turn
      /\ signer \in Signers /\ rec \in [Signers -> [Ceremonies -> Records]]
      /\ Ceremonies = {turn, o}
      /\ cer \in [Ceremonies -> [state : CeremonyStates, round : 0 .. Rounds]]
  BY DEF TypeOK, Ceremonies
<1>2. ~finished(turn) /\ pc = "call"
  BY DEF step, DualInv, TurnsAreCounted
<1>3. n \in 1 .. Rounds
  BY <1>1, <1>2 DEF DualInv, CompletedIsLastRound, finished, Rounds
<1>4. rec' = [rec EXCEPT ![signer][turn] = A, ![signer][o] = B]
  BY DEF step, library_call
<1>5. A \in Records /\ B \in Records
  BY <1>1, <1>3, RecordTypes
<1>6. cer' = [cer EXCEPT ![turn] = AfterCall(result, n, signer = T \/ n = Rounds)]
  BY DEF step
<1>7. \A c \in Ceremonies : c # turn => cer'[c] = cer[c]
  BY <1>1, <1>6
<1> HIDE DEF A, B, n, o
<1> DEFINE R1 == [rec EXCEPT ![signer][turn] = A]
<1>8. /\ R1 \in [Signers -> [Ceremonies -> Records]]
      /\ \A p \in Signers : p # signer => R1[p] = rec[p]
      /\ R1[signer][turn] = A
  BY <1>1, <1>5
<1>9. rec' = [R1 EXCEPT ![signer][o] = B]
  BY <1>1, <1>4
<1> HIDE DEF R1
<1>10. /\ rec' \in [Signers -> [Ceremonies -> Records]]
       /\ \A p \in Signers : p # signer => rec'[p] = rec[p]
       /\ rec'[signer][turn] = A /\ rec'[signer][o] = B
  BY <1>1, <1>5, <1>8, <1>9
<1> QED
  BY <1>1, <1>2, <1>3, <1>7, <1>10 DEF A, B, n, o

LEMMA InitTypes == Init => TypeOK
<1> SUFFICES ASSUME Init PROVE TypeOK
  OBVIOUS
<1>1. NoRecord \in Records
  BY DEF NoRecord, Records
<1>2. /\ NewCeremonies \in [Ceremonies -> [state : CeremonyStates,
                                           round : 0 .. Rounds]]
      /\ EmptyStores \in [Signers -> [Ceremonies -> Records]]
      /\ NoFingerprint \in [Signers -> Digests]
  BY <1>1 DEF NewCeremonies, EmptyStores, NoFingerprint, CeremonyStates,
              Rounds, Digest, NoRecord, Digests
<1>3. /\ 1 \in Signers /\ 0 \in 0 .. MaxCases
  BY DualConstants DEF Signers
<1>4. /\ NotCounted \in [cell : {"none", "sequential", "alternating", "blocked"},
                         applied : BOOLEAN, verdict : Verdicts]
      /\ NothingSeen \in [overlap : BOOLEAN, touched : BOOLEAN, forged : BOOLEAN]
  BY DEF NotCounted, NothingSeen, Verdicts
<1>5. gate \in BOOLEAN /\ exhausted \in BOOLEAN /\ moved \in BOOLEAN
      /\ isolated \in BOOLEAN
  BY Zenon DEF Init
<1>6. /\ turn \in Ceremonies /\ lastTurn \in Ceremonies \cup {2}
      /\ signer \in Signers /\ cases \in 0 .. MaxCases
      /\ {keys, keysBefore, steps, crossings, advanced, faults} \subseteq Nat
  BY <1>3 DEF Init, Ceremonies
<1>7. /\ pc = "loop" /\ cer = NewCeremonies /\ rec = EmptyStores
      /\ before = NoFingerprint /\ counted = NotCounted /\ seen = NothingSeen
  BY DEF Init
<1> QED
  BY <1>2, <1>4, <1>5, <1>6, <1>7 DEF TypeOK

LEMMA NextTypes ==
    ASSUME TypeOK, DualInv, DualInv', [Next]_vars
    PROVE  TypeOK'
<1>1. ASSUME NEW bit \in {0, 1}, NEW last \in BOOLEAN, TakeTurn(bit, last)
      PROVE  TypeOK'
  <2>1. /\ pc = "loop" /\ ~(finished(0) /\ finished(1))
        /\ UNCHANGED <<gate, cases, counted, keysBefore, cer, rec, keys, moved,
                       advanced, isolated, faults>>
        /\ exhausted' = last
    BY <1>1 DEF TakeTurn, process
  <2>2. ~finished(Turn(bit)) /\ Turn(bit) \in Ceremonies
    BY <2>1, TurnIsUsable
  <2>3. /\ pc' = "call" /\ turn' = Turn(bit) /\ lastTurn' = Turn(bit)
        /\ signer' = 1
        /\ crossings' = crossings + (IF lastTurn \notin {2, Turn(bit)}
                                     THEN 1 ELSE 0)
        /\ before' = record_fingerprint(1 - Turn(bit))
        /\ steps' = steps + 1
        /\ seen' = [seen EXCEPT !.overlap =
                      @ \/ cer[1 - Turn(bit)].state = "running"]
    BY <1>1, <2>2 DEF TakeTurn
  <2>4. 1 - Turn(bit) \in Ceremonies /\ 1 \in Signers
    BY <2>2, DualConstants DEF Ceremonies, Signers
  <2>5. before' \in [Signers -> Digests]
    BY <2>3, <2>4, DigestTypes
  <2>6. seen' \in [overlap : BOOLEAN, touched : BOOLEAN, forged : BOOLEAN]
    BY <2>3 DEF TypeOK
  <2>7. steps' \in Nat /\ crossings' \in Nat
    BY <2>3 DEF TypeOK
  <2> QED
    BY <2>1, <2>2, <2>3, <2>4, <2>5, <2>6, <2>7 DEF TypeOK
<1>2. ASSUME EndLoop
      PROVE  TypeOK'
  BY <1>2 DEF EndLoop, process, loop, TypeOK
<1>3. ASSUME NEW result \in {"ok", "reject", "fatal"}, NEW fault \in Kinds,
             step(result, fault)
      PROVE  TypeOK'
  <2>1. rec' \in [Signers -> [Ceremonies -> Records]]
    BY <1>3, CallChanges
  <2>2. cer' \in [Ceremonies -> [state : CeremonyStates, round : 0 .. Rounds]]
    BY DEF DualInv, Typed
  <2>3. /\ faults' \in Nat /\ keys' \in Nat
        /\ seen' = [seen EXCEPT !.touched = @ \/ fault \in {"fields", "delete"}]
    BY <1>3 DEF step, library_call, TypeOK
  <2>4. seen' \in [overlap : BOOLEAN, touched : BOOLEAN, forged : BOOLEAN]
    BY <2>3 DEF TypeOK
  <2>5. pc' \in {"call", "check"}
    BY <1>3 DEF step
  <2>6. signer' \in Signers
    <3>1. signer' = signer \/ (signer' = signer + 1 /\ signer # T)
      BY <1>3 DEF step
    <3> QED
      BY <3>1, DualConstants DEF TypeOK, Signers
  <2>7. moved' \in BOOLEAN
    <3>1. moved' = moved \/ moved' = (result = "ok")
      BY <1>3 DEF step
    <3> QED
      BY <3>1 DEF TypeOK
  <2>8. UNCHANGED <<gate, cases, counted, keysBefore, turn, lastTurn, before,
                    steps, crossings, advanced, isolated, exhausted>>
    BY <1>3 DEF step, process
  <2> QED
    BY <2>1, <2>2, <2>3, <2>4, <2>5, <2>6, <2>7, <2>8 DEF TypeOK
<1>4. ASSUME AfterStep
      PROVE  TypeOK'
  <2>1. /\ pc' = "loop" /\ signer' = 1 /\ before' = NoFingerprint
        /\ UNCHANGED <<gate, cases, counted, keysBefore, cer, rec, keys, turn,
                       lastTurn, steps, crossings, exhausted, faults, seen>>
    BY <1>4 DEF AfterStep, process
  <2>2. isolated' \in BOOLEAN /\ moved' \in BOOLEAN
    BY <1>4, Zenon DEF AfterStep
  <2>3. advanced' \in Nat
    BY <1>4 DEF AfterStep, TypeOK
  <2>4. 1 \in Signers /\ NoFingerprint \in [Signers -> Digests]
    BY DualConstants, DigestTypes DEF Signers
  <2> QED
    BY <2>1, <2>2, <2>3, <2>4 DEF TypeOK
<1>5. ASSUME NEW sigs \in Signatures, SignaturesSeen(sigs)
      PROVE  /\ faults' \in Nat
             /\ seen' \in [overlap : BOOLEAN, touched : BOOLEAN,
                           forged : BOOLEAN]
  <2>1. faults' \in Nat
    BY <1>5 DEF SignaturesSeen, TypeOK
  <2>2. seen' = [seen EXCEPT !.forged = (both_completed /\ ~AsPromised(sigs))]
    BY <1>5 DEF SignaturesSeen
  <2>3. (both_completed /\ ~AsPromised(sigs)) \in BOOLEAN
    OBVIOUS
  <2> QED
    BY <2>1, <2>2, <2>3 DEF TypeOK
<1>6. ASSUME NEW sigs \in Signatures, JudgeControl(sigs)
      PROVE  TypeOK'
  <2>1. /\ pc' \in {"idle", "fail_closed"} /\ SignaturesSeen(sigs)
        /\ UNCHANGED <<cases, counted, keysBefore, cer, rec, keys, turn,
                       lastTurn, signer, before, moved, steps, crossings,
                       advanced, isolated, exhausted>>
    BY <1>6 DEF JudgeControl, loop
  <2>2. gate' \in BOOLEAN
    BY <1>6, Zenon DEF JudgeControl
  <2> QED
    BY <1>5, <2>1, <2>2 DEF TypeOK
<1>7. ASSUME NEW sigs \in Signatures, NEW written \in BOOLEAN,
             JudgeCase(sigs, written)
      PROVE  TypeOK'
  <2>1. /\ pc' \in {"idle", "fail_closed", "finding"} /\ SignaturesSeen(sigs)
        /\ UNCHANGED <<gate, cases, keysBefore, cer, rec, keys, turn, lastTurn,
                       signer, before, moved, steps, crossings, advanced,
                       isolated, exhausted>>
        /\ \/ counted' = counted
           \/ counted' = [cell |-> schedule_cell, applied |-> applied,
                          verdict |-> CaseVerdict(Verdict(sigs))]
    BY <1>7 DEF JudgeCase, loop
  <2>2. /\ schedule_cell \in {"sequential", "alternating", "blocked"}
        /\ CaseVerdict(Verdict(sigs)) \in Verdicts
    BY DEF schedule_cell, CaseVerdict, Verdicts, Findings
  <2>3. applied \in BOOLEAN
    BY DEF applied
  <2>4. counted' \in [cell : {"none", "sequential", "alternating", "blocked"},
                      applied : BOOLEAN, verdict : Verdicts]
    BY <2>1, <2>2, <2>3 DEF TypeOK
  <2> QED
    BY <1>5, <2>1, <2>4 DEF TypeOK
<1>8. ASSUME StartCase
      PROVE  TypeOK'
  <2>1. NoRecord \in Records
    BY DEF NoRecord, Records
  <2>2. /\ cer' \in [Ceremonies -> [state : CeremonyStates, round : 0 .. Rounds]]
        /\ rec' \in [Signers -> [Ceremonies -> Records]]
    BY <1>8, <2>1 DEF StartCase, NewCeremonies, EmptyStores, CeremonyStates,
                      Rounds
  <2>3. /\ counted' \in [cell : {"none", "sequential", "alternating", "blocked"},
                         applied : BOOLEAN, verdict : Verdicts]
        /\ seen' \in [overlap : BOOLEAN, touched : BOOLEAN, forged : BOOLEAN]
    BY <1>8 DEF StartCase, NotCounted, NothingSeen, Verdicts
  <2>4. exhausted' \in BOOLEAN /\ moved' \in BOOLEAN /\ isolated' \in BOOLEAN
    BY <1>8, Zenon DEF StartCase
  <2>5. /\ turn' \in Ceremonies /\ lastTurn' \in Ceremonies \cup {2}
        /\ signer' \in Signers /\ cases' \in 0 .. MaxCases
        /\ {keysBefore', steps', crossings', advanced'} \subseteq Nat
    BY <1>8, DualConstants DEF StartCase, Ceremonies, Signers, TypeOK
  <2>6. /\ pc' = "loop" /\ before' = NoFingerprint
        /\ UNCHANGED <<gate, keys, faults>>
    BY <1>8 DEF StartCase
  <2> QED
    BY <2>2, <2>3, <2>4, <2>5, <2>6, DigestTypes DEF TypeOK
<1>9. ASSUME NEW written \in BOOLEAN, DoorReject(written)
      PROVE  TypeOK'
  <2>1. /\ pc' \in {"idle", "fail_closed"} /\ counted' = NotCounted
        /\ cases' \in 0 .. MaxCases
        /\ UNCHANGED <<gate, keysBefore, cer, rec, keys, turn, lastTurn, signer,
                       before, moved, steps, crossings, advanced, isolated,
                       exhausted, faults, seen>>
    BY <1>9, DualConstants DEF DoorReject, loop, TypeOK
  <2>2. NotCounted \in [cell : {"none", "sequential", "alternating", "blocked"},
                        applied : BOOLEAN, verdict : Verdicts]
    BY DEF NotCounted, Verdicts
  <2> QED
    BY <2>1, <2>2 DEF TypeOK
<1>10. ASSUME UNCHANGED vars
       PROVE  TypeOK'
  BY <1>10 DEF vars, process, loop, TypeOK
<1> QED
  BY <1>1, <1>2, <1>3, <1>4, <1>6, <1>7, <1>8, <1>9, <1>10 DEF Next

LEMMA TypesInvariance == Spec => [](TypeOK /\ DualInv)
  BY InitTypes, NextTypes, DualInvariance, PTL DEF Spec

\* Type correctness of a fuzzing process, for any threshold.
THEOREM DualTypes == Spec => []TypeOK
  BY TypesInvariance, PTL

-----------------------------------------------------------------------------
(***************************************************************************)
(* What the loop knows of the other ceremony, and what is counted of it.   *)
(***************************************************************************)
Running == pc \in {"loop", "call", "check", "judge"}

\* The digest tells an absent record from a present one.
RecordsShow ==
    \A p \in Signers, c \in Ceremonies :
        Digest(rec[p][c]) = Digest(NoRecord) => rec[p][c] = NoRecord

\* The flag, together with the comparison still to be made of this turn,
\* says what the library touched.
IsolationIsExact ==
    /\ pc \in {"loop", "judge"} => (isolated <=> ~seen.touched)
    /\ pc \in {"call", "check"} =>
          (seen.touched <=> \/ ~isolated
                            \/ \E p \in Signers :
                                  Digest(rec[p][1 - turn]) # before[p])
    /\ pc = "call" =>
          \A p \in Signers :
              p >= signer => Digest(rec[p][1 - turn]) = before[p]

\* An honest library leaves nothing for the oracles.
HonestIsClean ==
    /\ pc = "call" /\ cer[turn].round = 4 => signer = Observer
    /\ faults = 0 =>
          /\ ~seen.touched /\ keys = 0 /\ keysBefore = 0
          /\ RollbackClean

\* Who had the last turn, and that it took it.
LastTurnIsTaken ==
    /\ pc \in {"call", "check"} => lastTurn = turn
    /\ pc \in {"loop", "check", "judge"} /\ lastTurn # 2 =>
          cer[lastTurn].state # "pending"
    /\ lastTurn = 2 =>
          /\ crossings = 0
          /\ \A c \in Ceremonies : cer[c].state = "pending"

\* While the ceremonies have not overlapped, the only crossing is the one
\* from an ended ceremony to the other, and the rounds counted after it are
\* rounds of that other one.
OneCrossingWithoutOverlap ==
    Running /\ ~seen.overlap =>
        \/ /\ crossings = 0 /\ advanced = 0
           /\ lastTurn # 2 => cer[1 - lastTurn].state = "pending"
        \/ /\ crossings = 1 /\ finished(1 - lastTurn)
           /\ advanced + (IF pc = "check" /\ moved THEN 1 ELSE 0)
                 <= cer[lastTurn].round

OracleInv ==
    /\ Running => counted = NotCounted
    /\ RecordsShow
    /\ IsolationIsExact
    /\ HonestIsClean
    /\ LastTurnIsTaken
    /\ OneCrossingWithoutOverlap
    /\ TamperingIsCaught
    /\ AbortMatchesCounters
    /\ counted.applied /\ counted.cell = "alternating" => seen.overlap

\* A counted case holds a finding exactly when the process aborts on it
\* (fuzzer_dual_session.cpp:170-195).
LEMMA FindingsAreCounted ==
    ASSUME NEW v
    PROVE  applied /\ any_finding(v) <=> CaseVerdict(v) \in Findings
<1>1. CASE ~applied
  BY <1>1 DEF CaseVerdict, Findings
<1>2. CASE applied /\ v.cross_session_verification
  BY <1>2 DEF CaseVerdict, Findings, any_finding
<1>3. CASE /\ applied /\ ~v.cross_session_verification
           /\ \/ v.nonce_reuse \/ ~v.state_isolation \/ ~v.rollback_clean
              \/ ~v.key_store_unchanged
  BY <1>3 DEF CaseVerdict, Findings, any_finding
<1>4. CASE /\ applied /\ ~v.cross_session_verification
           /\ ~(\/ v.nonce_reuse \/ ~v.state_isolation \/ ~v.rollback_clean
                \/ ~v.key_store_unchanged)
  BY <1>4 DEF CaseVerdict, Findings, any_finding
<1> QED
  BY <1>1, <1>2, <1>3, <1>4

\* Signatures that break the library's promise are counted as a finding, or
\* stop the process when one is missing (dual_session.cpp:415-463).
LEMMA ForgeryIsCounted ==
    ASSUME NEW s \in Signatures, both_completed, ~AsPromised(s), applied,
           ~Verdict(s).harness_fault
    PROVE  CaseVerdict(Verdict(s)) \in Findings
<1> DEFINE v == Verdict(s)
<1>1. /\ s.produced \subseteq Ceremonies
      /\ \A c \in Ceremonies : s.verifies[c] \subseteq Ceremonies
  BY DEF Signatures
<1>2. s.produced = Ceremonies
  BY DEF Verdict, evaluate_dual_oracles, Observation
<1>3. /\ v.cross_session_verification =
            (\E c \in Ceremonies : 1 - c \in s.verifies[c])
      /\ v.nonce_reuse <=> s.same_r
      /\ v.signatures_valid = (\A c \in Ceremonies : c \in s.verifies[c])
  BY <1>2 DEF Verdict, evaluate_dual_oracles, Observation
<1>4. CASE s.same_r
  BY <1>3, <1>4, FindingsAreCounted DEF any_finding
<1>5. CASE \E c \in Ceremonies : s.verifies[c] # {c}
  <2>1. PICK c \in Ceremonies : s.verifies[c] # {c}
    BY <1>5
  <2>2. c \notin s.verifies[c] \/ 1 - c \in s.verifies[c]
    BY <1>1, <2>1 DEF Ceremonies
  <2>3. v.cross_session_verification \/ ~v.signatures_valid
    BY <1>3, <2>2
  <2> QED
    BY <2>3, FindingsAreCounted DEF any_finding
<1> QED
  BY <1>4, <1>5 DEF AsPromised

\* The records of an honest library's runs give the oracles nothing
\* (dual_session.cpp:446-463).
LEMMA HonestHasNoFinding ==
    ASSUME NEW s \in Signatures, both_completed => AsPromised(s),
           isolated, RollbackClean, keys = keysBefore
    PROVE  ~any_finding(Verdict(s))
<1> DEFINE v == Verdict(s)
<1>1. v.state_isolation /\ v.rollback_clean /\ v.key_store_unchanged
  BY DEF Verdict, evaluate_dual_oracles, Observation
<1>2. CASE ~both_completed
  BY <1>1, <1>2 DEF Verdict, evaluate_dual_oracles, Observation, any_finding
<1>3. CASE both_completed
  <2>1. /\ \A c \in Ceremonies : s.verifies[c] = {c}
        /\ ~s.same_r
    BY <1>3 DEF AsPromised
  <2>2. s.produced = Ceremonies
    BY <2>1 DEF Signatures
  <2>3. \A c \in Ceremonies : c \in s.verifies[c] /\ 1 - c \notin s.verifies[c]
    BY <2>1 DEF Ceremonies
  <2>4. /\ ~v.cross_session_verification /\ ~v.nonce_reuse
        /\ v.signatures_valid
    BY <1>3, <2>1, <2>2, <2>3 DEF Verdict, evaluate_dual_oracles, Observation
  <2> QED
    BY <1>1, <2>4 DEF any_finding
<1> QED
  BY <1>2, <1>3

LEMMA InitOracle == Init => OracleInv
<1> SUFFICES ASSUME Init PROVE OracleInv
  OBVIOUS
<1>1. /\ pc = "loop" /\ counted = NotCounted /\ seen = NothingSeen
      /\ faults = 0 /\ keys = 0 /\ keysBefore = 0
      /\ lastTurn = 2 /\ crossings = 0 /\ advanced = 0
  BY DEF Init
<1>2. isolated
  BY DEF Init
<1>3. /\ \A p \in Signers, c \in Ceremonies : rec[p][c] = NoRecord
      /\ \A c \in Ceremonies : cer[c].state = "pending"
  BY DEF Init, EmptyStores, NewCeremonies
<1>4. Observer \in Signers
  BY DualConstants DEF Observer, Signers
<1>5. RecordsShow /\ IsolationIsExact
  BY <1>1, <1>2, <1>3 DEF RecordsShow, IsolationIsExact, NothingSeen
<1>6. HonestIsClean
  BY <1>1, <1>3, <1>4 DEF HonestIsClean, RollbackClean, NothingSeen
<1>7. LastTurnIsTaken /\ OneCrossingWithoutOverlap
  BY <1>1, <1>3 DEF LastTurnIsTaken, OneCrossingWithoutOverlap, Running
<1>8. TamperingIsCaught /\ AbortMatchesCounters /\ ~counted.applied
  BY <1>1 DEF TamperingIsCaught, AbortMatchesCounters, NotCounted, Findings
<1> QED
  BY <1>1, <1>5, <1>6, <1>7, <1>8 DEF OracleInv

\* A turn changes neither the records nor the ceremonies; it takes the
\* fingerprint that the call is compared with (dual_session.cpp:357-386).
LEMMA TurnOracle ==
    ASSUME TypeOK, DualInv, OracleInv, NEW bit \in {0, 1},
           NEW last \in BOOLEAN, TakeTurn(bit, last)
    PROVE  OracleInv'
<1> DEFINE t == Turn(bit)
<1>1. /\ pc = "loop" /\ ~(finished(0) /\ finished(1))
      /\ UNCHANGED <<counted, keysBefore, cer, rec, keys, moved, advanced,
                     isolated, faults>>
  BY DEF TakeTurn, process
<1>2. ~finished(t) /\ t \in Ceremonies
  BY <1>1, TurnIsUsable
<1>3. /\ pc' = "call" /\ turn' = t /\ lastTurn' = t /\ signer' = 1
      /\ crossings' = crossings + (IF lastTurn \notin {2, t} THEN 1 ELSE 0)
      /\ before' = record_fingerprint(1 - t)
      /\ seen' = [seen EXCEPT !.overlap = @ \/ cer[1 - t].state = "running"]
  BY <1>2 DEF TakeTurn
<1> HIDE DEF t
<1>4. /\ seen'.touched = seen.touched /\ seen'.forged = seen.forged
      /\ seen'.overlap = (seen.overlap \/ cer[1 - t].state = "running")
  BY <1>3 DEF TypeOK
<1>5. \A p \in Signers : Digest(rec[p][1 - t]) = before'[p]
  BY <1>3 DEF record_fingerprint
<1>6. counted = NotCounted /\ counted' = NotCounted
  BY <1>1 DEF OracleInv, Running
<1>7. RecordsShow'
  BY <1>1 DEF OracleInv, RecordsShow
<1>8. IsolationIsExact'
  BY <1>1, <1>3, <1>4, <1>5 DEF OracleInv, IsolationIsExact
<1>9. HonestIsClean'
  BY <1>1, <1>3, <1>4 DEF OracleInv, HonestIsClean, RollbackClean, Observer
<1>10. LastTurnIsTaken'
  BY <1>2, <1>3 DEF LastTurnIsTaken, Ceremonies
<1>11. OneCrossingWithoutOverlap'
  <2> SUFFICES ASSUME ~seen'.overlap
               PROVE  \/ /\ crossings' = 0 /\ advanced = 0
                         /\ cer[1 - t].state = "pending"
                      \/ /\ crossings' = 1 /\ finished(1 - t)
                         /\ advanced <= cer[t].round
    BY <1>1, <1>3 DEF OneCrossingWithoutOverlap, finished, TypeOK
  <2>1. ~seen.overlap /\ cer[1 - t].state # "running"
    BY <1>4
  <2>2. \/ /\ crossings = 0 /\ advanced = 0
           /\ lastTurn # 2 => cer[1 - lastTurn].state = "pending"
        \/ /\ crossings = 1 /\ finished(1 - lastTurn)
           /\ advanced <= cer[lastTurn].round
    BY <1>1, <2>1 DEF OracleInv, OneCrossingWithoutOverlap, Running, TypeOK
  <2>3. CASE lastTurn = 2
    BY <1>2, <1>3, <2>2, <2>3
    DEF OracleInv, LastTurnIsTaken, Ceremonies
  <2>4. CASE lastTurn = t
    BY <1>3, <2>2, <2>4, <1>2 DEF TypeOK, Ceremonies
  <2>5. CASE lastTurn \notin {2, t}
    <3>1. lastTurn = 1 - t /\ 1 - lastTurn = t /\ 1 - t \in Ceremonies
      BY <1>2, <2>5 DEF TypeOK, Ceremonies
    <3>2. crossings = 0 /\ advanced = 0
      BY <1>2, <2>2, <3>1
    <3>3. cer[1 - t].state # "pending"
      BY <1>1, <2>5, <3>1 DEF OracleInv, LastTurnIsTaken
    <3>4. finished(1 - t)
      BY <2>1, <3>1, <3>3 DEF TypeOK, finished, CeremonyStates
    <3>5. 0 <= cer[t].round
      BY <1>2 DEF TypeOK, Rounds
    <3> QED
      BY <1>3, <2>5, <3>2, <3>4, <3>5
  <2> QED
    BY <2>3, <2>4, <2>5
<1>12. TamperingIsCaught' /\ ~counted'.applied
  BY <1>3, <1>6 DEF TamperingIsCaught, NotCounted
<1>13. AbortMatchesCounters'
  BY <1>3, <1>6 DEF AbortMatchesCounters, NotCounted, Findings
<1> QED
  BY <1>3, <1>6, <1>7, <1>8, <1>9, <1>10, <1>11, <1>12, <1>13 DEF OracleInv

\* What a call does to a record that is not its own shows in the digest
\* exactly when it is not a byte string of the same size
\* (fixtures.cpp:58-91,393-411, dual_session.cpp:238-250).
LEMMA DigestShows ==
    ASSUME NEW r \in Records, NEW fault \in Kinds,
           Digest(r) = Digest(NoRecord) => r = NoRecord,
           fault \in {"fields", "blob", "delete"} => OtherRecord(r, fault) # r
    PROVE  Digest(OtherRecord(r, fault)) # Digest(r)
              <=> fault \in {"fields", "delete"}
<1>1. CASE fault = "fields"
  <2>1. r.fields # 2
    BY <1>1 DEF OtherRecord, Records
  <2> QED
    BY <1>1, <2>1 DEF OtherRecord, Digest, Records
<1>2. CASE fault = "blob"
  BY <1>2 DEF OtherRecord, Digest, Records
<1>3. CASE fault = "delete"
  BY <1>3 DEF OtherRecord
<1>4. CASE fault \notin {"fields", "blob", "delete"}
  BY <1>4 DEF OtherRecord
<1> QED
  BY <1>1, <1>2, <1>3, <1>4

\* Records stay distinguishable from absent ones.
LEMMA RecordsKeepShowing ==
    ASSUME NEW r \in Records, NEW fault \in Kinds, NEW n \in 1 .. Rounds,
           NEW result,
           Digest(r) = Digest(NoRecord) => r = NoRecord
    PROVE  /\ (fault = "blob" => r # NoRecord) =>
                 LET q == OtherRecord(r, fault)
                 IN  Digest(q) = Digest(NoRecord) => q = NoRecord
           /\ LET q == OwnRecord(r, n, result, fault)
              IN  Digest(q) = Digest(NoRecord) => q = NoRecord
<1> DEFINE q == OtherRecord(r, fault)
           w == OwnRecord(r, n, result, fault)
<1>1. ASSUME fault = "blob" => r # NoRecord, Digest(q) = Digest(NoRecord)
      PROVE  q = NoRecord
  <2>1. CASE fault = "fields"
    BY <1>1, <2>1 DEF OtherRecord, Digest, Records, NoRecord
  <2>2. CASE fault = "blob"
    <3>1. Digest(q) = Digest(r)
      BY <2>2 DEF OtherRecord, Digest, Records
    <3> QED
      BY <1>1, <2>2, <3>1
  <2>3. CASE fault \notin {"fields", "blob"}
    BY <1>1, <2>3 DEF OtherRecord
  <2> QED
    BY <2>1, <2>2, <2>3
<1>2. ASSUME Digest(w) = Digest(NoRecord)
      PROVE  w = NoRecord
  <2>1. CASE w = [round |-> n, fields |-> 1, blob |-> 0]
    BY <1>2, <2>1 DEF Digest, NoRecord
  <2>2. CASE w = r \/ w = NoRecord
    BY <1>2, <2>2
  <2> QED
    BY <2>1, <2>2 DEF OwnRecord
<1> QED
  BY <1>1, <1>2

\* One call of the library at one signer (dual_session.cpp:113-226).
LEMMA CallOracle ==
    ASSUME TypeOK, DualInv, OracleInv, NEW result \in {"ok", "reject", "fatal"},
           NEW fault \in Kinds, step(result, fault)
    PROVE  OracleInv'
<1> DEFINE o == 1 - turn
           n == cer[turn].round + 1
           over == signer = T \/ n = Rounds
<1>1. /\ turn \in Ceremonies /\ o \in Ceremonies /\ o # turn
      /\ Ceremonies = {turn, o} /\ signer \in Signers
      /\ n \in 1 .. Rounds /\ ~finished(turn)
      /\ rec \in [Signers -> [Ceremonies -> Records]]
      /\ rec' \in [Signers -> [Ceremonies -> Records]]
      /\ \A p \in Signers : p # signer => rec'[p] = rec[p]
      /\ rec'[signer][turn] = OwnRecord(rec[signer][turn], n, result, fault)
      /\ rec'[signer][o] = OtherRecord(rec[signer][o], fault)
      /\ cer'[o] = cer[o]
  BY CallChanges DEF TypeOK
<1>2. /\ pc = "call" /\ pc' \in {"call", "check"}
      /\ pc' = "call" => /\ result = "ok" /\ ~over /\ signer' = signer + 1
                         /\ signer # T /\ n # Rounds
      /\ pc' = "check" => moved' = (result = "ok") /\ (result = "ok" => over)
      /\ UNCHANGED <<counted, keysBefore, turn, lastTurn, before, crossings,
                     advanced, isolated>>
  BY DEF step, process
<1>3. /\ fault \in {"fields", "blob", "delete"} =>
            OtherRecord(rec[signer][o], fault) # rec[signer][o]
      /\ fault = "blob" => rec[signer][o] # NoRecord
      /\ faults' = faults + (IF fault = "none" THEN 0 ELSE 1)
      /\ keys' = keys + (IF fault = "keys" THEN 1 ELSE 0)
      /\ seen' = [seen EXCEPT !.touched = @ \/ fault \in {"fields", "delete"}]
  BY DEF step, library_call
<1>4. cer'[turn] = AfterCall(result, n, over)
  BY <1>1 DEF step, TypeOK
<1>5. /\ seen'.touched = (seen.touched \/ fault \in {"fields", "delete"})
      /\ seen'.overlap = seen.overlap /\ seen'.forged = seen.forged
  BY <1>3 DEF TypeOK
<1>6. counted = NotCounted /\ counted' = NotCounted
  BY <1>2 DEF OracleInv, Running
<1>7. /\ rec[signer][o] \in Records /\ rec[signer][turn] \in Records
      /\ \A c \in Ceremonies :
            Digest(rec[signer][c]) = Digest(NoRecord) => rec[signer][c] = NoRecord
  BY <1>1 DEF OracleInv, RecordsShow
<1> HIDE DEF n, o, over
<1>8. RecordsShow'
  <2>1. \A c \in Ceremonies :
           Digest(rec'[signer][c]) = Digest(NoRecord) => rec'[signer][c] = NoRecord
    <3>1. Digest(rec'[signer][o]) = Digest(NoRecord) => rec'[signer][o] = NoRecord
      BY <1>1, <1>3, <1>7, RecordsKeepShowing
    <3>2. Digest(rec'[signer][turn]) = Digest(NoRecord) =>
             rec'[signer][turn] = NoRecord
      BY <1>1, <1>7, RecordsKeepShowing
    <3> QED
      BY <1>1, <3>1, <3>2
  <2>2. \A p \in Signers, c \in Ceremonies : p # signer =>
           (Digest(rec'[p][c]) = Digest(NoRecord) => rec'[p][c] = NoRecord)
    BY <1>1 DEF OracleInv, RecordsShow
  <2> QED
    BY <2>1, <2>2 DEF RecordsShow
<1>9. IsolationIsExact'
  <2>1. Digest(rec[signer][o]) = before[signer]
    BY <1>1, <1>2 DEF OracleInv, IsolationIsExact, o, TypeOK, Signers
  <2>2. Digest(rec'[signer][o]) # before[signer]
           <=> fault \in {"fields", "delete"}
    BY <1>1, <1>3, <1>7, <2>1, DigestShows
  <2>3. \A p \in Signers : p # signer => Digest(rec'[p][o]) = Digest(rec[p][o])
    BY <1>1
  <2>4. seen.touched <=> \/ ~isolated
                         \/ \E p \in Signers : Digest(rec[p][o]) # before[p]
    BY <1>2 DEF OracleInv, IsolationIsExact, o
  <2>5. seen'.touched <=> \/ ~isolated
                          \/ \E p \in Signers : Digest(rec'[p][o]) # before[p]
    BY <1>1, <1>5, <2>1, <2>2, <2>3, <2>4
  <2>6. ASSUME pc' = "call", NEW p \in Signers, p >= signer'
        PROVE  Digest(rec'[p][o]) = before[p]
    <3>1. p # signer /\ p >= signer
      BY <1>1, <1>2, <2>6 DEF Signers
    <3>2. Digest(rec[p][o]) = before[p]
      BY <1>2, <3>1 DEF OracleInv, IsolationIsExact, o
    <3> QED
      BY <2>3, <3>1, <3>2
  <2> QED
    BY <1>2, <2>5, <2>6 DEF IsolationIsExact, o
<1>10. HonestIsClean'
  <2>1. pc' = "call" => cer'[turn].round # 4
    <3>1. pc' = "call" => cer'[turn].round = n - 1 /\ n # Rounds
      BY <1>2, <1>4 DEF AfterCall
    <3> QED
      BY <1>1, <3>1 DEF Rounds
  <2>2. ASSUME faults' = 0
        PROVE  /\ ~seen'.touched /\ keys' = 0 /\ keysBefore' = 0
               /\ RollbackClean'
    <3>1. fault = "none" /\ faults = 0
      BY <1>3, <2>2 DEF TypeOK
    <3>2. ~seen.touched /\ keys = 0 /\ keysBefore = 0 /\ RollbackClean
      BY <3>1 DEF OracleInv, HonestIsClean
    <3>3. rec'[signer][o] = rec[signer][o]
      BY <1>1, <3>1 DEF OtherRecord
    <3>4. Observer \in Signers
      BY DualConstants DEF Observer, Signers
    <3>5. rec'[Observer][o] = rec[Observer][o]
      BY <1>1, <3>3, <3>4
    <3>6. ASSUME cer'[turn].state = "completed"
          PROVE  rec'[Observer][turn] = NoRecord
      <4>1. result = "ok" /\ n = Rounds
        BY <1>4, <3>6 DEF AfterCall
      <4>2. signer = Observer
        BY <1>2, <4>1, <1>1 DEF OracleInv, HonestIsClean, n, Rounds, TypeOK
      <4> QED
        BY <1>1, <3>1, <4>1, <4>2 DEF OwnRecord
    <3>7. RollbackClean'
      BY <1>1, <3>2, <3>5, <3>6 DEF RollbackClean
    <3>8. ~seen'.touched
      BY <1>5, <3>1, <3>2
    <3>9. keys' = 0 /\ keysBefore' = 0
      BY <1>2, <1>3, <3>1, <3>2
    <3> QED
      BY <3>7, <3>8, <3>9
  <2> QED
    BY <1>2, <2>1, <2>2 DEF HonestIsClean
<1>11. cer'[turn].state # "pending"
  BY <1>4 DEF AfterCall
<1>12. lastTurn = turn
  BY <1>2 DEF OracleInv, LastTurnIsTaken
<1>13. LastTurnIsTaken'
  <2>1. lastTurn # 2
    BY <1>1, <1>12 DEF Ceremonies
  <2> QED
    BY <1>2, <1>11, <1>12, <2>1 DEF LastTurnIsTaken
<1>14. OneCrossingWithoutOverlap'
  <2> SUFFICES ASSUME ~seen.overlap
               PROVE  \/ /\ crossings = 0 /\ advanced = 0
                         /\ cer[o].state = "pending"
                      \/ /\ crossings = 1 /\ finished(o)
                         /\ advanced + (IF pc' = "check" /\ moved' THEN 1 ELSE 0)
                               <= cer'[turn].round
    BY <1>1, <1>2, <1>5, <1>12 DEF OneCrossingWithoutOverlap, finished, o
  <2>1. \/ /\ crossings = 0 /\ advanced = 0 /\ cer[o].state = "pending"
        \/ crossings = 1 /\ finished(o) /\ advanced <= cer[turn].round
    <3>1. advanced + 0 = advanced /\ lastTurn # 2
      BY <1>1, <1>12 DEF TypeOK, Ceremonies
    <3> QED
      BY <1>2, <1>12, <3>1
      DEF OracleInv, OneCrossingWithoutOverlap, Running, o
  <2>2. /\ cer[turn].round \in 0 .. Rounds /\ advanced \in Nat
        /\ n = cer[turn].round + 1
    BY <1>1 DEF TypeOK, n
  <2>3. CASE pc' = "check" /\ moved'
    <3>1. result = "ok" /\ over
      BY <1>2, <2>3, Zenon
    <3>2. cer'[turn].round = n
      BY <1>4, <3>1 DEF AfterCall
    <3> QED
      BY <2>1, <2>2, <2>3, <3>2 DEF Rounds
  <2>4. CASE ~(pc' = "check" /\ moved')
    <3>1. cer'[turn].round >= n - 1
      BY <1>4, <2>2 DEF AfterCall, Rounds
    <3>2. cer'[turn].round \in Nat
      BY <1>4, <2>2 DEF AfterCall, Rounds
    <3>3. (IF pc' = "check" /\ moved' THEN 1 ELSE 0) = 0
      BY <2>4
    <3> QED
      BY <2>1, <2>2, <3>1, <3>2, <3>3 DEF Rounds
  <2> QED
    BY <2>3, <2>4
<1>15. TamperingIsCaught' /\ ~counted'.applied
  BY <1>2, <1>6 DEF TamperingIsCaught, NotCounted
<1>16. AbortMatchesCounters'
  BY <1>2, <1>6 DEF AbortMatchesCounters, NotCounted, Findings
<1> QED
  BY <1>6, <1>8, <1>9, <1>10, <1>13, <1>14, <1>15, <1>16 DEF OracleInv

\* The comparison that ends a turn (dual_session.cpp:387-403).
LEMMA CheckOracle ==
    ASSUME TypeOK, DualInv, OracleInv, AfterStep
    PROVE  OracleInv'
<1>1. /\ pc = "check" /\ pc' = "loop"
      /\ isolated' = (isolated /\ record_fingerprint(1 - turn) = before)
      /\ advanced' = advanced + (IF moved /\ crossings > 0 THEN 1 ELSE 0)
      /\ UNCHANGED <<counted, keysBefore, cer, rec, keys, turn, lastTurn,
                     crossings, faults, seen>>
  BY DEF AfterStep, process
<1>2. counted = NotCounted /\ counted' = NotCounted
  BY <1>1 DEF OracleInv, Running
<1>3. IsolationIsExact'
  <2>1. record_fingerprint(1 - turn) = before
           <=> \A p \in Signers : Digest(rec[p][1 - turn]) = before[p]
    <3>1. before = [p \in Signers |-> before[p]]
      BY DEF TypeOK
    <3> QED
      BY <3>1 DEF record_fingerprint
  <2>2. seen.touched <=>
           ~isolated \/ ~(record_fingerprint(1 - turn) = before)
    BY <1>1, <2>1 DEF OracleInv, IsolationIsExact
  <2>3. isolated' <=> ~seen.touched
    BY <1>1, <2>2, Zenon
  <2> QED
    BY <1>1, <2>3 DEF IsolationIsExact
<1>4. RecordsShow' /\ HonestIsClean'
  BY <1>1 DEF OracleInv, RecordsShow, HonestIsClean, RollbackClean
<1>5. LastTurnIsTaken'
  BY <1>1 DEF OracleInv, LastTurnIsTaken
<1>6. OneCrossingWithoutOverlap'
  <2> SUFFICES ASSUME ~seen.overlap
               PROVE  \/ /\ crossings = 0 /\ advanced' = 0
                         /\ lastTurn # 2 => cer[1 - lastTurn].state = "pending"
                      \/ /\ crossings = 1 /\ finished(1 - lastTurn)
                         /\ advanced' + 0 <= cer[lastTurn].round
    BY <1>1 DEF OneCrossingWithoutOverlap, finished
  <2>1. \/ /\ crossings = 0 /\ advanced = 0
           /\ lastTurn # 2 => cer[1 - lastTurn].state = "pending"
        \/ /\ crossings = 1 /\ finished(1 - lastTurn)
           /\ advanced + (IF moved THEN 1 ELSE 0) <= cer[lastTurn].round
    BY <1>1 DEF OracleInv, OneCrossingWithoutOverlap, Running
  <2>2. advanced' = advanced + (IF moved /\ crossings > 0 THEN 1 ELSE 0)
        /\ advanced \in Nat /\ crossings \in Nat
    BY <1>1 DEF TypeOK
  <2> QED
    BY <2>1, <2>2
<1>7. TamperingIsCaught' /\ ~counted'.applied
  BY <1>1, <1>2 DEF TamperingIsCaught, NotCounted
<1>8. AbortMatchesCounters'
  BY <1>1, <1>2 DEF AbortMatchesCounters, NotCounted, Findings
<1> QED
  BY <1>2, <1>3, <1>4, <1>5, <1>6, <1>7, <1>8 DEF OracleInv

\* A case that is counted as an applied alternating schedule overlapped: with
\* a single crossing from an ended ceremony, an applied run takes three turns
\* (fuzzer_dual_session.cpp:63-72).
LEMMA AlternatingOverlaps ==
    ASSUME TypeOK, DualInv, LastTurnIsTaken, OneCrossingWithoutOverlap,
           pc = "judge", applied, schedule_cell = "alternating"
    PROVE  seen.overlap
<1> SUFFICES ASSUME ~seen.overlap PROVE FALSE
  OBVIOUS
<1>1. crossings # 0 /\ crossings * 2 >= steps
  BY DEF schedule_cell
<1>2. /\ crossings = 1 /\ finished(1 - lastTurn)
      /\ advanced + 0 <= cer[lastTurn].round
  BY <1>1 DEF OneCrossingWithoutOverlap, Running
<1>3. lastTurn \in Ceremonies \cup {2} /\ advanced \in Nat /\ advanced > 0
  BY DEF TypeOK, applied
<1>4. /\ finished(0) /\ finished(1) /\ steps = Cost(0) + Cost(1)
  BY DEF DualInv, TurnsAreCounted
<1>5. /\ cer[0].state \in CeremonyStates /\ cer[1].state \in CeremonyStates
      /\ cer[0].round \in 0 .. Rounds /\ cer[1].round \in 0 .. Rounds
      /\ cer[0].state = "completed" <=> cer[0].round = Rounds
      /\ cer[1].state = "completed" <=> cer[1].round = Rounds
  BY DEF DualInv, CompletedIsLastRound, TypeOK, Ceremonies
<1>6. /\ Cost(0) >= 1 /\ Cost(0) >= cer[0].round
      /\ cer[0].round >= 1 => Cost(0) >= 2
      /\ Cost(1) >= 1 /\ Cost(1) >= cer[1].round
      /\ cer[1].round >= 1 => Cost(1) >= 2
      /\ Cost(0) \in Nat /\ Cost(1) \in Nat
  BY <1>4, <1>5 DEF Cost, Threw, finished, Rounds
<1>7. CASE lastTurn \in Ceremonies
  BY <1>1, <1>2, <1>3, <1>4, <1>5, <1>6, <1>7 DEF Ceremonies, Rounds
<1>8. CASE lastTurn = 2
  BY <1>1, <1>8 DEF LastTurnIsTaken
<1> QED
  BY <1>3, <1>7, <1>8

LEMMA NextOracle ==
    ASSUME TypeOK, DualInv, OracleInv, [Next]_vars
    PROVE  OracleInv'
<1>1. ASSUME EndLoop
      PROVE  OracleInv'
  <2>1. /\ pc = "loop" /\ pc' = "judge"
        /\ UNCHANGED <<counted, keysBefore, cer, rec, keys, turn, lastTurn,
                       before, signer, crossings, advanced, isolated, faults,
                       seen>>
    BY <1>1 DEF EndLoop, process, loop
  <2>2. counted = NotCounted /\ counted' = NotCounted
    BY <2>1 DEF OracleInv, Running
  <2>3. RecordsShow' /\ IsolationIsExact' /\ HonestIsClean' /\ LastTurnIsTaken'
    BY <2>1 DEF OracleInv, RecordsShow, IsolationIsExact, HonestIsClean,
                RollbackClean, LastTurnIsTaken
  <2>4. OneCrossingWithoutOverlap'
    BY <2>1 DEF OracleInv, OneCrossingWithoutOverlap, Running, finished
  <2>5. TamperingIsCaught' /\ ~counted'.applied
    BY <2>1, <2>2 DEF OracleInv, IsolationIsExact, TamperingIsCaught, NotCounted
  <2>6. AbortMatchesCounters'
    BY <2>1, <2>2 DEF AbortMatchesCounters, NotCounted, Findings
  <2> QED
    BY <2>2, <2>3, <2>4, <2>5, <2>6 DEF OracleInv
<1>2. ASSUME NEW sigs \in Signatures, SignaturesSeen(sigs), ~Running',
             UNCHANGED <<keysBefore, cer, rec, keys, turn, lastTurn, before,
                         signer, crossings, isolated>>
      PROVE  /\ RecordsShow' /\ IsolationIsExact' /\ HonestIsClean'
             /\ LastTurnIsTaken' /\ OneCrossingWithoutOverlap'
             /\ seen'.overlap = seen.overlap /\ seen'.touched = seen.touched
             /\ seen'.forged <=> both_completed /\ ~AsPromised(sigs)
  <2>1. seen' = [seen EXCEPT !.forged = (both_completed /\ ~AsPromised(sigs))]
    BY <1>2 DEF SignaturesSeen
  <2>2. /\ seen'.overlap = seen.overlap /\ seen'.touched = seen.touched
        /\ seen'.forged <=> both_completed /\ ~AsPromised(sigs)
    BY <2>1 DEF TypeOK
  <2>3. faults' = 0 => faults = 0
    BY <1>2 DEF SignaturesSeen, TypeOK
  <2>4. pc' \notin {"loop", "call", "check", "judge"}
    BY <1>2 DEF Running
  <2>5. RecordsShow' /\ IsolationIsExact' /\ LastTurnIsTaken'
        /\ OneCrossingWithoutOverlap'
    BY <1>2, <2>4 DEF OracleInv, RecordsShow, IsolationIsExact, LastTurnIsTaken,
                      OneCrossingWithoutOverlap
  <2>6. HonestIsClean'
    BY <1>2, <2>2, <2>3, <2>4 DEF OracleInv, HonestIsClean, RollbackClean
  <2> QED
    BY <2>2, <2>5, <2>6
<1>3. ASSUME NEW sigs \in Signatures, JudgeControl(sigs)
      PROVE  OracleInv'
  <2>1. /\ pc = "judge" /\ pc' \in {"idle", "fail_closed"}
        /\ SignaturesSeen(sigs)
        /\ UNCHANGED <<counted, keysBefore, cer, rec, keys, turn, lastTurn,
                       before, signer, crossings, advanced, isolated>>
    BY <1>3 DEF JudgeControl, loop
  <2>2. counted = NotCounted /\ counted' = NotCounted
    BY <2>1 DEF OracleInv, Running
  <2>3. ~Running'
    BY <2>1 DEF Running
  <2>4. TamperingIsCaught' /\ ~counted'.applied
    BY <2>1, <2>2 DEF TamperingIsCaught, NotCounted
  <2>5. AbortMatchesCounters'
    BY <2>1, <2>2 DEF AbortMatchesCounters, NotCounted, Findings
  <2> QED
    BY <1>2, <2>1, <2>3, <2>4, <2>5 DEF OracleInv
<1>4. ASSUME NEW sigs \in Signatures, NEW written \in BOOLEAN,
             JudgeCase(sigs, written)
      PROVE  OracleInv'
  <2> DEFINE v == Verdict(sigs)
  <2>1. /\ pc = "judge" /\ pc' \in {"idle", "fail_closed", "finding"}
        /\ SignaturesSeen(sigs)
        /\ UNCHANGED <<keysBefore, cer, rec, keys, turn, lastTurn,
                       before, signer, crossings, advanced, isolated>>
    BY <1>4 DEF JudgeCase, loop
  <2>2. counted = NotCounted /\ ~Running'
    BY <2>1 DEF OracleInv, Running
  <2>3. /\ RecordsShow' /\ IsolationIsExact' /\ HonestIsClean'
        /\ LastTurnIsTaken' /\ OneCrossingWithoutOverlap'
        /\ seen'.overlap = seen.overlap /\ seen'.touched = seen.touched
        /\ seen'.forged <=> both_completed /\ ~AsPromised(sigs)
    BY <1>2, <2>1, <2>2
  <2>4. CASE v.harness_fault \/ ~written
    <3>1. pc' = "fail_closed" /\ counted' = NotCounted
      BY <1>4, <2>2, <2>4 DEF JudgeCase
    <3>2. TamperingIsCaught' /\ AbortMatchesCounters' /\ ~counted'.applied
      BY <3>1 DEF TamperingIsCaught, AbortMatchesCounters, NotCounted, Findings
    <3> QED
      BY <2>2, <2>3, <3>2 DEF OracleInv
  <2>5. CASE ~v.harness_fault /\ written
    <3>1. /\ counted' = [cell |-> schedule_cell, applied |-> applied,
                         verdict |-> CaseVerdict(v)]
          /\ pc' = IF applied /\ any_finding(v) THEN "finding" ELSE "idle"
      BY <1>4, <2>5 DEF JudgeCase
    <3>2. /\ counted'.cell = schedule_cell /\ counted'.applied = applied
          /\ counted'.verdict = CaseVerdict(v)
      BY <3>1
    <3>3. AbortMatchesCounters'
      BY <3>1, <3>2, FindingsAreCounted DEF AbortMatchesCounters
    <3>4. ASSUME applied, seen.touched
          PROVE  CaseVerdict(v) \in Findings
      <4>1. ~isolated
        BY <2>1, <3>4 DEF OracleInv, TamperingIsCaught
      <4>2. any_finding(v)
        BY <4>1 DEF any_finding, Verdict, evaluate_dual_oracles, Observation
      <4> QED
        BY <3>4, <4>2, FindingsAreCounted
    <3>5. ASSUME applied, both_completed, ~AsPromised(sigs)
          PROVE  CaseVerdict(v) \in Findings
      BY <2>5, <3>5, ForgeryIsCounted
    <3>6. TamperingIsCaught'
      BY <2>1, <2>3, <3>2, <3>4, <3>5 DEF TamperingIsCaught
    <3>7. counted'.applied /\ counted'.cell = "alternating" => seen'.overlap
      BY <2>1, <2>3, <3>2, AlternatingOverlaps DEF OracleInv
    <3> QED
      BY <2>2, <2>3, <3>3, <3>6, <3>7 DEF OracleInv
  <2> QED
    BY <2>4, <2>5
<1>5. ASSUME StartCase
      PROVE  OracleInv'
  <2>1. /\ pc' = "loop" /\ counted' = NotCounted /\ seen' = NothingSeen
        /\ keysBefore' = keys /\ keys' = keys /\ faults' = faults
        /\ lastTurn' = 2 /\ crossings' = 0 /\ advanced' = 0
    BY <1>5 DEF StartCase
  <2>2. isolated'
    BY <1>5 DEF StartCase
  <2>3. /\ \A p \in Signers, c \in Ceremonies : rec'[p][c] = NoRecord
        /\ \A c \in Ceremonies : cer'[c].state = "pending"
    BY <1>5 DEF StartCase, EmptyStores, NewCeremonies
  <2>4. RecordsShow' /\ IsolationIsExact'
    BY <2>1, <2>2, <2>3 DEF RecordsShow, IsolationIsExact, NothingSeen
  <2>5. HonestIsClean'
    BY <2>1, <2>3 DEF OracleInv, HonestIsClean, RollbackClean, NothingSeen
  <2>6. LastTurnIsTaken' /\ OneCrossingWithoutOverlap'
    BY <2>1, <2>3 DEF LastTurnIsTaken, OneCrossingWithoutOverlap, Running
  <2>7. TamperingIsCaught' /\ AbortMatchesCounters' /\ ~counted'.applied
    BY <2>1 DEF TamperingIsCaught, AbortMatchesCounters, NotCounted, Findings
  <2> QED
    BY <2>1, <2>4, <2>5, <2>6, <2>7 DEF OracleInv
<1>6. ASSUME NEW written \in BOOLEAN, DoorReject(written)
      PROVE  OracleInv'
  <2>1. /\ pc' \in {"idle", "fail_closed"} /\ counted' = NotCounted
        /\ UNCHANGED <<keysBefore, cer, rec, keys, turn, lastTurn, before,
                       signer, crossings, advanced, isolated, faults, seen>>
    BY <1>6 DEF DoorReject, loop
  <2>2. TamperingIsCaught' /\ AbortMatchesCounters' /\ ~counted'.applied
    BY <2>1 DEF TamperingIsCaught, AbortMatchesCounters, NotCounted, Findings
  <2> QED
    BY <2>1, <2>2
    DEF OracleInv, RecordsShow, IsolationIsExact, HonestIsClean, RollbackClean,
        LastTurnIsTaken, OneCrossingWithoutOverlap, Running
<1>7. ASSUME UNCHANGED vars
      PROVE  OracleInv'
  BY <1>7
  DEF vars, process, loop, OracleInv, RecordsShow, IsolationIsExact,
      HonestIsClean, RollbackClean, LastTurnIsTaken, OneCrossingWithoutOverlap,
      Running, TamperingIsCaught, AbortMatchesCounters, finished
<1> QED
  BY <1>1, <1>3, <1>4, <1>5, <1>6, <1>7, TurnOracle, CallOracle, CheckOracle
  DEF Next

LEMMA OracleInvariance == Spec => [](TypeOK /\ OracleInv)
  BY InitOracle, NextOracle, TypesInvariance, PTL DEF Spec

\* The isolation oracle fires exactly when a step changed the other
\* ceremony's record, and a counted case shows it, for every threshold and
\* any number of misbehaviours (dual_session.cpp:387-398,
\* fuzzer_dual_session.cpp:170-180).
THEOREM TamperingAlwaysCaught == Spec => []TamperingIsCaught
<1>1. OracleInv => TamperingIsCaught
  BY DEF OracleInv
<1> QED
  BY <1>1, OracleInvariance, PTL

\* A library that does nothing wrong never makes the dual-session oracles
\* report a finding (dual_session.cpp:446-463).
THEOREM DualHasNoFalseFinding == Spec => []NoFalseFinding
<1>1. TypeOK /\ OracleInv => NoFalseFinding
  <2> SUFFICES ASSUME TypeOK, OracleInv, pc = "judge", faults = 0,
                      NEW s \in Signatures, both_completed => AsPromised(s)
               PROVE  ~any_finding(Verdict(s))
    BY DEF NoFalseFinding
  <2>1. ~seen.touched /\ keys = 0 /\ keysBefore = 0 /\ RollbackClean
    BY DEF OracleInv, HonestIsClean
  <2>2. isolated
    BY <2>1 DEF OracleInv, IsolationIsExact
  <2> QED
    BY <2>1, <2>2, HonestHasNoFinding
<1> QED
  BY <1>1, OracleInvariance, PTL

\* The process aborts exactly when the counters of its last case hold a
\* finding (fuzzer_dual_session.cpp:170-195).
THEOREM DualCountsItsAborts == Spec => []AbortMatchesCounters
<1>1. OracleInv => AbortMatchesCounters
  BY DEF OracleInv
<1> QED
  BY <1>1, OracleInvariance, PTL

\* A case counted as an applied alternating schedule, or with more than one
\* crossing, had both ceremonies under way at once
\* (dual_session.cpp:400-403, fuzzer_dual_session.cpp:63-72).
THEOREM AlternatingWasInterleaved == Spec => []AlternatingIsInterleaved
<1>1. TypeOK /\ OracleInv => AlternatingIsInterleaved
  <2> SUFFICES ASSUME TypeOK, OracleInv, pc = "judge", crossings > 1
               PROVE  seen.overlap
    BY DEF AlternatingIsInterleaved, OracleInv
  <2> QED
    BY DEF OracleInv, OneCrossingWithoutOverlap, Running
<1> QED
  BY <1>1, OracleInvariance, PTL
=============================================================================
