------------------------ MODULE SigningDriverProofs ------------------------
(***************************************************************************)
(* For any number of players, threshold, batch and number of faults: the   *)
(* types of the single-session programs, no finding against a library that *)
(* keeps its contract, no tampered case that goes on unchecked, counters   *)
(* that match the abort, and batches that are controlled.                  *)
(*                                                                         *)
(* Each property is about where a run ends; the inductive invariant says   *)
(* what holds on the way: whose call is next, how often the views of one   *)
(* round were mutated, that key stores change only by faults, and what a   *)
(* verdict means at the moment it is judged.                               *)
(***************************************************************************)
EXTENDS SigningDriver, FiniteSetTheorems, TLAPS

\* A set of numbers has the least element that Min names.
LEMMA MinIsLeast ==
    ASSUME NEW S \in SUBSET Nat, S # {}
    PROVE  Min(S) \in S /\ \A y \in S : Min(S) <= y
<1> DEFINE R == OpToRel(<, Nat)
<1>1. IsWellFoundedOn(R, Nat)
  BY NatLessThanWellFounded
<1>2. ASSUME NEW x \in Nat, NEW y \in Nat, y < x PROVE <<y, x>> \in R
  BY <1>2 DEF OpToRel
<1> HIDE DEF R
<1>3. PICK x \in S : \A y \in S : <<y, x>> \notin R
  BY <1>1, WFMin
<1>4. ASSUME NEW y \in S, ~(x <= y) PROVE FALSE
  <2>1. x \in Nat /\ y \in Nat /\ y < x
    BY <1>4
  <2>2. <<y, x>> \in R
    BY <1>2, <2>1
  <2>3. <<y, x>> \notin R
    BY <1>3
  <2> QED
    BY <2>2, <2>3
<1> QED
  BY <1>4 DEF Min

LEMMA MaxOfTwo ==
    ASSUME NEW a \in Nat, NEW b \in Nat
    PROVE  Max({a, b}) \in Nat /\ a <= Max({a, b}) /\ b <= Max({a, b})
  BY DEF Max

\* At least two players sign, and as many as the threshold says, so that the
\* configuration check of run() passes (driver.cpp:140-182).
LEMMA Parties ==
    ASSUME target \in Targets
    PROVE  /\ Ids \subseteq AllPlayers /\ Ids \subseteq Nat
           /\ Signers \subseteq Ids /\ {1, 2} \subseteq Signers
           /\ 0 \notin Signers
           /\ IsFiniteSet(Signers) /\ Cardinality(Signers) = Threshold
<1>1. /\ GeneralN \in Nat /\ ReachN \in Nat /\ ReachT \in Nat
      /\ GeneralN >= 2 /\ ReachT >= 2 /\ ReachT < ReachN
  BY DriverConstants
<1>2. PICK n \in Nat : AllPlayers = 1 .. n /\ GeneralN <= n /\ ReachN <= n
  BY <1>1, MaxOfTwo DEF AllPlayers
<1>3. CASE target = "reachability"
  <2>1. Ids = 1 .. ReachN /\ Signers = 1 .. ReachT /\ Threshold = ReachT
    BY <1>3 DEF Ids, Signers, Threshold
  <2>2. IsFiniteSet(1 .. ReachT) /\ Cardinality(1 .. ReachT) = ReachT
    BY <1>1, FS_Interval
  <2> QED
    BY <1>1, <1>2, <2>1, <2>2
<1>4. CASE target # "reachability"
  <2>1. Ids = 1 .. GeneralN /\ Signers = 1 .. GeneralN /\ Threshold = GeneralN
    BY <1>4 DEF Ids, Signers, Threshold
  <2>2. IsFiniteSet(1 .. GeneralN) /\ Cardinality(1 .. GeneralN) = GeneralN
    BY <1>1, FS_Interval
  <2> QED
    BY <1>1, <1>2, <2>1, <2>2
<1> QED
  BY <1>3, <1>4

\* The observer is the honest signer that is first in order.
LEMMA ObserverIsHonest ==
    ASSUME target \in Targets
    PROVE  /\ Honest \subseteq Signers /\ IsFiniteSet(Honest)
           /\ Cardinality(Honest) \in Nat
           /\ Observer \in Honest /\ \A p \in Honest : Observer <= p
<1>1. Honest \subseteq Signers /\ Honest # {} /\ Honest \subseteq Nat
  BY Parties DEF Honest
<1>2. IsFiniteSet(Honest)
  BY <1>1, Parties, FS_Subset
<1>3. Cardinality(Honest) \in Nat
  BY <1>2, FS_CardinalityType
<1>4. Observer \in Honest /\ \A p \in Honest : Observer <= p
  BY <1>1, MinIsLeast DEF Observer
<1> QED
  BY <1>1, <1>2, <1>3, <1>4

-----------------------------------------------------------------------------
(***************************************************************************)
(* The inductive invariant.                                                *)
(***************************************************************************)
Running == pc \in {"call", "oracles"}

NothingJudgedYet ==
    Running => /\ sigs = NoSigs /\ seen = NothingSeen
               /\ verdict = "none" /\ counted = "none"

SignerIsDue ==
    pc = "call" => signer \in Signers /\ (round = Rounds => signer = Observer)

\* The honest signers that had their call of the round.
Called == {p \in Honest : p < signer}

\* A view is mutated in the round after the mutation's, once for each honest
\* signer.
MutatedOncePerView ==
    pc = "call" =>
        /\ mutation = NoMutation \/ round <= mutation.round => applied = 0
        /\ round = mutation.round + 1 => applied <= Cardinality(Called)

KeysWithinFaults ==
    /\ \A p \in AllPlayers : keys[p] <= faults /\ keysAtStart[p] <= faults
    /\ harmed \cup harmedAtStart # {} => faults > 0

RecordIsDeleted == pc = "oracles" /\ faults = 0 => Observer \notin rec

\* The part of TamperedMeansChecked about the stores and the signatures.
Checked ==
    sigs # NoSigs => /\ keys[Observer] = keysAtStart[Observer]
                     /\ Observer \notin rec
                     /\ AsPromised(sigs)

VerdictIsEarned ==
    pc = "judge" =>
        /\ verdict # "none" /\ counted = "none"
        /\ verdict = "HARNESS-FAULT" => Control
        /\ verdict \in Findings => faults > 0 \/ seen.slow
        /\ seen.fatal => verdict = "CRASH"
        /\ verdict \in {"CLEAN-REJECT", "CLEAN-SIGN"} => Checked
        /\ verdict = "CLEAN-SIGN" =>
              KeysSign /\ keys[Observer] = keysAtStart[Observer]

StageIsDue ==
    /\ target \notin Batch => stage = "cases"
    /\ stage = "post" => cases = MaxCases
    /\ stage \in {"mid", "post"} => tally # {}

SmokeRejectsOnly ==
    target = "smoke" /\ pc \in {"idle", "call", "oracles", "judge", "pass"}
        => tally \subseteq {"CLEAN-REJECT"}

DriverInv ==
    /\ TypeOK
    /\ NothingJudgedYet /\ SignerIsDue /\ MutatedOncePerView
    /\ KeysWithinFaults /\ RecordIsDeleted /\ VerdictIsEarned
    /\ StageIsDue /\ SmokeRejectsOnly
    /\ NoFalseFinding /\ TamperedMeansChecked
    /\ AbortMatchesCounters /\ BatchIsControlled

-----------------------------------------------------------------------------
LEMMA InitDriver == Init => DriverInv
<1> SUFFICES ASSUME Init PROVE DriverInv
  OBVIOUS
<1>1. target \in Targets
  BY DEF Init
<1>2. TypeOK
  <2>1. 1 \in Ids /\ 0 <= Cardinality(Honest) /\ Cardinality(Honest) \in Nat
    BY <1>1, Parties, ObserverIsHonest
  <2>2. NoKeyChanged \in [AllPlayers -> 0 .. MaxFaults]
    BY DriverConstants DEF NoKeyChanged
  <2>3. NoSigs \in Signatures /\ NothingSeen \in [fatal : BOOLEAN, slow : BOOLEAN]
    BY DEF NoSigs, Signatures, NothingSeen
  <2>4. /\ pc \in {"idle"} /\ stage \in {"pre", "cases"}
        /\ attacker = NoAttacker /\ mutation = NoMutation
        /\ round \in 1 .. Rounds
    <3>1. stage \in {"pre", "cases"}
      BY DEF Init
    <3>2. round \in 1 .. Rounds
      BY DEF Init, Rounds
    <3> QED
      BY <3>1, <3>2 DEF Init
  <2> positiveR \in BOOLEAN
    BY Zenon DEF Init
  <2>5. /\ signer \in Ids /\ applied \in 0 .. Cardinality(Honest)
        /\ cases \in 0 .. MaxCases /\ faults \in 0 .. MaxFaults
    BY <2>1, DriverConstants DEF Init
  <2>6. {keys, keysAtStart} \subseteq [AllPlayers -> 0 .. MaxFaults]
    BY <2>2 DEF Init
  <2>7. rec \subseteq Signers /\ sigs \in Signatures
        /\ verdict = "none" /\ counted = "none" /\ tally = {}
        /\ seen \in [fatal : BOOLEAN, slow : BOOLEAN]
    BY <2>3 DEF Init
  <2>8. harmed = {} /\ harmedAtStart = {}
    BY DEF Init
  <2> QED
    BY <1>1, <2>4, <2>5, <2>6, <2>7, <2>8 DEF TypeOK
<1>3. \A p \in AllPlayers : keys[p] = 0 /\ keysAtStart[p] = 0
  BY DEF Init, NoKeyChanged
<1>4. KeysWithinFaults
  BY <1>3 DEF Init, KeysWithinFaults
<1>5. StageIsDue
  BY DEF Init, StageIsDue, Batch
<1> QED
  BY <1>2, <1>4, <1>5
  DEF Init, DriverInv, NothingJudgedYet, Running, SignerIsDue,
      MutatedOncePerView, RecordIsDeleted, VerdictIsEarned, SmokeRejectsOnly,
      NoFalseFinding, TamperedMeansChecked, AbortMatchesCounters,
      BatchIsControlled, Findings

\* The start of a ceremony, of a case or of a control.
LEMMA RunKeeps ==
    ASSUME DriverInv, pc = "idle",
           NEW a \in Signers \cup {NoAttacker},
           NEW m \in [round : 1 .. 4, op : {"change", "extra"}]
                        \cup {NoMutation},
           NEW pr \in BOOLEAN,
           a = NoAttacker => m = NoMutation,
           run(a, m, pr),
           UNCHANGED <<target, stage, keys, harmed, tally, faults>>,
           cases' \in 0 .. MaxCases,
           stage = "post" => cases' = cases
    PROVE  DriverInv'
<1>0. target \in Targets /\ target' = target
  BY DEF DriverInv, TypeOK
<1>1. Ids' = Ids /\ Signers' = Signers
  BY <1>0 DEF Ids, Signers
<1>2. /\ Ids \subseteq Nat /\ Signers \subseteq Ids /\ {1, 2} \subseteq Signers
      /\ Cardinality(Signers) = Threshold /\ 0 \notin Signers
  BY <1>0, Parties
<1>3. Signers # {a}
  BY <1>2
<1>4. /\ attacker' = a /\ mutation' = m /\ positiveR' = pr
      /\ round' = 1 /\ signer' = Min(Signers) /\ applied' = 0
      /\ rec' = {} /\ sigs' = NoSigs /\ counted' = "none"
      /\ keysAtStart' = keys /\ harmedAtStart' = harmed /\ pc' = "call" /\ verdict' = "none"
      /\ seen' = NothingSeen
  BY <1>2, <1>3 DEF run
<1>5. signer' \in Signers
  BY <1>2, <1>4, MinIsLeast
<1>6. /\ Cardinality(Honest') \in Nat /\ IsFiniteSet(Honest')
      /\ Cardinality(Called') \in Nat
  <2>1. Honest' \subseteq Signers /\ IsFiniteSet(Signers)
    BY <1>0, <1>1, Parties DEF Honest
  <2>2. IsFiniteSet(Honest')
    BY <2>1, FS_Subset
  <2>3. IsFiniteSet(Called')
    BY <2>2, FS_Subset DEF Called
  <2> QED
    BY <2>2, <2>3, FS_CardinalityType
<1>7. TypeOK'
  <2>1. attacker' \in Ids' \cup {NoAttacker} /\ signer' \in Ids'
    BY <1>1, <1>2, <1>4, <1>5
  <2>2. applied' \in 0 .. Cardinality(Honest')
    BY <1>4, <1>6
  <2>3. sigs' \in Signatures /\ seen' \in [fatal : BOOLEAN, slow : BOOLEAN]
    BY <1>4 DEF NoSigs, Signatures, NothingSeen
  <2> QED
    BY <1>4, <2>1, <2>2, <2>3 DEF DriverInv, TypeOK, Rounds
<1>8. NothingJudgedYet' /\ SignerIsDue'
  BY <1>1, <1>4, <1>5 DEF NothingJudgedYet, SignerIsDue, Rounds
<1>9. MutatedOncePerView'
  BY <1>4, <1>6 DEF MutatedOncePerView
<1>10. KeysWithinFaults'
  BY <1>4 DEF DriverInv, KeysWithinFaults
<1>11. RecordIsDeleted' /\ VerdictIsEarned' /\ BatchIsControlled'
  BY <1>4 DEF RecordIsDeleted, VerdictIsEarned, BatchIsControlled
<1>12. StageIsDue' /\ SmokeRejectsOnly'
  BY <1>0, <1>4 DEF DriverInv, StageIsDue, SmokeRejectsOnly
<1>13. NoFalseFinding' /\ TamperedMeansChecked' /\ AbortMatchesCounters'
  BY <1>4 DEF NoFalseFinding, TamperedMeansChecked, AbortMatchesCounters,
              Findings
<1> QED
  BY <1>7, <1>8, <1>9, <1>10, <1>11, <1>12, <1>13 DEF DriverInv

\* An input that is dropped at the door.
LEMMA DoorRejectKeeps ==
    ASSUME DriverInv, NEW written \in BOOLEAN, DoorReject(written)
    PROVE  DriverInv'
<1>1. /\ pc = "idle" /\ target \notin Batch /\ cases < MaxCases
      /\ pc' \in {"idle", "fail_closed"}
      /\ cases' = cases + 1
      /\ counted' = "none" /\ seen' = NothingSeen /\ verdict' = "none"
      /\ UNCHANGED <<target, stage, attacker, mutation, positiveR, round,
                     signer, applied, keys, keysAtStart, harmed, harmedAtStart, rec, sigs, tally,
                     faults>>
  BY DEF DoorReject, stores
<1>2. /\ Ids' = Ids /\ Signers' = Signers /\ Honest' = Honest
      /\ Observer' = Observer
  BY <1>1 DEF Ids, Signers, Honest, Observer
<1>3. TypeOK'
  <2>1. seen' \in [fatal : BOOLEAN, slow : BOOLEAN]
    BY <1>1 DEF NothingSeen
  <2>2. cases' \in 0 .. MaxCases
    BY <1>1, DriverConstants DEF DriverInv, TypeOK
  <2> QED
    BY <1>1, <1>2, <2>1, <2>2 DEF DriverInv, TypeOK
<1>4. TamperedMeansChecked'
  BY <1>1, <1>2
  DEF DriverInv, TamperedMeansChecked, NothingSeen, AsPromised
<1>5. StageIsDue' /\ SmokeRejectsOnly' /\ KeysWithinFaults'
  BY <1>1 DEF DriverInv, StageIsDue, SmokeRejectsOnly, KeysWithinFaults, Batch
<1>6. NoFalseFinding' /\ AbortMatchesCounters' /\ BatchIsControlled'
  BY <1>1 DEF NoFalseFinding, AbortMatchesCounters, BatchIsControlled, Findings
<1> QED
  BY <1>1, <1>3, <1>4, <1>5, <1>6
  DEF DriverInv, NothingJudgedYet, Running, SignerIsDue, MutatedOncePerView,
      RecordIsDeleted, VerdictIsEarned

\* One call of the library, whatever it does.
LEMMA CallKeeps ==
    ASSUME DriverInv,
           NEW result \in {"ok", "reject", "fatal"},
           NEW fault \in {"none", "keys", "harm", "hidden", "survive"},
           NEW p \in Ids, NEW mutated \in BOOLEAN,
           Call(result, fault, p, mutated)
    PROVE  DriverInv'
<1>0. /\ target \in Targets /\ pc = "call"
      /\ UNCHANGED <<target, attacker, mutation, positiveR, keysAtStart,
                     harmedAtStart, cases, stage, sigs, counted, tally>>
  BY DEF Call, input, DriverInv, TypeOK
<1>1. /\ Ids' = Ids /\ Signers' = Signers /\ Honest' = Honest
      /\ Observer' = Observer /\ (Control' <=> Control)
  BY <1>0 DEF Ids, Signers, Honest, Observer, Control
<1>2. /\ Ids \subseteq AllPlayers /\ Ids \subseteq Nat /\ Signers \subseteq Ids
      /\ Honest \subseteq Signers /\ IsFiniteSet(Honest)
      /\ Cardinality(Honest) \in Nat
      /\ Observer \in Honest /\ \A q \in Honest : Observer <= q
      /\ Signers # {}
  BY <1>0, Parties, ObserverIsHonest
<1>3. /\ signer \in Signers /\ signer \in Nat
      /\ round = Rounds => signer = Observer
  BY <1>0, <1>2 DEF DriverInv, SignerIsDue
<1>4. /\ faults' \in 0 .. MaxFaults /\ faults <= faults'
      /\ fault # "none" \/ result = "fatal" => faults' = faults + 1
      /\ faults \in Nat /\ faults' \in Nat
  BY <1>0, DriverConstants DEF Call, library_call, DriverInv, TypeOK
<1>5. /\ keys' \in [AllPlayers -> 0 .. MaxFaults]
      /\ \A q \in AllPlayers : keys'[q] <= faults'
  <2>1. CASE fault \notin {"keys", "harm"}
    <3>1. keys' = keys
      BY <1>0, <2>1 DEF Call, library_call
    <3> QED
      BY <1>4, <3>1, DriverConstants DEF DriverInv, TypeOK, KeysWithinFaults
  <2>2. CASE fault \in {"keys", "harm"}
    <3>1. keys' = [keys EXCEPT ![p] = @ + 1] /\ faults' = faults + 1
      BY <1>4, <2>2 DEF Call, library_call
    <3>2. \A q \in AllPlayers : keys[q] \in Nat /\ keys[q] <= faults
      BY DriverConstants DEF DriverInv, TypeOK, KeysWithinFaults
    <3>3. keys \in [AllPlayers -> 0 .. MaxFaults]
      BY DEF DriverInv, TypeOK
    <3>4. \A q \in AllPlayers :
             keys'[q] = IF q = p THEN keys[q] + 1 ELSE keys[q]
      BY <3>1, <3>3
    <3>5. \A q \in AllPlayers : keys'[q] \in 0 .. MaxFaults /\ keys'[q] <= faults'
      BY <1>4, <3>1, <3>2, <3>4, DriverConstants
    <3> QED
      BY <3>1, <3>3, <3>5
  <2> QED
    BY <2>1, <2>2
<1>6. KeysWithinFaults' /\ harmed' \subseteq AllPlayers
  <2>1. \A q \in AllPlayers : keysAtStart[q] \in Nat /\ keysAtStart[q] <= faults
    BY DriverConstants DEF DriverInv, TypeOK, KeysWithinFaults
  <2>2. /\ harmed' \subseteq AllPlayers
        /\ harmed' \cup harmedAtStart' # {} => faults' > 0
    <3>1. /\ harmed \cup harmedAtStart # {} => faults > 0
          /\ harmed \subseteq AllPlayers
      BY DEF DriverInv, KeysWithinFaults, TypeOK
    <3>2. p \in AllPlayers /\ harmedAtStart' = harmedAtStart
      BY <1>0, <1>2
    <3>3. CASE harmed' = harmed
      BY <1>4, <3>1, <3>2, <3>3
    <3>4. CASE harmed' = harmed \cup {p} /\ fault # "none"
      <4>1. faults' > 0
        BY <1>4, <3>4
      <4> QED
        BY <3>1, <3>2, <3>4, <4>1
    <3> QED
      BY <3>3, <3>4 DEF Call, library_call
  <2> QED
    BY <1>0, <1>4, <1>5, <2>1, <2>2 DEF KeysWithinFaults
<1>7. rec' = RecordAfter(result, fault) /\ rec' \subseteq Signers
  BY <1>0, <1>3 DEF Call, library_call, RecordAfter, DriverInv, TypeOK
<1>8. /\ seen' \in [fatal : BOOLEAN, slow : BOOLEAN]
      /\ seen'.fatal => result = "fatal"
      /\ seen' = NothingSeen \/ result = "fatal"
  <2>1. /\ seen' = [seen EXCEPT !.fatal = @ \/ result = "fatal"]
        /\ seen = [fatal |-> FALSE, slow |-> FALSE]
    BY <1>0 DEF Call, library_call, DriverInv, NothingJudgedYet, Running,
                NothingSeen
  <2>2. CASE result = "fatal"
    <3>1. seen' = [fatal |-> TRUE, slow |-> FALSE]
      BY <2>1, <2>2
    <3> QED
      BY <2>2, <3>1
  <2>3. CASE result # "fatal"
    <3>1. seen' = [fatal |-> FALSE, slow |-> FALSE]
      BY <2>1, <2>3
    <3> QED
      BY <3>1 DEF NothingSeen
  <2> QED
    BY <2>2, <2>3
<1>9. /\ applied \in Nat /\ applied' \in Nat
      /\ applied' = applied \/ (applied' = applied + 1 /\ Mutable)
  BY <1>0, <1>2 DEF Call, DriverInv, TypeOK
<1>10. /\ IsFiniteSet(Called) /\ Cardinality(Called) \in Nat
       /\ Cardinality(Called) <= Cardinality(Honest)
       /\ signer \in Honest =>
             /\ Cardinality(Called \cup {signer}) = Cardinality(Called) + 1
             /\ Cardinality(Called \cup {signer}) <= Cardinality(Honest)
  <2>1. Called \subseteq Honest /\ signer \notin Called
    BY <1>3 DEF Called
  <2>2. /\ IsFiniteSet(Called) /\ Cardinality(Called) \in Nat
        /\ Cardinality(Called) <= Cardinality(Honest)
    BY <1>2, <2>1, FS_Subset, FS_CardinalityType
  <2>3. Cardinality(Called \cup {signer}) = Cardinality(Called) + 1
    BY <2>1, <2>2, FS_AddElement
  <2>4. signer \in Honest => Called \cup {signer} \in SUBSET Honest
    BY <2>1
  <2>5. signer \in Honest =>
           Cardinality(Called \cup {signer}) <= Cardinality(Honest)
    BY <1>2, <2>4, FS_Subset
  <2> QED
    BY <2>2, <2>3, <2>5
<1>11. Mutable => /\ signer \in Honest /\ mutation # NoMutation
                  /\ round = mutation.round + 1
                  /\ applied <= Cardinality(Called)
  <2> SUFFICES ASSUME Mutable PROVE /\ signer \in Honest /\ mutation # NoMutation
                                    /\ round = mutation.round + 1
                                    /\ applied <= Cardinality(Called)
    OBVIOUS
  <2>1. mutation # NoMutation /\ mutation.round = round - 1 /\ signer # attacker
    BY DEF Mutable
  <2>2. mutation.round \in Nat /\ round \in Nat
    BY <2>1 DEF DriverInv, TypeOK, Rounds
  <2>3. round = mutation.round + 1
    BY <2>1, <2>2
  <2> QED
    BY <1>0, <1>3, <2>1, <2>3 DEF Honest, DriverInv, MutatedOncePerView
<1>12. applied' \in 0 .. Cardinality(Honest)
  BY <1>2, <1>9, <1>10, <1>11 DEF DriverInv, TypeOK
<1>13. CASE result # "ok"
  <2>1. pc' = "judge" /\ verdict' = Thrown(result) /\ UNCHANGED <<round, signer>>
    BY <1>13 DEF Call
  <2>2. /\ verdict' \in {"CRASH", "HARNESS-FAULT", "CLEAN-REJECT"}
        /\ verdict' = "CRASH" <=> result = "fatal"
        /\ verdict' = "HARNESS-FAULT" => Control
    BY <2>1 DEF Thrown
  <2>3. TypeOK'
    BY <1>0, <1>1, <1>4, <1>5, <1>6, <1>7, <1>8, <1>12, <2>1, <2>2
    DEF DriverInv, TypeOK, Findings
  <2>4. sigs' = NoSigs /\ counted' = "none"
    BY <1>0 DEF DriverInv, NothingJudgedYet, Running
  <2>5. VerdictIsEarned'
    BY <1>1, <1>4, <1>8, <2>2, <2>4 DEF VerdictIsEarned, Checked, Findings
  <2>6. StageIsDue' /\ SmokeRejectsOnly'
    BY <1>0, <2>1 DEF DriverInv, StageIsDue, SmokeRejectsOnly
  <2>7. AbortMatchesCounters'
    BY <2>1, <2>4 DEF AbortMatchesCounters, Findings
  <2> QED
    BY <1>6, <2>1, <2>3, <2>5, <2>6, <2>7
    DEF DriverInv, NothingJudgedYet, Running, SignerIsDue, MutatedOncePerView,
        RecordIsDeleted, NoFalseFinding, TamperedMeansChecked,
        BatchIsControlled
<1>14. CASE result = "ok"
  <2>1. /\ pc' = IF round = Rounds THEN "oracles" ELSE "call"
        /\ round' = IF round < Rounds /\ Later = {} THEN round + 1 ELSE round
        /\ signer' = IF round = Rounds THEN signer
                     ELSE IF Later # {} THEN Min(Later)
                     ELSE IF round = Rounds - 1 THEN Observer
                     ELSE Min(Signers)
        /\ verdict' = verdict
    BY <1>14 DEF Call
  <2>2. round \in 1 .. 5 /\ round' \in 1 .. 5
    BY <2>1 DEF DriverInv, TypeOK, Rounds
  <2>3. Later # {} => /\ Min(Later) \in Signers
                      /\ Min(Later) > signer
    <3>1. Later \in SUBSET Nat
      BY <1>2 DEF Later
    <3> QED
      BY <3>1, MinIsLeast DEF Later
  <2>4. signer' \in Signers /\ (pc' = "call" /\ round' = Rounds => signer' = Observer)
    <3>1. Min(Signers) \in Signers
      BY <1>2, MinIsLeast
    <3> QED
      BY <1>2, <1>3, <2>1, <2>2, <2>3, <3>1 DEF Rounds
  <2>5. /\ sigs' = NoSigs /\ counted' = "none" /\ verdict' = "none"
        /\ seen' = NothingSeen
    BY <1>0, <1>8, <1>14, <2>1
    DEF DriverInv, NothingJudgedYet, Running, NothingSeen
  <2>6. TypeOK'
    BY <1>0, <1>1, <1>2, <1>4, <1>5, <1>6, <1>7, <1>8, <1>12, <2>1, <2>2,
       <2>4
    DEF DriverInv, TypeOK, Rounds
  <2>7. NothingJudgedYet' /\ SignerIsDue'
    BY <1>1, <2>4, <2>5 DEF NothingJudgedYet, SignerIsDue
  <2>8. MutatedOncePerView'
    <3> SUFFICES ASSUME pc' = "call"
                 PROVE  /\ mutation = NoMutation \/ round' <= mutation.round
                              => applied' = 0
                        /\ round' = mutation.round + 1
                              => applied' <= Cardinality(Called')
      BY <1>0 DEF MutatedOncePerView
    <3>1. /\ mutation = NoMutation \/ round <= mutation.round => applied = 0
          /\ round = mutation.round + 1 => applied <= Cardinality(Called)
      BY <1>0 DEF DriverInv, MutatedOncePerView
    <3>2. mutation.round \in Nat
      BY DEF DriverInv, TypeOK, NoMutation
    <3>3. IsFiniteSet(Called') /\ Cardinality(Called') \in Nat
      <4>1. Called' \in SUBSET Honest
        BY <1>1 DEF Called
      <4> QED
        BY <1>2, <4>1, FS_Subset, FS_CardinalityType
    <3>4. round' \in {round, round + 1}
      BY <2>1
    <3>5. mutation = NoMutation \/ round' <= mutation.round => applied' = 0
      BY <1>9, <1>11, <2>2, <3>1, <3>2, <3>4
    <3>6. ASSUME round' = mutation.round + 1
          PROVE  applied' <= Cardinality(Called')
      <4>1. CASE round' = round + 1
        BY <1>9, <1>11, <2>2, <3>1, <3>2, <3>3, <3>6, <4>1
      <4>2. CASE round' = round
        <5>1. Later # {} /\ signer' = Min(Later)
          BY <2>1, <2>2, <4>2 DEF Rounds
        <5>2. signer < signer' /\ signer' \in Nat
          BY <1>2, <1>3, <2>3, <5>1
        <5>3. Called \subseteq Called' /\ (signer \in Honest => signer \in Called')
          <6>1. Called' = {q \in Honest : q < signer'}
            BY <1>1 DEF Called
          <6>2. ASSUME NEW q \in Called
                PROVE  q \in Honest /\ q < signer'
            <7>1. q \in Honest /\ q \in Nat /\ q < signer
              BY <1>2 DEF Called
            <7> QED
              BY <1>3, <5>2, <7>1
          <6> QED
            BY <5>2, <6>1, <6>2
        <5>4. Cardinality(Called) <= Cardinality(Called')
          BY <3>3, <5>3, FS_Subset
        <5>5. signer \in Honest => Cardinality(Called) + 1 <= Cardinality(Called')
          <6>1. signer \in Honest => Called \cup {signer} \in SUBSET Called'
            BY <5>3
          <6> QED
            BY <1>10, <3>3, <6>1, FS_Subset
        <5> QED
          BY <1>9, <1>10, <1>11, <3>1, <3>3, <3>6, <4>2, <5>4, <5>5
      <4> QED
        BY <3>4, <4>1, <4>2
    <3> QED
      BY <3>5, <3>6
  <2>9. RecordIsDeleted'
    <3> SUFFICES ASSUME pc' = "oracles", faults' = 0
                 PROVE  Observer \notin rec'
      BY <1>1 DEF RecordIsDeleted
    <3>1. round = Rounds /\ signer = Observer /\ fault = "none"
      BY <1>3, <1>4, <2>1
    <3> QED
      BY <1>7, <1>14, <3>1 DEF RecordAfter
  <2>10. StageIsDue' /\ SmokeRejectsOnly'
    BY <1>0, <2>1 DEF DriverInv, StageIsDue, SmokeRejectsOnly
  <2>11. AbortMatchesCounters'
    BY <2>1, <2>5 DEF AbortMatchesCounters, Findings
  <2> QED
    BY <1>6, <2>1, <2>6, <2>7, <2>8, <2>9, <2>10, <2>11
    DEF DriverInv, VerdictIsEarned, NoFalseFinding, TamperedMeansChecked,
        BatchIsControlled
<1> QED
  BY <1>13, <1>14

\* The oracles: a finding needs a fault or a slow ceremony, and a clean
\* signature means stores and signatures as promised.
LEMMA OraclesKeeps ==
    ASSUME DriverInv, NEW s \in Signatures, NEW slow \in BOOLEAN,
           Oracles(s, slow)
    PROVE  DriverInv'
<1>0. /\ target \in Targets /\ pc = "oracles" /\ pc' = "judge"
      /\ sigs' = s /\ verdict' = Verdict(s, slow)
      /\ UNCHANGED <<target, attacker, mutation, positiveR, keysAtStart,
                     harmedAtStart, cases,
                     stage, round, signer, applied, keys, harmed, rec, counted, tally>>
  BY DEF Oracles, input, stores, DriverInv, TypeOK
<1>1. /\ Ids' = Ids /\ Signers' = Signers /\ Honest' = Honest
      /\ Observer' = Observer /\ (Control' <=> Control)
      /\ (KeysSign' <=> KeysSign)
  BY <1>0 DEF Ids, Signers, Honest, Observer, Control, KeysSign
<1>2. /\ Ids \subseteq AllPlayers /\ Signers \subseteq Ids
      /\ Observer \in Signers
  BY <1>0, Parties, ObserverIsHonest
<1>3. /\ faults \in Nat /\ faults' \in 0 .. MaxFaults /\ faults <= faults'
      /\ ~AsPromised(s) /\ KeysSign => faults' > 0
      /\ AsPromised(s) => KeysSign
  BY DriverConstants DEF Oracles, DriverInv, TypeOK
<1>4. \A p \in AllPlayers : /\ keys[p] \in Nat /\ keys[p] <= faults
                            /\ keysAtStart[p] \in Nat /\ keysAtStart[p] <= faults
  BY DriverConstants DEF DriverInv, TypeOK, KeysWithinFaults
<1>5. /\ seen' \in [fatal : BOOLEAN, slow : BOOLEAN]
      /\ ~seen'.fatal /\ seen'.slow = slow
  <2>1. /\ seen' = [seen EXCEPT !.slow = slow]
        /\ seen = [fatal |-> FALSE, slow |-> FALSE]
    BY <1>0 DEF Oracles, DriverInv, NothingJudgedYet, Running, NothingSeen
  <2>2. seen' = [fatal |-> FALSE, slow |-> slow]
    BY <2>1
  <2> QED
    BY <2>2
<1>6. /\ ~KeyStoreUnchanged \/ RecordSurvives => faults > 0
      /\ ~KeysSign => faults > 0
  <2>1. faults = 0 => KeyStoreUnchanged /\ KeysSign
    BY <1>2, <1>4 DEF KeyStoreUnchanged, KeysSign, DriverInv, KeysWithinFaults
  <2>2. faults = 0 => ~RecordSurvives
    BY <1>0 DEF DriverInv, RecordIsDeleted, RecordSurvives
  <2> QED
    BY <1>3, <2>1, <2>2
<1>7. AsPromised(s) <=> /\ s.count /\ oracle_signature_valid(s)
                        /\ oracle_no_canary_forgery(s)
  <2>1. s.verifies \in SUBSET {"requested", "canary"}
    BY DEF Signatures
  <2>2. s.verifies = {"requested"} <=> /\ "requested" \in s.verifies
                                       /\ "canary" \notin s.verifies
    BY <2>1
  <2> QED
    BY <2>2 DEF AsPromised, oracle_signature_valid, oracle_no_canary_forgery
<1>8. /\ verdict' \in {"STATE-CORRUPTION", "INVALID-SIGNATURE", "TIMEOUT",
                       "CLEAN-SIGN"}
      /\ verdict' = "STATE-CORRUPTION" => ~KeyStoreUnchanged \/ RecordSurvives
      /\ verdict' = "INVALID-SIGNATURE" => ~AsPromised(s)
      /\ verdict' = "TIMEOUT" => slow
      /\ verdict' = "CLEAN-SIGN" => /\ KeyStoreUnchanged /\ ~RecordSurvives
                                    /\ AsPromised(s)
  BY <1>0, <1>7 DEF Verdict
<1>9. TypeOK'
  BY <1>0, <1>1, <1>3, <1>5, <1>8 DEF DriverInv, TypeOK, Findings
<1>10. KeysWithinFaults'
  <2>1. harmed \cup harmedAtStart # {} => faults > 0
    BY DEF DriverInv, KeysWithinFaults
  <2> QED
    BY <1>0, <1>3, <1>4, <2>1 DEF KeysWithinFaults
<1>11. VerdictIsEarned'
  <2>1. counted' = "none"
    BY <1>0 DEF DriverInv, NothingJudgedYet, Running
  <2>2. verdict' \in Findings => faults' > 0 \/ seen'.slow
    BY <1>3, <1>5, <1>6, <1>8 DEF Findings
  <2>3. verdict' = "CLEAN-SIGN" =>
           Checked' /\ KeysSign' /\ (keys[Observer] = keysAtStart[Observer])'
    <3>1. AsPromised(s) => AsPromised(sigs)'
      BY <1>0 DEF AsPromised
    <3> QED
      BY <1>0, <1>1, <1>3, <1>8, <3>1
      DEF Checked, KeyStoreUnchanged, RecordSurvives
  <2> QED
    BY <1>5, <1>8, <2>1, <2>2, <2>3 DEF VerdictIsEarned
<1>12. StageIsDue' /\ SmokeRejectsOnly'
  BY <1>0 DEF DriverInv, StageIsDue, SmokeRejectsOnly
<1>13. AbortMatchesCounters'
  BY <1>0 DEF DriverInv, NothingJudgedYet, Running, AbortMatchesCounters,
              Findings
<1> QED
  BY <1>0, <1>9, <1>10, <1>11, <1>12, <1>13
  DEF DriverInv, NothingJudgedYet, Running, SignerIsDue, MutatedOncePerView,
      RecordIsDeleted, NoFalseFinding, TamperedMeansChecked, BatchIsControlled

\* What the judgements of all programs have in common.
LEMMA JudgementKeeps ==
    ASSUME DriverInv, pc = "judge",
           UNCHANGED <<input, round, signer, applied, keys, harmed, rec, sigs, verdict,
                       faults, seen>>,
           pc' \in {"idle", "finding", "fail_closed", "pass", "fault", "review"},
           pc' = "finding" => verdict \in Findings,
           pc' \in {"idle", "pass"} /\ target # "runner" =>
               applied = 0 \/ verdict \in {"CLEAN-REJECT", "CLEAN-SIGN"},
           stage' \in {"pre", "cases", "mid", "post"},
           counted' \in Findings \cup {"none", "CLEAN-SIGN", "CLEAN-REJECT"},
           tally' \subseteq Findings \cup {"CLEAN-SIGN", "CLEAN-REJECT"},
           StageIsDue', SmokeRejectsOnly', AbortMatchesCounters',
           BatchIsControlled'
    PROVE  DriverInv'
<1>0. UNCHANGED <<target, attacker, mutation, positiveR, keysAtStart,
                     harmedAtStart, cases,
                  round, signer, applied, keys, harmed, rec, sigs, verdict, faults, seen>>
  BY DEF input
<1>1. /\ Ids' = Ids /\ Signers' = Signers /\ Honest' = Honest
      /\ Observer' = Observer
  BY <1>0 DEF Ids, Signers, Honest, Observer
<1>2. TypeOK'
  BY <1>0, <1>1 DEF DriverInv, TypeOK
<1>3. KeysWithinFaults'
  BY <1>0 DEF DriverInv, KeysWithinFaults
<1>4. NoFalseFinding'
  BY <1>0 DEF DriverInv, VerdictIsEarned, NoFalseFinding
<1>5. TamperedMeansChecked'
  <2> SUFFICES ASSUME pc' \in {"idle", "pass"}, target # "runner", applied > 0
               PROVE  /\ ~seen.fatal
                      /\ sigs # NoSigs =>
                            /\ keys[Observer] = keysAtStart[Observer]
                            /\ Observer \notin rec
                            /\ AsPromised(sigs)'
    BY <1>0, <1>1 DEF TamperedMeansChecked
  <2>1. applied # 0
    BY ObserverIsHonest DEF DriverInv, TypeOK
  <2>2. verdict \in {"CLEAN-REJECT", "CLEAN-SIGN"}
    BY <2>1
  <2>3. AsPromised(sigs) => AsPromised(sigs)'
    BY <1>0 DEF AsPromised
  <2> QED
    BY <2>2, <2>3 DEF DriverInv, VerdictIsEarned, Checked
<1> QED
  BY <1>2, <1>3, <1>4, <1>5
  DEF DriverInv, NothingJudgedYet, Running, SignerIsDue, MutatedOncePerView,
      RecordIsDeleted, VerdictIsEarned

LEMMA OutcomeOfVerdict ==
    /\ Outcome \in {"finding", "fail_closed", "idle"}
    /\ Outcome = "finding" <=> verdict \in Findings
    /\ Outcome = "idle" <=> verdict \notin Findings \cup {"HARNESS-FAULT"}
  BY DEF Outcome, Findings

LEMMA JudgeKeeps ==
    ASSUME DriverInv,
           \/ JudgeGeneral
           \/ \E written \in BOOLEAN : JudgeReachability(written)
           \/ JudgeControl \/ JudgeRunnerCase \/ JudgeSmokeCase
    PROVE  DriverInv'
<1>1. /\ pc = "judge"
      /\ UNCHANGED <<input, round, signer, applied, keys, harmed, rec, sigs, verdict,
                     faults, seen>>
  BY DEF JudgeGeneral, JudgeReachability, JudgeControl, JudgeRunnerCase,
         JudgeSmokeCase, stores
<1>2. UNCHANGED <<target, cases>>
  BY <1>1 DEF input
<1>3. /\ verdict \in Findings \cup {"CLEAN-SIGN", "CLEAN-REJECT",
                                    "HARNESS-FAULT"}
      /\ counted = "none" /\ (verdict = "HARNESS-FAULT" => Control)
      /\ verdict = "CLEAN-SIGN" =>
            KeysSign /\ keys[Observer] = keysAtStart[Observer]
      /\ stage \in {"pre", "cases", "mid", "post"}
      /\ tally \subseteq Findings \cup {"CLEAN-SIGN", "CLEAN-REJECT"}
      /\ target \notin Batch => stage = "cases"
      /\ stage = "post" => cases = MaxCases
      /\ stage \in {"mid", "post"} => tally # {}
      /\ target = "smoke" => tally \subseteq {"CLEAN-REJECT"}
  BY <1>1 DEF DriverInv, TypeOK, VerdictIsEarned, StageIsDue, SmokeRejectsOnly
<1>4. "none" \notin Findings /\ "CLEAN-SIGN" \notin Findings
      /\ "CLEAN-REJECT" \notin Findings /\ "HARNESS-FAULT" \notin Findings
  BY DEF Findings
<1>5. CASE JudgeGeneral
  <2>1. /\ target = "general"
        /\ pc' = IF applied = 0 THEN "idle" ELSE Outcome
        /\ UNCHANGED <<stage, counted, tally>>
    BY <1>5 DEF JudgeGeneral
  <2>2. StageIsDue' /\ SmokeRejectsOnly' /\ AbortMatchesCounters'
        /\ BatchIsControlled'
    BY <1>2, <1>3, <2>1, OutcomeOfVerdict
    DEF StageIsDue, SmokeRejectsOnly, AbortMatchesCounters, BatchIsControlled
  <2> QED
    BY <1>1, <1>3, <2>1, <2>2, OutcomeOfVerdict, JudgementKeeps
<1>6. ASSUME NEW written \in BOOLEAN, JudgeReachability(written)
      PROVE  DriverInv'
  <2>1. /\ target = "reachability" /\ UNCHANGED <<stage, tally>>
        /\ \/ pc' = "fail_closed" /\ counted' = counted
           \/ /\ verdict # "HARNESS-FAULT"
              /\ counted' = IF applied = 0 THEN "none" ELSE verdict
              /\ pc' = IF applied = 0 THEN "idle" ELSE Outcome
    BY <1>6 DEF JudgeReachability
  <2>2. StageIsDue' /\ SmokeRejectsOnly'
    BY <1>2, <1>3, <2>1 DEF StageIsDue, SmokeRejectsOnly
  <2>3. AbortMatchesCounters'
    BY <1>3, <1>4, <2>1, OutcomeOfVerdict DEF AbortMatchesCounters
  <2>4. BatchIsControlled'
    BY <2>1, OutcomeOfVerdict DEF BatchIsControlled
  <2> QED
    BY <1>1, <1>3, <2>1, <2>2, <2>3, <2>4, OutcomeOfVerdict, JudgementKeeps
<1>7. CASE JudgeControl
  <2>1. /\ target \in Batch /\ stage' = "cases" /\ UNCHANGED <<counted, tally>>
        /\ pc' = IF verdict # "CLEAN-SIGN" THEN "fault"
                 ELSE IF stage = "post" THEN "pass" ELSE "idle"
    BY <1>7 DEF JudgeControl
  <2>2. StageIsDue' /\ SmokeRejectsOnly'
    BY <1>2, <1>3, <2>1 DEF StageIsDue, SmokeRejectsOnly
  <2>3. AbortMatchesCounters'
    BY <1>2, <2>1 DEF AbortMatchesCounters, Batch
  <2>4. BatchIsControlled'
    <3> SUFFICES ASSUME pc' = "pass"
                 PROVE  /\ cases = MaxCases /\ KeysSign'
                        /\ (keys[Observer] = keysAtStart[Observer])'
                        /\ target = "smoke" => tally = {"CLEAN-REJECT"}
      BY <1>2, <2>1 DEF BatchIsControlled
    <3>1. stage = "post" /\ verdict = "CLEAN-SIGN"
      BY <2>1
    <3>2. KeysSign' /\ (keys[Observer] = keysAtStart[Observer])'
      <4>1. /\ Signers' = Signers /\ Observer' = Observer
            /\ UNCHANGED <<keys, keysAtStart, harmedAtStart>>
        BY <1>1 DEF input, Signers, Ids, Honest, Observer
      <4> QED
        BY <1>3, <3>1, <4>1 DEF KeysSign
    <3> QED
      BY <1>3, <3>1, <3>2
  <2> QED
    BY <1>1, <1>3, <2>1, <2>2, <2>3, <2>4, JudgementKeeps
<1>8. AfterCase \in {"post", "mid", "cases"}
      /\ (AfterCase = "post" => cases = MaxCases)
  BY DEF AfterCase
<1>9. CASE JudgeRunnerCase
  <2>1. /\ target = "runner" /\ ~Control
        /\ tally' = tally \cup {verdict} /\ pc' = "idle" /\ stage' = AfterCase
        /\ UNCHANGED counted
    BY <1>9 DEF JudgeRunnerCase
  <2>2. StageIsDue' /\ SmokeRejectsOnly' /\ AbortMatchesCounters'
        /\ BatchIsControlled'
    BY <1>2, <1>8, <2>1 DEF StageIsDue, SmokeRejectsOnly,
       AbortMatchesCounters, BatchIsControlled, Batch
  <2> QED
    BY <1>1, <1>3, <1>8, <2>1, <2>2, JudgementKeeps
<1>10. CASE JudgeSmokeCase
  <2>1. /\ target = "smoke" /\ ~Control
        /\ tally' = tally \cup {verdict} /\ stage' = AfterCase
        /\ pc' = IF applied = 0 \/ verdict = "HARNESS-FAULT" THEN "fault"
                 ELSE IF verdict \in Findings THEN "finding"
                 ELSE IF verdict = "CLEAN-SIGN" THEN "review" ELSE "idle"
        /\ UNCHANGED counted
    BY <1>10 DEF JudgeSmokeCase
  <2>2. StageIsDue' /\ AbortMatchesCounters' /\ BatchIsControlled'
    BY <1>2, <1>8, <2>1 DEF StageIsDue, AbortMatchesCounters,
       BatchIsControlled, Batch
  <2>3. pc' = "idle" => verdict = "CLEAN-REJECT"
    BY <1>3, <2>1
  <2>4. SmokeRejectsOnly'
    BY <1>2, <1>3, <2>1, <2>3 DEF SmokeRejectsOnly
  <2> QED
    BY <1>1, <1>3, <1>8, <2>1, <2>2, <2>3, <2>4, JudgementKeeps
<1> QED
  BY <1>5, <1>6, <1>7, <1>9, <1>10

LEMMA NextDriver ==
    ASSUME DriverInv, [Next]_vars
    PROVE  DriverInv'
<1>0. /\ target \in Targets /\ cases \in 0 .. MaxCases /\ MaxCases \in Nat
      /\ {1, 2} \subseteq Signers
  BY Parties, DriverConstants DEF DriverInv, TypeOK
<1>1. ASSUME NEW m \in Mutations
      PROVE  m \in [round : 1 .. 4, op : {"change", "extra"}]
  BY DEF Mutations, Cells, FIELDS
<1>2. ASSUME NEW a \in Signers, NEW m \in Mutations, NEW pr \in BOOLEAN,
             StartCase(a, m, pr)
      PROVE  DriverInv'
  <2>1. /\ pc = "idle" /\ run(a, m, pr) /\ cases' \in 0 .. MaxCases
        /\ target \notin Batch
        /\ UNCHANGED <<target, stage, keys, harmed, tally, faults>>
    BY <1>0, <1>2 DEF StartCase, stores
  <2>2. stage # "post" /\ a # NoAttacker
    BY <1>0, <2>1, Parties DEF DriverInv, StageIsDue, NoAttacker
  <2> QED
    BY <1>1, <2>1, <2>2, RunKeeps
<1>3. ASSUME NEW m \in Mutations, StartBatchCase(m)
      PROVE  DriverInv'
  <2>1. /\ pc = "idle" /\ run(2, m, FALSE)
        /\ UNCHANGED <<target, stage, keys, harmed, tally, faults>>
    BY <1>3, Zenon DEF StartBatchCase, stores
  <2>2. cases' \in 0 .. MaxCases /\ stage # "post"
    BY <1>0, <1>3 DEF StartBatchCase, stores
  <2>3. 2 \in Signers \cup {NoAttacker} /\ 2 # NoAttacker
    BY <1>0 DEF NoAttacker
  <2>4. m \in [round : 1 .. 4, op : {"change", "extra"}] \cup {NoMutation}
    BY <1>1
  <2> QED
    BY <2>1, <2>2, <2>3, <2>4, RunKeeps, Zenon
<1>4. CASE StartControl
  <2>1. /\ pc = "idle" /\ run(NoAttacker, NoMutation, FALSE)
        /\ UNCHANGED <<target, stage, keys, harmed, tally, cases, faults>>
    BY <1>4 DEF StartControl, stores
  <2> QED
    BY <1>0, <2>1, RunKeeps
<1>5. CASE UNCHANGED vars
  <2>1. UNCHANGED <<pc, stage, target, attacker, mutation, positiveR,
                    keysAtStart, harmedAtStart, cases, round, signer, applied,
                    keys, harmed, rec,
                    sigs, verdict, counted, tally, faults, seen>>
    BY <1>5 DEF vars, input, stores
  <2>2. /\ Ids' = Ids /\ Signers' = Signers /\ Honest' = Honest
        /\ Observer' = Observer /\ Called' = Called
        /\ (Control' <=> Control) /\ (KeysSign' <=> KeysSign)
        /\ (AsPromised(sigs)' <=> AsPromised(sigs))
    BY <2>1 DEF Ids, Signers, Honest, Observer, Called, Control, KeysSign,
                AsPromised
  <2>3. TypeOK'
    BY <2>1, <2>2 DEF DriverInv, TypeOK
  <2>4. NothingJudgedYet' /\ SignerIsDue' /\ MutatedOncePerView'
        /\ KeysWithinFaults' /\ RecordIsDeleted'
    BY <2>1, <2>2 DEF DriverInv, NothingJudgedYet, Running, SignerIsDue,
       MutatedOncePerView, KeysWithinFaults, RecordIsDeleted
  <2>5. VerdictIsEarned' /\ TamperedMeansChecked' /\ BatchIsControlled'
    BY <2>1, <2>2 DEF DriverInv, VerdictIsEarned, Checked,
       TamperedMeansChecked, BatchIsControlled
  <2> QED
    BY <2>1, <2>3, <2>4, <2>5 DEF DriverInv, StageIsDue, SmokeRejectsOnly,
       NoFalseFinding, AbortMatchesCounters
<1> QED
  BY <1>2, <1>3, <1>4, <1>5, DoorRejectKeeps, CallKeeps, OraclesKeeps,
     JudgeKeeps
  DEF Next

LEMMA DriverInvariance == Spec => []DriverInv
  BY InitDriver, NextDriver, PTL DEF Spec

-----------------------------------------------------------------------------
\* Type correctness, with at most one mutated view for each honest signer
\* (driver.cpp:262-275).
THEOREM DriverTypes == Spec => []TypeOK
<1>1. DriverInv => TypeOK
  BY DEF DriverInv
<1> QED
  BY <1>1, DriverInvariance, PTL

\* Whatever a library that keeps its contract rejects, and in whatever round,
\* no program reports a finding, unless the ceremony was slow
\* (driver.cpp:397-448).
THEOREM DriverHasNoFalseFinding == Spec => []NoFalseFinding
<1>1. DriverInv => NoFalseFinding
  BY DEF DriverInv
<1> QED
  BY <1>1, DriverInvariance, PTL

\* A fuzzer or smoke test that goes on after tampered messages has judged the
\* stores and the signatures sound (driver.cpp:397-440, fuzzer.cpp:161-177).
THEOREM DriverChecksWhatItTampers == Spec => []TamperedMeansChecked
<1>1. DriverInv => TamperedMeansChecked
  BY DEF DriverInv
<1> QED
  BY <1>1, DriverInvariance, PTL

\* The reachability target aborts exactly when its counters hold the finding
\* (fuzzer_reachability_v2.cpp:200-228).
THEOREM DriverCountsItsAborts == Spec => []AbortMatchesCounters
<1>1. DriverInv => AbortMatchesCounters
  BY DEF DriverInv
<1> QED
  BY <1>1, DriverInvariance, PTL

\* A batch of any length that exits 0 ran all of its cases, none of them left a
\* signer's key store unable to sign, and the smoke test saw nothing but
\* rejections (main.cpp:136-141, smoke.cpp:127-195).
THEOREM BatchesAreControlled == Spec => []BatchIsControlled
<1>1. DriverInv => BatchIsControlled
  BY DEF DriverInv
<1> QED
  BY <1>1, DriverInvariance, PTL
=============================================================================
