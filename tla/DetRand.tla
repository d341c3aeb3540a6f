------------------------------ MODULE DetRand ------------------------------
(***************************************************************************)
(* The randomness of a fuzzing process: det_rand.cpp replaces OpenSSL's    *)
(* generator by a seeded stream, every case reseeds it (driver.cpp:187,    *)
(* dual_session.cpp:340), and a fuzz target's start-up gates check that    *)
(* the replacement reaches the library (driver.cpp:498-579).               *)
(*                                                                         *)
(* A byte of the stream is named by where it comes from: key, block and    *)
(* position.  A byte of the system's generator is never seen again.        *)
(***************************************************************************)
EXTENDS Naturals, FiniteSets

CONSTANTS
    FuzzTargets, \* the fuzz targets that are run
    Inputs,      \* the inputs; an input determines its seed and label
    ProbeKeys,   \* the two seeds of rng_is_effective
    BlockSize,   \* SHA512_DIGEST_LENGTH
    MaxDraw,     \* bound on the bytes of one draw
    MaxBytes,    \* bound on the bytes that one case draws
    MaxCases     \* bound on the cases, over all processes

ASSUME RandConstants ==
    /\ BlockSize \in Nat \ {0} /\ MaxDraw \in Nat /\ MaxBytes \in Nat
    /\ FuzzTargets \subseteq {"general", "reachability", "dual"}
    /\ Inputs \cap ProbeKeys = {}

VARIABLES
    pc,         \* "start", "idle", "case" or "fail_closed"
    target,     \* the fuzz target of the process
    linked,     \* the library calls the libcrypto that the harness calls
    installed,  \* g_installed
    key, counter, block, used, drawn, seeded,   \* g_state
    fresh,      \* bytes that cases took from the system's generator
    input,      \* the input of the case
    cases,
    obs         \* observation: the bytes that the library drew for an input

rand_vars == <<pc, target, linked, installed, key, counter, block, used, drawn,
               seeded, fresh, input, cases, obs>>
g_state == <<key, counter, block, used, drawn, seeded>>

NoKey == CHOOSE k \in ProbeKeys : TRUE
NoBlock == [key |-> NoKey, counter |-> 0]

\* The static g_state of a new process.
NewState(k, c, b, u, d, s) ==
    k = NoKey /\ c = 0 /\ b = NoBlock /\ u = BlockSize /\ d = 0 /\ s = FALSE

RandInit ==
    /\ pc = "start" /\ target \in FuzzTargets /\ linked \in BOOLEAN
    /\ installed = FALSE
    /\ NewState(key, counter, block, used, drawn, seeded)
    /\ fresh = 0 /\ input \in Inputs /\ cases = 0 /\ obs = {}

(***************************************************************************)
(* The stream.                                                             *)
(***************************************************************************)

\* Mutant: the rest of the last block is still used.
reseed_with_label_KeepsBlock(k) ==
    /\ key' = k /\ counter' = 0 /\ drawn' = 0 /\ seeded' = TRUE
    /\ UNCHANGED <<block, used>>

reseed_with_label(k) ==
    /\ key' = k /\ counter' = 0 /\ drawn' = 0 /\ seeded' = TRUE
    /\ used' = BlockSize
    /\ UNCHANGED block

\* Mutant: the counter stays.
BlockAt_Stuck(i) ==
    IF used + i < BlockSize THEN block
    ELSE [key |-> key, counter |-> counter]

\* The block that holds the byte i positions ahead: the one in use, or one of
\* those that refill makes from the key and the next counters.
BlockAt(i) ==
    IF used + i < BlockSize THEN block
    ELSE [key |-> key,
          counter |-> counter + (used + i) \div BlockSize - 1]

ByteAt(i) == [block |-> BlockAt(i), pos |-> (used + i) % BlockSize]

Refills(n) == IF n = 0 THEN 0 ELSE (used + n - 1) \div BlockSize

\* det_bytes: copy what the block has left and refill as often as needed.
det_bytes(n) ==
    /\ seeded
    /\ block' = IF n = 0 THEN block ELSE BlockAt(n - 1)
    /\ used' = IF n = 0 THEN used ELSE ((used + n - 1) % BlockSize) + 1
    /\ counter' = counter + Refills(n)
    /\ drawn' = drawn + n
    /\ UNCHANGED <<key, seeded>>

(***************************************************************************)
(* The process.                                                            *)
(***************************************************************************)

\* Whether the library's draws come from the stream.
Captured == installed /\ linked

\* LLVMFuzzerInitialize of the general and of the reachability target: install
\* the stream, self_test, then rng_is_effective, which compares rounds of the
\* library under equal and under different seeds.  The probe leaves the stream
\* with the other seed and some bytes drawn.
InitializeSingle(n) ==
    /\ pc = "start" /\ target \in {"general", "reachability"}
    /\ installed' = TRUE
    /\ pc' = IF linked THEN "idle" ELSE "fail_closed"
    /\ LET last == CHOOSE k \in ProbeKeys : k # NoKey
       IN /\ key' = last /\ seeded' = TRUE /\ drawn' = n
          /\ counter' = (n + BlockSize - 1) \div BlockSize
          /\ used' = IF n % BlockSize = 0 THEN BlockSize ELSE n % BlockSize
          /\ block' = [key |-> last, counter |-> (n - 1) \div BlockSize]
    /\ UNCHANGED <<target, linked, fresh, input, cases, obs>>

\* LLVMFuzzerInitialize of the dual target, with its control run.
InitializeDual ==
    /\ pc = "start" /\ target = "dual"
    /\ pc' = "idle"
    /\ reseed_with_label(NoKey)
    /\ UNCHANGED <<target, linked, installed, fresh, input, cases, obs>>

\* run(): reseed with what the input determines.
StartCase(x) ==
    /\ pc = "idle" /\ cases < MaxCases
    /\ pc' = "case" /\ input' = x /\ cases' = cases + 1
    /\ reseed_with_label(x)
    /\ UNCHANGED <<target, linked, installed, fresh, obs>>

\* Bytes that this case drew before.
Position == Cardinality({o \in obs : o.case = cases})

\* The library draws n bytes, here or in another split of the same bytes.
Draw(n) ==
    /\ pc = "case" /\ Position + n <= MaxBytes
    /\ IF Captured
       THEN det_bytes(n) /\ UNCHANGED fresh
       ELSE fresh' = fresh + n /\ UNCHANGED g_state
    /\ obs' = obs \cup
         {[case |-> cases, input |-> input, at |-> Position + i,
           byte |-> IF Captured THEN <<"stream", ByteAt(i)>>
                    ELSE <<"system", fresh + i>>] : i \in 0 .. (n - 1)}
    /\ UNCHANGED <<pc, target, linked, installed, input, cases>>

EndCase ==
    /\ pc = "case"
    /\ pc' = "idle"
    /\ UNCHANGED <<target, linked, installed, g_state, fresh, input, cases, obs>>

\* The process ends and another one of the same lane, or a replay of an
\* artifact, starts.
Restart ==
    /\ pc \in {"idle", "case"} /\ cases < MaxCases
    /\ pc' = "start" /\ installed' = FALSE
    /\ key' = NoKey /\ counter' = 0 /\ block' = NoBlock
    /\ used' = BlockSize /\ drawn' = 0 /\ seeded' = FALSE
    /\ UNCHANGED <<target, linked, fresh, input, cases, obs>>

RandNext ==
    \/ \E n \in 1 .. MaxDraw : InitializeSingle(n)
    \/ InitializeDual
    \/ \E x \in Inputs : StartCase(x)
    \/ \E n \in 1 .. MaxDraw : Draw(n)
    \/ EndCase
    \/ Restart

RandSpec == RandInit /\ [][RandNext]_rand_vars

-----------------------------------------------------------------------------
(***************************************************************************)
(* Properties                                                              *)
(***************************************************************************)

Reproducible(os) ==
    \A o, p \in os : o.input = p.input /\ o.at = p.at => o.byte = p.byte

\* "case N is reproducible independently of how many draws case N-1 consumed"
\* (det_rand.h:37-38): in whatever process, after whatever other cases and in
\* whatever splits, a single-session target that starts gives the library the
\* same bytes for the same input.
CasesAreReproducible == target # "dual" => Reproducible(obs)

\* No byte of the stream is given to the library twice in a case, across the
\* boundaries of blocks (det_rand.cpp:47-57).
NoByteTwice ==
    \A o, p \in obs : o.case = p.case /\ o.byte = p.byte => o.at = p.at
=============================================================================
