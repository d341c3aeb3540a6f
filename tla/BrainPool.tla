----------------------------- MODULE BrainPool -----------------------------
(***************************************************************************)
(* What the ingest pipeline promises: branches are written once, and the   *)
(* pool only ever changes by consolidating, in one atomic step, branches   *)
(* of a single run and attempt.  Nothing is lost, replaced or invented.    *)
(***************************************************************************)
CONSTANTS
    Paths, Trees, Refs,   \* file paths, trees of them, ingest refs
    InitialPool,          \* the pool at the start
    NoBlob, NoTree,       \* an absent file, an absent branch
    Healthy(_),           \* the trees that readers accept
    SameWave(_,_)         \* two refs are of one run and attempt

VARIABLES pool, branch

Init == /\ pool = InitialPool
        /\ branch = [r \in Refs |-> NoTree]

Publish ==
    /\ \E r \in Refs : /\ branch[r] = NoTree
                       /\ branch'[r] \in Trees
                       /\ branch' = [branch EXCEPT ![r] = branch'[r]]
    /\ UNCHANGED pool

\* The pool keeps what it has, gains what the branches of W hold, and
\* nothing else.
Consolidate(W) ==
    /\ pool' # pool
    /\ W # {}
    /\ \A r, s \in W : SameWave(r, s)
    /\ \A r \in W : branch[r] # NoTree
    /\ \A x \in Paths :
          /\ pool[x] # NoBlob => pool'[x] = pool[x]
          /\ \A r \in W : branch[r][x] \in {NoBlob, pool'[x]}
          /\ pool'[x] = pool[x] \/ \E r \in W : branch[r][x] = pool'[x]
    /\ Healthy(pool')
    /\ UNCHANGED branch

Next == Publish \/ \E W \in SUBSET Refs : Consolidate(W)

Spec == Init /\ [][Next]_<<pool, branch>>
=============================================================================
