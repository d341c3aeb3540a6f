-------------------------- MODULE TelemetryProofs --------------------------
(***************************************************************************)
(* For any number of processes, indices and cells: claims are exclusive,   *)
(* documents close at every moment, what was acknowledged is durable, and  *)
(* evidence that is accepted covers every acknowledged case.               *)
(*                                                                         *)
(* The first part is about the sums of the validator.  Sum is a fold that  *)
(* chooses one element after the other; that it does not depend on the     *)
(* choice, grows by one when a counter does, and covers a second sum whose *)
(* terms it matches one to one, is shown by induction over the subsets of  *)
(* a finite set.  The induction is taken from the library's fact that      *)
(* strict inclusion is well founded there, with a set of good subsets in   *)
(* the place of a predicate.                                               *)
(***************************************************************************)
EXTENDS Telemetry, FiniteSetTheorems, TLAPS

\* Induction over the subsets of a finite set, in the first-order form that
\* the provers can instantiate.
LEMMA SubsetInduction ==
    ASSUME NEW S, IsFiniteSet(S), NEW Good,
           \A s \in SUBSET S :
              (\A t \in SUBSET s : t # s => t \in Good) => s \in Good
    PROVE  \A s \in SUBSET S : s \in Good
<1> DEFINE Bad == {s \in SUBSET S : s \notin Good}
<1> SUFFICES ASSUME Bad # {} PROVE FALSE
  OBVIOUS
<1>1. IsWellFoundedOn(StrictSubsetOrdering(S), SUBSET S)
  <2>1. IsWellFoundedOn(StrictSubsetOrdering(S), FiniteSubsetsOf(S))
    BY FS_StrictSubsetOrderingWellFounded
  <2>2. FiniteSubsetsOf(S) = SUBSET S
    BY FS_FiniteSubsetsOfFinite
  <2> QED
    BY <2>1, <2>2
<1>2. PICK s \in Bad : \A t \in Bad : <<t, s>> \notin StrictSubsetOrdering(S)
  <2> Bad \subseteq SUBSET S OBVIOUS
  <2> HIDE DEF Bad
  <2> QED BY <1>1, WFMin
<1>3. \A t \in SUBSET s : t # s => t \in Good
  BY <1>2 DEF StrictSubsetOrdering
<1> QED
  BY <1>2, <1>3

Pick(s) == CHOOSE x \in s : TRUE

LEMMA PickIn == ASSUME NEW s, s # {} PROVE Pick(s) \in s
  BY DEF Pick

\* h is the running sum of f on all subsets of s.
Adds(h, f, s) ==
    h = [t \in SUBSET s |-> IF t = {} THEN 0
                            ELSE f[Pick(t)] + h[t \ {Pick(t)}]]

LEMMA SumIsChosen ==
    ASSUME NEW f, NEW S
    PROVE  Sum(f, S) = (CHOOSE h : Adds(h, f, S))[S]
  BY DEF Sum, MapThenSumSet, MapThenFoldSet, Adds, Pick

LEMMA AddsAt ==
    ASSUME NEW f, NEW s, NEW h, Adds(h, f, s), NEW t \in SUBSET s
    PROVE  /\ h[t] = IF t = {} THEN 0 ELSE f[Pick(t)] + h[t \ {Pick(t)}]
           /\ t \ {Pick(t)} \in SUBSET s
  BY DEF Adds

\* Running sums agree wherever both are defined.
LEMMA AddsIsUnique ==
    ASSUME NEW S, IsFiniteSet(S), NEW f,
           NEW s \in SUBSET S, NEW g, Adds(g, f, s),
           NEW t \in SUBSET S, NEW h, Adds(h, f, t)
    PROVE  \A u \in SUBSET (s \cap t) : g[u] = h[u]
<1> DEFINE Good == {u \in SUBSET S : u \subseteq s \cap t => g[u] = h[u]}
<1>1. ASSUME NEW u \in SUBSET S, \A v \in SUBSET u : v # u => v \in Good
      PROVE  u \in Good
  <2> SUFFICES ASSUME u \subseteq s \cap t
               PROVE  g[u] = h[u]
    OBVIOUS
  <2> u \in SUBSET s /\ u \in SUBSET t
    OBVIOUS
  <2> HIDE DEF Good
  <2>1. CASE u = {}
    <3>1. g[u] = 0
      BY <2>1, AddsAt
    <3>2. h[u] = 0
      BY <2>1, AddsAt
    <3> QED
      BY <3>1, <3>2
  <2>2. CASE u # {}
    <3>1. Pick(u) \in u
      BY <2>2, PickIn
    <3>2. g[u \ {Pick(u)}] = h[u \ {Pick(u)}]
      BY <1>1, <3>1 DEF Good
    <3>3. g[u] = f[Pick(u)] + g[u \ {Pick(u)}]
      BY <2>2, AddsAt
    <3>4. h[u] = f[Pick(u)] + h[u \ {Pick(u)}]
      BY <2>2, AddsAt
    <3> QED
      BY <3>2, <3>3, <3>4
  <2> QED
    BY <2>1, <2>2
<1>2. \A u \in SUBSET S : u \in Good
  <2> HIDE DEF Good
  <2> QED
    BY <1>1, SubsetInduction
<1> QED
  BY <1>2

\* The running sum exists, and is a natural number everywhere.
LEMMA AddsExists ==
    ASSUME NEW S, IsFiniteSet(S), NEW f, \A x \in S : f[x] \in Nat
    PROVE  \A s \in SUBSET S :
              \E h \in [SUBSET s -> Nat] : Adds(h, f, s)
<1> DEFINE Good == {s \in SUBSET S :
                      \E h \in [SUBSET s -> Nat] : Adds(h, f, s)}
<1>1. ASSUME NEW s \in SUBSET S, \A t \in SUBSET s : t # s => t \in Good
      PROVE  s \in Good
  <2> DEFINE IsSum(u, v) == \E h \in [SUBSET u -> Nat] :
                               Adds(h, f, u) /\ v = h[u]
             val == [u \in SUBSET s |-> CHOOSE v : IsSum(u, v)]
             H == [t \in SUBSET s |-> IF t = {} THEN 0
                                      ELSE f[Pick(t)] + val[t \ {Pick(t)}]]
  <2>1. ASSUME NEW u \in SUBSET s, u # s
        PROVE  IsSum(u, val[u])
    <3>1. PICK h \in [SUBSET u -> Nat] : Adds(h, f, u)
      BY <1>1, <2>1
    <3>2. IsSum(u, h[u])
      BY <3>1
    <3> HIDE DEF IsSum
    <3> QED
      BY <3>2
  <2>2. ASSUME NEW u \in SUBSET s, u # s
        PROVE  H[u] = val[u] /\ val[u] \in Nat
    <3>1. PICK h \in [SUBSET u -> Nat] : Adds(h, f, u) /\ val[u] = h[u]
      BY <2>1, <2>2
    <3>2. CASE u = {}
      BY <3>1, <3>2, AddsAt
    <3>3. CASE u # {}
      <4> DEFINE w == u \ {Pick(u)}
      <4>1. w \in SUBSET u /\ w # s /\ w \in SUBSET s
        BY <3>3, PickIn
      <4>2. PICK g \in [SUBSET w -> Nat] : Adds(g, f, w) /\ val[w] = g[w]
        BY <2>1, <4>1
      <4>3. g[w] = h[w]
        BY <3>1, <4>1, <4>2, AddsIsUnique
      <4>4. h[u] = f[Pick(u)] + h[w]
        BY <3>1, <3>3, AddsAt
      <4>5. H[u] = f[Pick(u)] + val[w]
        BY <3>3
      <4> QED
        BY <3>1, <4>2, <4>3, <4>4, <4>5
    <3> QED
      BY <3>2, <3>3
  <2>3. ASSUME NEW t \in SUBSET s, t # {}
        PROVE  /\ t \ {Pick(t)} \in SUBSET s /\ t \ {Pick(t)} # s
               /\ f[Pick(t)] \in Nat
    BY <2>3, PickIn
  <2>4. H \in [SUBSET s -> Nat]
    <3>1. ASSUME NEW t \in SUBSET s, t # {}
          PROVE  f[Pick(t)] + val[t \ {Pick(t)}] \in Nat
      <4> HIDE DEF val
      <4>1. val[t \ {Pick(t)}] \in Nat
        BY <2>2, <2>3, <3>1
      <4> QED
        BY <2>3, <3>1, <4>1
    <3> HIDE DEF val
    <3> QED
      BY <3>1
  <2>5. Adds(H, f, s)
    <3>1. ASSUME NEW t \in SUBSET s, t # {}
          PROVE  val[t \ {Pick(t)}] = H[t \ {Pick(t)}]
      <4> HIDE DEF val, H
      <4> QED
        BY <2>2, <2>3, <3>1
    <3> DEFINE body(h) == [t \in SUBSET s |->
                             IF t = {} THEN 0
                             ELSE f[Pick(t)] + h[t \ {Pick(t)}]]
    <3>2. H = body(H)
      <4>1. ASSUME NEW t \in SUBSET s
            PROVE  H[t] = body(H)[t]
        <5> HIDE DEF val
        <5>1. CASE t = {}
          BY <5>1
        <5>2. CASE t # {}
          <6>1. H[t] = f[Pick(t)] + val[t \ {Pick(t)}]
            BY <5>2
          <6>2. body(H)[t] = f[Pick(t)] + H[t \ {Pick(t)}]
            <7> HIDE DEF H
            <7> QED
              BY <5>2
          <6> HIDE DEF H
          <6> QED
            BY <3>1, <5>2, <6>1, <6>2
        <5> QED
          BY <5>1, <5>2
      <4>2. H = [t \in SUBSET s |-> H[t]]
        <5> HIDE DEF val
        <5> QED
          OBVIOUS
      <4>3. body(H) = [t \in SUBSET s |-> body(H)[t]]
        <5> HIDE DEF H
        <5> QED
          OBVIOUS
      <4> HIDE DEF H, body
      <4> QED
        BY <4>1, <4>2, <4>3
    <3> HIDE DEF H
    <3> QED
      BY <3>2 DEF Adds
  <2> HIDE DEF H
  <2> QED
    BY <2>4, <2>5
<1>2. \A s \in SUBSET S : s \in Good
  <2> HIDE DEF Good
  <2> QED
    BY <1>1, SubsetInduction
<1> QED
  BY <1>2

\* One element out of the sum: the one that the fold takes first.
LEMMA SumUnfolds ==
    ASSUME NEW S, IsFiniteSet(S), NEW f, \A x \in S : f[x] \in Nat
    PROVE  /\ Sum(f, S) \in Nat
           /\ S = {} => Sum(f, S) = 0
           /\ S # {} => Sum(f, S) = f[Pick(S)] + Sum(f, S \ {Pick(S)})
<1> DEFINE It(T) == CHOOSE h : Adds(h, f, T)
<1>1. ASSUME NEW T \in SUBSET S
      PROVE  Adds(It(T), f, T) /\ Sum(f, T) = It(T)[T]
  <2>1. \E h : Adds(h, f, T)
    BY AddsExists
  <2> QED
    BY <2>1, SumIsChosen
<1>2. PICK h \in [SUBSET S -> Nat] : Adds(h, f, S)
  BY AddsExists
<1> HIDE DEF It
<1>3. Sum(f, S) = h[S]
  <2>1. It(S)[S] = h[S]
    BY <1>1, <1>2, AddsIsUnique
  <2> QED
    BY <1>1, <2>1
<1>4. ASSUME S # {}
      PROVE  Sum(f, S \ {Pick(S)}) = h[S \ {Pick(S)}]
  <2> DEFINE T == S \ {Pick(S)}
  <2>1. Adds(It(T), f, T) /\ Sum(f, T) = It(T)[T]
    BY <1>1
  <2>2. It(T)[T] = h[T]
    BY <1>2, <2>1, AddsIsUnique
  <2> QED
    BY <2>1, <2>2
<1>5. h[S] = IF S = {} THEN 0 ELSE f[Pick(S)] + h[S \ {Pick(S)}]
  BY <1>2, AddsAt
<1> QED
  BY <1>2, <1>3, <1>4, <1>5

\* ... and any other: the order of the fold does not matter.
LEMMA SumRemoves ==
    ASSUME NEW S, IsFiniteSet(S), NEW f, \A x \in S : f[x] \in Nat
    PROVE  \A x \in S : Sum(f, S) = f[x] + Sum(f, S \ {x})
<1> DEFINE Good == {s \in SUBSET S :
                      \A x \in s : Sum(f, s) = f[x] + Sum(f, s \ {x})}
<1>1. ASSUME NEW s \in SUBSET S, \A t \in SUBSET s : t # s => t \in Good
      PROVE  s \in Good
  <2> SUFFICES ASSUME NEW x \in s
               PROVE  Sum(f, s) = f[x] + Sum(f, s \ {x})
    OBVIOUS
  <2> DEFINE y == Pick(s)
             u == s \ {x}
             v == s \ {y}
             w == s \ {x, y}
  <2>1. y \in s
    BY PickIn
  <2>2. \A t \in SUBSET s : IsFiniteSet(t) /\ \A z \in t : f[z] \in Nat
    BY FS_Subset
  <2>3. Sum(f, s) = f[y] + Sum(f, v)
    BY <2>2, SumUnfolds
  <2>4. CASE x = y
    BY <2>3, <2>4
  <2>5. CASE x # y
    <3>1. u \in Good /\ v \in Good
      <4> HIDE DEF Good
      <4> QED
        BY <1>1, <2>1
    <3>2. Sum(f, v) = f[x] + Sum(f, v \ {x})
      BY <2>5, <3>1
    <3>3. Sum(f, u) = f[y] + Sum(f, u \ {y})
      BY <2>1, <2>5, <3>1
    <3>4. v \ {x} = w /\ u \ {y} = w
      OBVIOUS
    <3>5. Sum(f, w) \in Nat
      BY <2>2, SumUnfolds
    <3>6. f[x] \in Nat /\ f[y] \in Nat
      BY <2>1
    <3> HIDE DEF y, u, v, w
    <3>7. Sum(f, s) = f[x] + Sum(f, u)
      BY <2>3, <3>2, <3>3, <3>4, <3>5, <3>6
    <3> QED
      BY <3>7 DEF u
  <2> QED
    BY <2>4, <2>5
<1>2. \A s \in SUBSET S : s \in Good
  <2> HIDE DEF Good
  <2> QED
    BY <1>1, SubsetInduction
<1> QED
  BY <1>2

\* A sum depends on nothing but the values that it adds.
LEMMA SumAgrees ==
    ASSUME NEW S, IsFiniteSet(S), NEW f, NEW g,
           \A x \in S : f[x] \in Nat /\ g[x] = f[x]
    PROVE  Sum(f, S) = Sum(g, S)
<1> DEFINE Good == {s \in SUBSET S : Sum(f, s) = Sum(g, s)}
<1>1. ASSUME NEW s \in SUBSET S, \A t \in SUBSET s : t # s => t \in Good
      PROVE  s \in Good
  <2>1. IsFiniteSet(s) /\ \A x \in s : f[x] \in Nat /\ g[x] \in Nat
    BY FS_Subset
  <2>2. CASE s = {}
    <3>1. Sum(f, s) = 0
      BY <2>1, <2>2, SumUnfolds
    <3>2. Sum(g, s) = 0
      BY <2>1, <2>2, SumUnfolds
    <3> QED
      BY <3>1, <3>2
  <2>3. CASE s # {}
    <3>1. Pick(s) \in s
      BY <2>3, PickIn
    <3>2. Sum(f, s) = f[Pick(s)] + Sum(f, s \ {Pick(s)})
      BY <2>1, <2>3, SumUnfolds
    <3>3. Sum(g, s) = g[Pick(s)] + Sum(g, s \ {Pick(s)})
      BY <2>1, <2>3, SumUnfolds
    <3>4. s \ {Pick(s)} \in Good
      <4> HIDE DEF Good
      <4> QED
        BY <1>1, <3>1
    <3> QED
      BY <3>1, <3>2, <3>3, <3>4
  <2> QED
    BY <2>2, <2>3
<1>2. \A s \in SUBSET S : s \in Good
  <2> HIDE DEF Good
  <2> QED
    BY <1>1, SubsetInduction
<1> QED
  BY <1>2

\* A sum covers another if each term of the other that is not zero has a
\* term of its own that is as large.
LEMMA SumCovers ==
    ASSUME NEW P, IsFiniteSet(P), NEW a, \A p \in P : a[p] \in Nat,
           NEW J, IsFiniteSet(J), NEW e, \A i \in J : e[i] \in Nat,
           NEW j,
           \A p \in P : a[p] > 0 => j[p] \in J /\ a[p] <= e[j[p]],
           \A p, q \in P : a[p] > 0 /\ a[q] > 0 /\ p # q => j[p] # j[q]
    PROVE  Sum(a, P) <= Sum(e, J)
<1> DEFINE Fits(s, t) == \A p \in s : a[p] > 0 => j[p] \in t
           Good == {s \in SUBSET P :
                      \A t \in SUBSET J : Fits(s, t) => Sum(a, s) <= Sum(e, t)}
<1>1. ASSUME NEW s \in SUBSET P, \A t \in SUBSET s : t # s => t \in Good
      PROVE  s \in Good
  <2> SUFFICES ASSUME NEW t \in SUBSET J, Fits(s, t)
               PROVE  Sum(a, s) <= Sum(e, t)
    OBVIOUS
  <2>1. /\ IsFiniteSet(s) /\ \A p \in s : a[p] \in Nat
        /\ IsFiniteSet(t) /\ \A i \in t : e[i] \in Nat
    BY FS_Subset
  <2>2. Sum(e, t) \in Nat
    BY <2>1, SumUnfolds
  <2>3. CASE s = {}
    <3>1. Sum(a, s) = 0
      BY <2>1, <2>3, SumUnfolds
    <3> QED
      BY <2>2, <3>1
  <2>4. CASE s # {}
    <3> DEFINE x == Pick(s)
               s1 == s \ {x}
    <3>1. x \in s /\ x \in P /\ a[x] \in Nat
      BY <2>4, PickIn
    <3>2. Sum(a, s) = a[x] + Sum(a, s1)
      BY <2>1, <2>4, SumUnfolds
    <3>3. \A t1 \in SUBSET J : Fits(s1, t1) => Sum(a, s1) <= Sum(e, t1)
      <4>1. s1 \in Good
        <5> HIDE DEF Good
        <5> QED
          BY <1>1, <3>1
      <4> QED
        BY <4>1
    <3>4. Sum(a, s1) \in Nat
      <4>1. IsFiniteSet(s1) /\ \A p \in s1 : a[p] \in Nat
        BY <2>1, FS_RemoveElement
      <4> HIDE DEF s1
      <4> QED
        BY <4>1, SumUnfolds
    <3>5. CASE a[x] = 0
      <4>1. Fits(s1, t)
        OBVIOUS
      <4>2. Sum(a, s1) <= Sum(e, t)
        <5> HIDE DEF s1, Fits
        <5> QED
          BY <3>3, <4>1
      <4> HIDE DEF s1, x, Fits
      <4> QED
        BY <2>2, <3>2, <3>4, <3>5, <4>2
    <3>6. CASE a[x] > 0
      <4>1. j[x] \in t /\ a[x] <= e[j[x]] /\ e[j[x]] \in Nat
        BY <3>1, <3>6
      <4>2. Sum(e, t) = e[j[x]] + Sum(e, t \ {j[x]})
        BY <2>1, <4>1, SumRemoves
      <4>3. Fits(s1, t \ {j[x]})
        BY <3>1, <3>6
      <4>4. Sum(a, s1) <= Sum(e, t \ {j[x]})
        <5> HIDE DEF s1, Fits
        <5> QED
          BY <3>3, <4>3
      <4>5. Sum(e, t \ {j[x]}) \in Nat
        <5>1. IsFiniteSet(t \ {j[x]}) /\ \A i \in t \ {j[x]} : e[i] \in Nat
          BY <2>1, FS_RemoveElement
        <5> QED
          BY <5>1, SumUnfolds
      <4> HIDE DEF s1, x, Fits
      <4> QED
        BY <3>1, <3>2, <3>4, <4>1, <4>2, <4>4, <4>5
    <3> QED
      BY <3>1, <3>5, <3>6
  <2> QED
    BY <2>3, <2>4
<1>2. \A s \in SUBSET P : s \in Good
  <2> HIDE DEF Good
  <2> QED
    BY <1>1, SubsetInduction
<1>3. Fits(P, J)
  OBVIOUS
<1> QED
  BY <1>2, <1>3

\* One more of one term is one more of the sum.
LEMMA SumBumps ==
    ASSUME NEW S, IsFiniteSet(S), NEW f \in [S -> Nat], NEW c \in S
    PROVE  Sum([f EXCEPT ![c] = @ + 1], S) = Sum(f, S) + 1
<1> DEFINE g == [f EXCEPT ![c] = @ + 1]
           T == S \ {c}
<1>1. /\ \A x \in S : f[x] \in Nat /\ g[x] \in Nat
      /\ \A x \in T : f[x] \in Nat /\ g[x] = f[x]
      /\ g[c] = f[c] + 1
  OBVIOUS
<1>2. IsFiniteSet(T)
  BY FS_RemoveElement
<1> HIDE DEF g
<1>3. Sum(f, S) = f[c] + Sum(f, T)
  BY <1>1, SumRemoves
<1>4. Sum(g, S) = g[c] + Sum(g, T)
  BY <1>1, SumRemoves
<1> HIDE DEF T
<1>5. Sum(f, T) = Sum(g, T)
  BY <1>1, <1>2, SumAgrees
<1>6. Sum(f, T) \in Nat
  BY <1>1, <1>2, SumUnfolds
<1>7. Sum(g, S) = Sum(f, S) + 1
  BY <1>1, <1>3, <1>4, <1>5, <1>6
<1> QED
  BY <1>7 DEF g

-----------------------------------------------------------------------------
(***************************************************************************)
(* The inductive invariant.                                                *)
(***************************************************************************)
Writing == {"publishing", "written"}
Leaving == {"leaving", "left"}
Before == {"unborn", "configured", "claiming"}

\* A process that holds the index it names.
Owns(p) == pc[p] \in {"ready"} \cup Writing \cup Leaving \/ mem[p].execs > 0

OwnersHoldClaims ==
    /\ \A p \in Procs : Owns(p) => job[p] \in claims
    /\ \A p, q \in Procs : p # q /\ Owns(p) /\ Owns(q) => job[p] # job[q]

\* How far the acknowledgements of a process are behind its counters.
CountersLead ==
    \A p \in Procs :
        /\ pc[p] \in Before => mem[p].execs = 0
        /\ pc[p] \in {"ready"} \cup Leaving => mem[p].execs = acked[p]
        /\ pc[p] \in Writing => mem[p].execs = acked[p] + 1
        /\ acked[p] <= mem[p].execs

AcknowledgedIsWritten ==
    \A p \in Procs : acked[p] > 0 =>
        docs[job[p]].execs \in {acked[p], acked[p] + 1}

MemoryCloses == \A p \in Procs : Closes(mem[p])

\* Once the sanitiser has run, nothing does.
EvidenceIsLast ==
    evidence.st # "pending" => \A p \in Procs : ~Alive(p)

TelemetryInv ==
    /\ TypeOK
    /\ OwnersHoldClaims /\ CountersLead /\ AcknowledgedIsWritten
    /\ MemoryCloses /\ DocumentsClose
    /\ EvidenceIsLast /\ EvidenceIsComplete

LEMMA CellsAreFinite == IsFiniteSet(Cells)
  BY TelemetryConstants

LEMMA TotalIsNat ==
    ASSUME NEW f \in [Cells -> Nat]
    PROVE  Total(f) \in Nat
  BY CellsAreFinite, SumUnfolds DEF Total

LEMMA TotalBumps ==
    ASSUME NEW f \in [Cells -> Nat], NEW c \in Cells
    PROVE  /\ Bump(f, c) \in [Cells -> Nat]
           /\ Total(Bump(f, c)) = Total(f) + 1
           /\ \A d \in Cells : Bump(f, c)[d] = IF d = c THEN f[c] + 1 ELSE f[d]
<1>1. Sum([f EXCEPT ![c] = @ + 1], Cells) = Sum(f, Cells) + 1
  BY CellsAreFinite, SumBumps
<1>2. Total(Bump(f, c)) = Total(f) + 1
  BY <1>1 DEF Total, Bump
<1>3. /\ Bump(f, c) \in [Cells -> Nat]
      /\ \A d \in Cells : Bump(f, c)[d] = IF d = c THEN f[c] + 1 ELSE f[d]
  BY DEF Bump
<1> QED
  BY <1>2, <1>3

\* All counters zero: a process that has counted nothing.
LEMMA ZeroCloses == Zero \in Counters /\ Closes(Zero)
<1> DEFINE z == [c \in Cells |-> 0]
<1>1. Zero \in Counters
  BY DEF Zero, Counters
<1>2. Total(z) = 0
  <2> DEFINE Good == {s \in SUBSET Cells : Sum(z, s) = 0}
  <2>1. ASSUME NEW s \in SUBSET Cells, \A t \in SUBSET s : t # s => t \in Good
        PROVE  s \in Good
    <3>1. IsFiniteSet(s) /\ \A x \in s : z[x] \in Nat
      BY CellsAreFinite, FS_Subset
    <3>2. CASE s = {}
      <4> HIDE DEF z
      <4> QED
        BY <3>1, <3>2, SumUnfolds
    <3>3. CASE s # {}
      <4>1. Pick(s) \in s /\ z[Pick(s)] = 0
        BY <3>3, PickIn
      <4>2. Sum(z, s) = z[Pick(s)] + Sum(z, s \ {Pick(s)})
        <5> HIDE DEF z
        <5> QED
          BY <3>1, <3>3, SumUnfolds
      <4>3. s \ {Pick(s)} \in Good
        <5> HIDE DEF Good
        <5> QED
          BY <2>1, <4>1
      <4> HIDE DEF z
      <4> QED
        BY <4>1, <4>2, <4>3
    <3> QED
      BY <3>2, <3>3
  <2>2. \A s \in SUBSET Cells : s \in Good
    <3> HIDE DEF Good
    <3> QED
      BY <2>1, CellsAreFinite, SubsetInduction
  <2> HIDE DEF z
  <2> QED
    BY <2>2 DEF Total
<1>3. /\ Zero.execs = 0 /\ Zero.door_rejects = 0 /\ Zero.decoded = 0
      /\ Zero.verdicts = 0 /\ Zero.selected = z /\ Zero.applied = z
      /\ Zero.not_applied = z
  BY DEF Zero
<1>4. \A c \in Cells : z[c] = 0
  OBVIOUS
<1> HIDE DEF z
<1> QED
  BY <1>1, <1>2, <1>3, <1>4 DEF Closes

\* A case that was rejected at the door (telemetry_v2.cpp:233-243).
LEMMA DoorRejectCloses ==
    ASSUME NEW m \in Counters, Closes(m)
    PROVE  /\ CountDoorReject(m) \in Counters
           /\ CountDoorReject(m).execs = m.execs + 1
           /\ Closes(CountDoorReject(m))
<1>1. CountDoorReject(m) \in Counters
  <2> DEFINE m1 == [m EXCEPT !.execs = @ + 1]
             m2 == [m1 EXCEPT !.door_rejects = @ + 1]
  <2>1. m1 \in Counters /\ m1.door_rejects = m.door_rejects
    BY DEF Counters
  <2>2. CountDoorReject(m) = m2
    BY DEF CountDoorReject, Counters
  <2> HIDE DEF m1
  <2>3. m2 \in Counters
    BY <2>1 DEF Counters
  <2> QED
    BY <2>2, <2>3
<1>2. /\ CountDoorReject(m).execs = m.execs + 1
      /\ CountDoorReject(m).door_rejects = m.door_rejects + 1
      /\ CountDoorReject(m).decoded = m.decoded
      /\ CountDoorReject(m).selected = m.selected
      /\ CountDoorReject(m).applied = m.applied
      /\ CountDoorReject(m).not_applied = m.not_applied
      /\ CountDoorReject(m).verdicts = m.verdicts
  BY DEF CountDoorReject, Counters
<1>3. {m.execs, m.door_rejects, m.decoded} \subseteq Nat
  BY DEF Counters
<1> QED
  BY <1>1, <1>2, <1>3 DEF Closes

\* A decoded case, applied or not (telemetry_v2.cpp:245-266).
LEMMA CaseCloses ==
    ASSUME NEW m \in Counters, Closes(m), NEW c \in Cells,
           NEW was_applied \in BOOLEAN
    PROVE  /\ CountCase(m, c, was_applied) \in Counters
           /\ CountCase(m, c, was_applied).execs = m.execs + 1
           /\ Closes(CountCase(m, c, was_applied))
<1> DEFINE n == CountCase(m, c, was_applied)
<1>1. /\ m.selected \in [Cells -> Nat] /\ m.applied \in [Cells -> Nat]
      /\ m.not_applied \in [Cells -> Nat]
      /\ {m.execs, m.door_rejects, m.decoded, m.verdicts} \subseteq Nat
  BY DEF Counters
<1>2. /\ Bump(m.selected, c) \in [Cells -> Nat]
      /\ Bump(m.applied, c) \in [Cells -> Nat]
      /\ Bump(m.not_applied, c) \in [Cells -> Nat]
  BY <1>1, TotalBumps
<1>3. /\ n.execs = m.execs + 1 /\ n.decoded = m.decoded + 1
      /\ n.door_rejects = m.door_rejects
      /\ n.selected = Bump(m.selected, c)
      /\ n.applied = IF was_applied THEN Bump(m.applied, c) ELSE m.applied
      /\ n.not_applied = IF was_applied THEN m.not_applied
                         ELSE Bump(m.not_applied, c)
      /\ n.verdicts = IF was_applied THEN m.verdicts + 1 ELSE m.verdicts
  BY DEF CountCase, Counters
<1>4. n \in Counters
  <2> DEFINE m1 == [m EXCEPT !.execs = m.execs + 1]
             m2 == [m1 EXCEPT !.decoded = m.decoded + 1]
             m3 == [m2 EXCEPT !.selected = Bump(m.selected, c)]
             m4 == [m3 EXCEPT !.applied = IF was_applied
                                          THEN Bump(m.applied, c)
                                          ELSE m.applied]
             m5 == [m4 EXCEPT !.not_applied = IF was_applied
                                              THEN m.not_applied
                                              ELSE Bump(m.not_applied, c)]
             m6 == [m5 EXCEPT !.verdicts = IF was_applied
                                           THEN m.verdicts + 1
                                           ELSE m.verdicts]
  <2>1. n = m6
    BY DEF CountCase
  <2> HIDE DEF n, m6
  <2>2. m1 \in Counters
    BY <1>1 DEF Counters
  <2> HIDE DEF m1
  <2>3. m2 \in Counters
    BY <1>1, <2>2 DEF Counters
  <2> HIDE DEF m2
  <2>4. m3 \in Counters
    BY <1>2, <2>3 DEF Counters
  <2> HIDE DEF m3
  <2>5. m4 \in Counters
    BY <1>1, <1>2, <2>4 DEF Counters
  <2> HIDE DEF m4
  <2>6. m5 \in Counters
    BY <1>1, <1>2, <2>5 DEF Counters
  <2> HIDE DEF m5
  <2>7. m6 \in Counters
    BY <1>1, <2>6 DEF Counters, m6
  <2> QED
    BY <2>1, <2>7
<1> HIDE DEF n
<1>5. n.door_rejects + n.decoded = n.execs
  BY <1>1, <1>3 DEF Closes
<1>6. Total(n.selected) = n.decoded
  BY <1>1, <1>3, TotalBumps DEF Closes
<1>7. n.verdicts = Total(n.applied)
  BY <1>1, <1>3, TotalBumps DEF Closes
<1>8. ASSUME NEW d \in Cells
      PROVE  n.applied[d] + n.not_applied[d] = n.selected[d]
  <2>1. /\ Bump(m.selected, c)[d]
              = IF d = c THEN m.selected[c] + 1 ELSE m.selected[d]
        /\ Bump(m.applied, c)[d]
              = IF d = c THEN m.applied[c] + 1 ELSE m.applied[d]
        /\ Bump(m.not_applied, c)[d]
              = IF d = c THEN m.not_applied[c] + 1 ELSE m.not_applied[d]
    BY <1>1, TotalBumps
  <2>2. m.applied[d] + m.not_applied[d] = m.selected[d]
    BY DEF Closes
  <2>3. m.applied[d] \in Nat /\ m.not_applied[d] \in Nat
    BY <1>1
  <2> QED
    BY <1>3, <2>1, <2>2, <2>3
<1>9. Closes(n)
  BY <1>5, <1>6, <1>7, <1>8 DEF Closes
<1> QED
  BY <1>3, <1>4, <1>9 DEF n

-----------------------------------------------------------------------------
LEMMA InitTelemetry == Init => TelemetryInv
<1> SUFFICES ASSUME Init PROVE TelemetryInv
  OBVIOUS
<1>1. \A p \in Procs : /\ mem[p] = Zero /\ mem[p].execs = 0 /\ acked[p] = 0
                       /\ pc[p] = "unborn"
  BY DEF Init, Zero
<1>2. TypeOK
  BY ZeroCloses, TelemetryConstants DEF Init, TypeOK, Indices, NoEvidence
<1>3. OwnersHoldClaims /\ CountersLead /\ AcknowledgedIsWritten
  BY <1>1 DEF OwnersHoldClaims, CountersLead, AcknowledgedIsWritten, Owns,
              Writing, Leaving, Before
<1>4. MemoryCloses
  BY <1>1, ZeroCloses DEF MemoryCloses
<1>5. DocumentsClose
  BY DEF Init, DocumentsClose, Published
<1>6. EvidenceIsLast /\ EvidenceIsComplete
  BY DEF Init, NoEvidence, EvidenceIsLast, EvidenceIsComplete
<1> QED
  BY <1>2, <1>3, <1>4, <1>5, <1>6 DEF TelemetryInv

\* Processes step only while the campaign is on.
LEMMA StepIsEarly ==
    ASSUME TelemetryInv, NEW p \in Procs, Step(p)
    PROVE  evidence.st = "pending" /\ evidence' = evidence
<1>1. evidence' = evidence
  BY DEF Step, configure, claim_job, ClaimFails, record_door_reject,
         record_case, Record, Exit, OpenTmp, Rename, PublishFails, Kill
<1>2. configure(p) \/ Alive(p)
  BY DEF Step, claim_job, ClaimFails, Claiming, record_door_reject,
         record_case, Record, Exit, OpenTmp, Rename, PublishFails, Kill,
         Alive, Gone
<1> QED
  BY <1>1, <1>2 DEF configure, TelemetryInv, EvidenceIsLast

LEMMA EarlyStepKeepsEvidence ==
    ASSUME evidence.st = "pending", evidence' = evidence
    PROVE  EvidenceIsLast' /\ EvidenceIsComplete'
  BY DEF EvidenceIsLast, EvidenceIsComplete

\* A process moves on without touching counters or directory.
LEMMA MoveKeeps ==
    ASSUME TelemetryInv, NEW p \in Procs, evidence.st = "pending",
           configure(p) \/ Exit(p) \/ Kill(p)
    PROVE  TelemetryInv'
<1>1. PICK s \in {"configured", "leaving", "exited", "killed"} :
         /\ pc' = [pc EXCEPT ![p] = s]
         /\ s = "configured" => pc[p] = "unborn"
         /\ s = "leaving" => pc[p] = "ready"
  BY DEF configure, Exit, Kill
<1>2. UNCHANGED <<job, mem, acked, claims, docs, tmps, evidence>>
  BY DEF configure, Exit, Kill, disk
<1>3. TypeOK'
  BY <1>1, <1>2 DEF TelemetryInv, TypeOK
<1>4. \A q \in Procs : pc'[q] = IF q = p THEN s ELSE pc[q]
  BY <1>1 DEF TelemetryInv, TypeOK
<1>5. \A q \in Procs : Owns(q)' => Owns(q)
  BY <1>1, <1>2, <1>4 DEF Owns, Writing, Leaving
<1>6. OwnersHoldClaims'
  BY <1>2, <1>5 DEF TelemetryInv, OwnersHoldClaims
<1>7. CountersLead'
  BY <1>1, <1>2, <1>4
  DEF TelemetryInv, CountersLead, Before, Writing, Leaving
<1>8. AcknowledgedIsWritten' /\ MemoryCloses' /\ DocumentsClose'
  BY <1>2 DEF TelemetryInv, AcknowledgedIsWritten, MemoryCloses,
              DocumentsClose, Published
<1> QED
  BY <1>2, <1>3, <1>6, <1>7, <1>8, EarlyStepKeepsEvidence DEF TelemetryInv

\* The exclusive creation of the claim makes its process the only owner.
LEMMA ClaimKeeps ==
    ASSUME TelemetryInv, NEW p \in Procs, evidence.st = "pending",
           claim_job(p) \/ ClaimFails(p)
    PROVE  TelemetryInv'
<1>1. pc[p] \in {"configured", "claiming"} /\ mem[p].execs = 0
  BY DEF claim_job, ClaimFails, Claiming, TelemetryInv, CountersLead, Before
<1>2. UNCHANGED <<mem, acked, docs, tmps, evidence>>
  BY DEF claim_job, ClaimFails
<1>3. CASE /\ job[p] \notin claims
           /\ claims' = claims \cup {job[p]}
           /\ pc' = [pc EXCEPT ![p] = "ready"] \/ pc' = [pc EXCEPT ![p] = "failed"]
           /\ job' = job
  <2>1. TypeOK'
    BY <1>2, <1>3 DEF TelemetryInv, TypeOK
  <2>2. \A q \in Procs : q # p => pc'[q] = pc[q]
    BY <1>3 DEF TelemetryInv, TypeOK
  <2>3. pc'[p] \in {"ready", "failed"}
    BY <1>3 DEF TelemetryInv, TypeOK
  <2>4. \A q \in Procs : q # p => (Owns(q)' <=> Owns(q))
    BY <1>2, <2>2 DEF Owns
  <2>5. OwnersHoldClaims'
    <3>1. \A q \in Procs \ {p} : Owns(q)' => job[q] \in claims /\ job[q] # job[p]
      BY <1>3, <2>4 DEF TelemetryInv, OwnersHoldClaims
    <3> QED
      BY <1>3, <2>4, <3>1 DEF TelemetryInv, OwnersHoldClaims
  <2>6. CountersLead'
    <3>1. acked[p] = 0
      BY <1>1 DEF TelemetryInv, TypeOK, CountersLead
    <3> QED
      BY <1>1, <1>2, <2>2, <2>3, <3>1
      DEF TelemetryInv, CountersLead, Before, Writing, Leaving
  <2>7. AcknowledgedIsWritten' /\ MemoryCloses' /\ DocumentsClose'
    BY <1>2, <1>3 DEF TelemetryInv, AcknowledgedIsWritten, MemoryCloses,
                      DocumentsClose, Published
  <2> QED
    BY <1>2, <2>1, <2>5, <2>6, <2>7, EarlyStepKeepsEvidence DEF TelemetryInv
<1>4. CASE /\ claims' = claims
           /\ job' = [job EXCEPT ![p] = IF @ + 1 \in Indices THEN @ + 1 ELSE @]
           /\ \E s \in {"claiming", "failed"} : pc' = [pc EXCEPT ![p] = s]
  <2>1. TypeOK'
    BY <1>2, <1>4 DEF TelemetryInv, TypeOK
  <2>2. \A q \in Procs : q # p => pc'[q] = pc[q] /\ job'[q] = job[q]
    BY <1>4 DEF TelemetryInv, TypeOK
  <2>3. pc'[p] \in {"claiming", "failed"}
    BY <1>4 DEF TelemetryInv, TypeOK
  <2>4. /\ \A q \in Procs : q # p => (Owns(q)' <=> Owns(q))
        /\ ~Owns(p)'
    BY <1>1, <1>2, <2>2, <2>3 DEF Owns, Writing, Leaving
  <2>5. OwnersHoldClaims'
    BY <1>4, <2>2, <2>4 DEF TelemetryInv, OwnersHoldClaims
  <2>6. CountersLead' /\ acked[p] = 0
    BY <1>1, <1>2, <2>2, <2>3
    DEF TelemetryInv, TypeOK, CountersLead, Before, Writing, Leaving
  <2>7. AcknowledgedIsWritten' /\ MemoryCloses' /\ DocumentsClose'
    BY <1>2, <2>2, <2>6
    DEF TelemetryInv, AcknowledgedIsWritten, MemoryCloses, DocumentsClose,
        Published
  <2> QED
    BY <1>2, <2>1, <2>5, <2>6, <2>7, EarlyStepKeepsEvidence DEF TelemetryInv
<1> QED
  BY <1>3, <1>4 DEF claim_job, ClaimFails

\* A case is counted in memory.
LEMMA RecordKeeps ==
    ASSUME TelemetryInv, NEW p \in Procs, evidence.st = "pending",
           NEW m \in Counters, Closes(m), m.execs = mem[p].execs + 1,
           Record(p, m)
    PROVE  TelemetryInv'
<1>1. /\ pc[p] = "ready"
      /\ mem' = [mem EXCEPT ![p] = m]
      /\ pc' = [pc EXCEPT ![p] = "publishing"]
      /\ UNCHANGED <<job, acked, claims, docs, tmps, evidence>>
  BY DEF Record, disk
<1>2. TypeOK'
  BY <1>1 DEF TelemetryInv, TypeOK
<1>3. /\ \A q \in Procs : q # p => pc'[q] = pc[q] /\ mem'[q] = mem[q]
      /\ pc'[p] = "publishing" /\ mem'[p] = m
  BY <1>1 DEF TelemetryInv, TypeOK
<1>4. \A q \in Procs : Owns(q)' => Owns(q)
  BY <1>1, <1>3 DEF Owns
<1>5. OwnersHoldClaims'
  BY <1>1, <1>4 DEF TelemetryInv, OwnersHoldClaims
<1>6. CountersLead'
  <2>1. mem[p].execs = acked[p] /\ acked[p] \in Nat
    BY <1>1 DEF TelemetryInv, TypeOK, CountersLead
  <2> QED
    BY <1>1, <1>3, <2>1
    DEF TelemetryInv, CountersLead, Before, Writing, Leaving
<1>7. AcknowledgedIsWritten' /\ DocumentsClose'
  BY <1>1 DEF TelemetryInv, AcknowledgedIsWritten, DocumentsClose, Published
<1>8. MemoryCloses'
  BY <1>3 DEF TelemetryInv, MemoryCloses
<1> QED
  BY <1>1, <1>2, <1>5, <1>6, <1>7, <1>8, EarlyStepKeepsEvidence
  DEF TelemetryInv

\* A document is written over the owner's own, and over no other.
LEMMA PublishKeeps ==
    ASSUME TelemetryInv, NEW p \in Procs, evidence.st = "pending",
           OpenTmp(p) \/ Rename(p) \/ PublishFails(p)
    PROVE  TelemetryInv'
<1>1. /\ pc[p] \in Writing \cup Leaving
      /\ UNCHANGED <<job, mem, claims, evidence>>
  BY DEF OpenTmp, Rename, PublishFails, Writing, Leaving
<1>2. /\ Owns(p) /\ job[p] \in claims /\ mem[p] \in Counters
      /\ acked[p] \in Nat /\ mem[p].execs \in Nat
      /\ mem[p].execs \in {acked[p], acked[p] + 1}
      /\ pc[p] \in Leaving => mem[p].execs = acked[p]
      /\ pc[p] \in Writing => mem[p].execs = acked[p] + 1
  BY <1>1 DEF TelemetryInv, TypeOK, OwnersHoldClaims, Owns, CountersLead,
              Counters
<1>3. /\ \/ docs' = docs /\ acked' = acked
         \/ docs' = [docs EXCEPT ![job[p]] = mem[p]]
      /\ \/ acked' = acked
         \/ acked' = [acked EXCEPT ![p] = mem[p].execs]
  BY DEF OpenTmp, Rename, PublishFails
<1>4. PICK s \in {"written", "left", "ready", "exited", "failed"} :
         /\ pc' = [pc EXCEPT ![p] = s]
         /\ s = "ready" => acked' = [acked EXCEPT ![p] = mem[p].execs]
         /\ s = "written" => pc[p] \in Writing /\ acked' = acked
         /\ s = "left" => pc[p] \in Leaving /\ acked' = acked
  BY DEF OpenTmp, Rename, PublishFails, Writing, Leaving
<1>5. tmps' \subseteq tmps \cup {job[p]}
  BY DEF OpenTmp, Rename, PublishFails
<1>6. /\ \A q \in Procs : q # p => pc'[q] = pc[q] /\ acked'[q] = acked[q]
      /\ pc'[p] = s
      /\ acked'[p] \in {acked[p], mem[p].execs}
      /\ s = "ready" => acked'[p] = mem[p].execs
      /\ s \in {"written", "left"} => acked'[p] = acked[p]
  BY <1>2, <1>3, <1>4 DEF TelemetryInv, TypeOK
<1>7. TypeOK'
  <2>1. docs' \in [Indices -> Counters \cup {NoDoc}]
    BY <1>2, <1>3 DEF TelemetryInv, TypeOK
  <2>2. acked' \in [Procs -> Nat]
    BY <1>2, <1>3 DEF TelemetryInv, TypeOK
  <2> QED
    BY <1>1, <1>2, <1>4, <1>5, <2>1, <2>2 DEF TelemetryInv, TypeOK
<1>8. \A q \in Procs : Owns(q)' => Owns(q)
  BY <1>1, <1>2, <1>6 DEF Owns
<1>9. OwnersHoldClaims'
  BY <1>1, <1>8 DEF TelemetryInv, OwnersHoldClaims
<1>10. CountersLead'
  BY <1>1, <1>2, <1>4, <1>6
  DEF TelemetryInv, TypeOK, CountersLead, Before, Writing, Leaving
<1>11. AcknowledgedIsWritten'
  <2> SUFFICES ASSUME NEW q \in Procs, acked'[q] > 0
               PROVE  docs'[job[q]].execs \in {acked'[q], acked'[q] + 1}
    BY <1>1 DEF AcknowledgedIsWritten
  <2>1. CASE q = p
    <3>1. CASE docs' = docs /\ acked' = acked
      BY <3>1 DEF TelemetryInv, AcknowledgedIsWritten
    <3>2. CASE docs' = [docs EXCEPT ![job[p]] = mem[p]]
      <4>1. docs'[job[p]] = mem[p]
        BY <3>2 DEF TelemetryInv, TypeOK
      <4> QED
        BY <1>2, <1>6, <2>1, <4>1
    <3> QED
      BY <1>3, <3>1, <3>2
  <2>2. CASE q # p
    <3>1. acked[q] > 0 /\ acked'[q] = acked[q]
      BY <1>6, <2>2
    <3>2. Owns(q)
      BY <3>1 DEF TelemetryInv, TypeOK, CountersLead, Owns, Counters
    <3>3. job[q] # job[p] /\ job[q] \in Indices
      BY <1>2, <2>2, <3>2 DEF TelemetryInv, TypeOK, OwnersHoldClaims
    <3>4. docs'[job[q]] = docs[job[q]]
      BY <1>3, <3>3 DEF TelemetryInv, TypeOK
    <3> QED
      BY <3>1, <3>4 DEF TelemetryInv, AcknowledgedIsWritten
  <2> QED
    BY <2>1, <2>2
<1>12. MemoryCloses'
  BY <1>1 DEF TelemetryInv, MemoryCloses
<1>13. DocumentsClose'
  <2>1. ASSUME NEW i \in Indices
        PROVE  docs'[i] = docs[i] \/ docs'[i] = mem[p]
    BY <1>3 DEF TelemetryInv, TypeOK
  <2> QED
    BY <2>1 DEF TelemetryInv, DocumentsClose, Published, MemoryCloses
<1> QED
  BY <1>1, <1>7, <1>9, <1>10, <1>11, <1>12, <1>13, EarlyStepKeepsEvidence
  DEF TelemetryInv

\* What the sanitiser accepts covers what was acknowledged: every process
\* with an acknowledged case has a document of its own among the readable.
LEMMA SanitizeKeeps ==
    ASSUME TelemetryInv, sanitize
    PROVE  TelemetryInv'
<1>1. /\ UNCHANGED <<pc, job, mem, acked, claims, docs, tmps>>
      /\ \A p \in Procs : ~Alive(p)
  BY DEF sanitize, disk
<1> DEFINE e == [i \in Readable |-> docs[i].execs]
<1>2. /\ Readable \subseteq Published /\ Published \subseteq Indices
      /\ Readable # {} => Readable = Published
  BY DEF Readable, Published
<1>3. IsFiniteSet(Readable) /\ \A i \in Readable : e[i] \in Nat
  <2>1. IsFiniteSet(Indices)
    BY TelemetryConstants, FS_Interval DEF Indices
  <2>2. IsFiniteSet(Readable)
    BY <1>2, <2>1, FS_Subset
  <2>3. \A i \in Readable : docs[i] \in Counters
    BY <1>2 DEF TelemetryInv, TypeOK, Published
  <2> QED
    BY <2>2, <2>3 DEF Counters
<1>4. TotalExecs(Readable) = Sum(e, Readable)
  BY DEF TotalExecs
<1> HIDE DEF e
<1>5. TotalExecs(Readable) \in Nat
  BY <1>3, <1>4, SumUnfolds
<1>6. Readable # {} => Sum(acked, Procs) <= TotalExecs(Readable)
  <2> SUFFICES ASSUME Readable # {}
               PROVE  Sum(acked, Procs) <= Sum(e, Readable)
    BY <1>4
  <2>1. \A p \in Procs : acked[p] \in Nat
    BY DEF TelemetryInv, TypeOK
  <2>2. ASSUME NEW p \in Procs, acked[p] > 0
        PROVE  job[p] \in Readable /\ acked[p] <= e[job[p]] /\ Owns(p)
    <3>1. /\ docs[job[p]].execs \in {acked[p], acked[p] + 1}
          /\ acked[p] \in Nat /\ job[p] \in Indices
      BY <2>2 DEF TelemetryInv, TypeOK, AcknowledgedIsWritten
    <3>2. docs[job[p]] # NoDoc
      BY <2>2, <3>1 DEF NoDoc
    <3>3. job[p] \in Readable
      BY <1>2, <3>1, <3>2 DEF Published
    <3>4. Owns(p)
      BY <2>2 DEF TelemetryInv, TypeOK, CountersLead, Owns, Counters
    <3> QED
      BY <3>1, <3>3, <3>4 DEF e
  <2>3. \A p, q \in Procs : acked[p] > 0 /\ acked[q] > 0 /\ p # q
                               => job[p] # job[q]
    BY <2>2 DEF TelemetryInv, OwnersHoldClaims
  <2> QED
    BY <1>3, <2>1, <2>2, <2>3, SumCovers, TelemetryConstants
<1>7. /\ evidence'.st \in {"refused", "accepted"}
      /\ evidence' \in [st : {"pending", "refused", "accepted"},
                        jobs : SUBSET Indices, execs : Nat]
      /\ evidence'.st = "accepted" =>
            Readable # {} /\ evidence'.execs = TotalExecs(Readable)
  <2>1. CASE evidence' = [st |-> "accepted", jobs |-> Readable,
                          execs |-> TotalExecs(Readable)]
             /\ Readable # {}
    BY <1>2, <1>5, <2>1
  <2>2. CASE evidence' = [NoEvidence EXCEPT !.st = "refused"]
    BY <2>2 DEF NoEvidence
  <2> QED
    BY <2>1, <2>2 DEF sanitize
<1>8. TypeOK'
  BY <1>1, <1>7 DEF TelemetryInv, TypeOK
<1>9. EvidenceIsLast'
  BY <1>1 DEF EvidenceIsLast, Alive, Gone
<1>10. EvidenceIsComplete'
  <2>1. Sum(acked, Procs)' = Sum(acked, Procs)
    BY <1>1
  <2>2. Sum(acked, Procs) \in Nat
    BY SumUnfolds, TelemetryConstants DEF TelemetryInv, TypeOK
  <2> QED
    BY <1>5, <1>6, <1>7, <2>1, <2>2 DEF EvidenceIsComplete
<1>11. OwnersHoldClaims' /\ CountersLead' /\ AcknowledgedIsWritten'
  BY <1>1 DEF TelemetryInv, OwnersHoldClaims, Owns, CountersLead,
              AcknowledgedIsWritten
<1>12. MemoryCloses' /\ DocumentsClose'
  BY <1>1 DEF TelemetryInv, MemoryCloses, DocumentsClose, Published
<1> QED
  BY <1>8, <1>9, <1>10, <1>11, <1>12 DEF TelemetryInv

LEMMA NextTelemetry ==
    ASSUME TelemetryInv, [Next]_vars
    PROVE  TelemetryInv'
<1>1. CASE sanitize
  BY <1>1, SanitizeKeeps
<1>2. ASSUME NEW p \in Procs, Step(p)
      PROVE  TelemetryInv'
  <2>1. evidence.st = "pending"
    BY <1>2, StepIsEarly
  <2>2. CASE configure(p) \/ Exit(p) \/ Kill(p)
    BY <2>1, <2>2, MoveKeeps
  <2>3. CASE claim_job(p) \/ ClaimFails(p)
    BY <2>1, <2>3, ClaimKeeps
  <2>4. mem[p] \in Counters /\ Closes(mem[p])
    BY DEF TelemetryInv, TypeOK, MemoryCloses
  <2>5. CASE record_door_reject(p)
    <3>1. Record(p, CountDoorReject(mem[p]))
      BY <2>5 DEF record_door_reject
    <3> QED
      BY <2>1, <2>4, <3>1, DoorRejectCloses, RecordKeeps
  <2>6. CASE record_case(p)
    <3>1. PICK c \in Cells, was_applied \in BOOLEAN :
             Record(p, CountCase(mem[p], c, was_applied))
      BY <2>6 DEF record_case
    <3> QED
      BY <2>1, <2>4, <3>1, CaseCloses, RecordKeeps
  <2>7. CASE OpenTmp(p) \/ Rename(p) \/ PublishFails(p)
    BY <2>1, <2>7, PublishKeeps
  <2> QED
    BY <1>2, <2>2, <2>3, <2>5, <2>6, <2>7 DEF Step
<1>3. CASE UNCHANGED vars
  <2>1. UNCHANGED <<pc, job, mem, acked, claims, docs, tmps, evidence>>
    BY <1>3 DEF vars
  <2>2. TypeOK' /\ OwnersHoldClaims' /\ CountersLead' /\ AcknowledgedIsWritten'
    BY <2>1 DEF TelemetryInv, TypeOK, OwnersHoldClaims, Owns, CountersLead,
                AcknowledgedIsWritten
  <2>3. MemoryCloses' /\ DocumentsClose'
    BY <2>1 DEF TelemetryInv, MemoryCloses, DocumentsClose, Published
  <2>4. EvidenceIsLast' /\ EvidenceIsComplete'
    BY <2>1 DEF TelemetryInv, EvidenceIsLast, EvidenceIsComplete, Alive, Gone
  <2> QED
    BY <2>2, <2>3, <2>4 DEF TelemetryInv
<1> QED
  BY <1>1, <1>2, <1>3 DEF Next

LEMMA TelemetryInvariance == Spec => []TelemetryInv
  BY InitTelemetry, NextTelemetry, PTL DEF Spec

-----------------------------------------------------------------------------
\* Type correctness of the processes and of the shared directory.
THEOREM TelemetryTypes == Spec => []TypeOK
<1>1. TelemetryInv => TypeOK
  BY DEF TelemetryInv
<1> QED
  BY <1>1, TelemetryInvariance, PTL

\* Any number of processes, racing for indices in any order and over any
\* number of generations, never write the same document
\* (telemetry_v2.cpp:111-139).
THEOREM WritersAreExclusive == Spec => []ClaimsAreExclusive
<1>1. TelemetryInv => ClaimsAreExclusive
  BY DEF TelemetryInv, OwnersHoldClaims, ClaimsAreExclusive, Claimed, Owns
<1> QED
  BY <1>1, TelemetryInvariance, PTL

\* Every document that is on disk at any moment satisfies the equations of
\* the validator, for any set of cells (telemetry_v2.cpp:168-198,245-266,
\* telemetry_evidence.py:132-205).
THEOREM DocumentsAlwaysClose == Spec => []DocumentsClose
<1>1. TelemetryInv => DocumentsClose
  BY DEF TelemetryInv
<1> QED
  BY <1>1, TelemetryInvariance, PTL

\* A case whose record_* call returned is on disk, whenever its process is
\* killed (telemetry_v2.cpp:233-300).
THEOREM AcknowledgedSurvives == Spec => []AcknowledgedIsDurable
<1>1. TelemetryInv => AcknowledgedIsDurable
  <2> SUFFICES ASSUME TelemetryInv, NEW p \in Procs, acked[p] > 0
               PROVE  /\ docs[job[p]] # NoDoc
                      /\ docs[job[p]].execs \in {acked[p], acked[p] + 1}
    BY DEF AcknowledgedIsDurable
  <2>1. docs[job[p]].execs \in {acked[p], acked[p] + 1} /\ acked[p] \in Nat
    BY DEF TelemetryInv, TypeOK, AcknowledgedIsWritten
  <2> QED
    BY <2>1 DEF NoDoc
<1> QED
  BY <1>1, TelemetryInvariance, PTL

\* Evidence that the sanitiser accepts counts every acknowledged case of
\* every process (telemetry_evidence.py:208-272).
THEOREM EvidenceCoversTheCampaign == Spec => []EvidenceIsComplete
<1>1. TelemetryInv => EvidenceIsComplete
  BY DEF TelemetryInv
<1> QED
  BY <1>1, TelemetryInvariance, PTL
=============================================================================
