------------------------ MODULE WindowScheduleProofs ------------------------
(***************************************************************************)
(* For every pool, window size, shard count and number of waves: windows   *)
(* fit, re-runs get the window they had, and consecutive complete waves    *)
(* with enough shards fuzz every private unit.                             *)
(*                                                                         *)
(* The coverage argument is arithmetic.  Shards of consecutive waves have  *)
(* consecutive ordinals; the ordinals that serve window i of the bucket of *)
(* rank b, one of W windows among P buckets, are those congruent to        *)
(* P * i + b modulo P * W; and every P * W consecutive numbers hold one.   *)
(***************************************************************************)
EXTENDS WindowSchedule, FiniteSetTheorems, TLAPS

-----------------------------------------------------------------------------
(***************************************************************************)
(* Quotients and remainders.                                               *)
(***************************************************************************)
LEMMA Division ==
    ASSUME NEW a \in Nat, NEW b \in Nat \ {0}
    PROVE  /\ a \div b \in Nat /\ a % b \in 0 .. b - 1
           /\ a = b * (a \div b) + (a % b)
  OBVIOUS

LEMMA TimesGrows ==
    ASSUME NEW p \in Nat, NEW q \in Nat, NEW b \in Nat, p < q
    PROVE  b * p + b <= b * q /\ b * p \in Nat /\ b * q \in Nat
  OBVIOUS

LEMMA DivisionIsUnique ==
    ASSUME NEW b \in Nat \ {0}, NEW q \in Nat, NEW r \in 0 .. b - 1
    PROVE  /\ b * q + r \in Nat
           /\ (b * q + r) \div b = q
           /\ (b * q + r) % b = r
<1> DEFINE a == b * q + r
           p == a \div b
           m == a % b
<1>1. a \in Nat /\ b * q \in Nat
  OBVIOUS
<1> HIDE DEF a
<1>2. p \in Nat /\ m \in 0 .. b - 1 /\ a = b * p + m
  BY <1>1, Division
<1> HIDE DEF p, m
<1>3. ~(p < q)
  <2> SUFFICES ASSUME p < q PROVE FALSE
    OBVIOUS
  <2>1. b * p + b <= b * q /\ b * p \in Nat
    BY <1>2, TimesGrows
  <2> QED
    BY <1>1, <1>2, <2>1 DEF a
<1>4. ~(q < p)
  <2> SUFFICES ASSUME q < p PROVE FALSE
    OBVIOUS
  <2>1. b * q + b <= b * p /\ b * p \in Nat
    BY <1>2, TimesGrows
  <2> QED
    BY <1>1, <1>2, <2>1 DEF a
<1>5. p = q
  BY <1>2, <1>3, <1>4
<1> QED
  BY <1>1, <1>2, <1>5 DEF a, p, m

\* Every n consecutive numbers hold one of each residue.
LEMMA ResidueIsNear ==
    ASSUME NEW a \in Nat, NEW n \in Nat \ {0}, NEW c \in 0 .. n - 1
    PROVE  \E k \in Nat : a <= n * k + c /\ n * k + c < a + n
<1> DEFINE x == a + n - 1 - c
           k == x \div n
<1>1. x \in Nat
  OBVIOUS
<1>2. k \in Nat /\ x % n \in 0 .. n - 1 /\ x = n * k + (x % n)
  BY <1>1, Division
<1> DEFINE y == n * k
<1>3. y \in Nat
  BY <1>2
<1> HIDE DEF y, k
<1>4. a <= y + c /\ y + c < a + n
  BY <1>1, <1>2, <1>3 DEF y
<1> QED
  BY <1>2, <1>4 DEF y

-----------------------------------------------------------------------------
(***************************************************************************)
(* Ranks in a finite set of numbers.                                       *)
(***************************************************************************)
LEMMA RankInside ==
    ASSUME NEW S \in SUBSET Nat, IsFiniteSet(S), NEW x \in S
    PROVE  Rank(x, S) \in 0 .. Cardinality(S) - 1
<1> DEFINE B == {y \in S : y < x}
<1>1. B \in SUBSET S /\ B # S
  OBVIOUS
<1> HIDE DEF B
<1>2. /\ IsFiniteSet(B) /\ Cardinality(B) <= Cardinality(S)
      /\ Cardinality(S) # Cardinality(B)
  BY <1>1, FS_Subset
<1>3. Cardinality(B) \in Nat /\ Cardinality(S) \in Nat
  BY <1>2, FS_CardinalityType
<1> QED
  BY <1>2, <1>3 DEF Rank, B

LEMMA RankGrows ==
    ASSUME NEW S \in SUBSET Nat, IsFiniteSet(S), NEW x \in S, NEW y \in S, x < y
    PROVE  Rank(x, S) < Rank(y, S)
<1> DEFINE A == {z \in S : z < x}
           B == {z \in S : z < y}
<1>1. A \in SUBSET B /\ B \in SUBSET S /\ A # B
  <2>1. \A z \in S : z < x => z < y
    OBVIOUS
  <2>2. x \in B /\ x \notin A
    OBVIOUS
  <2> QED
    BY <2>1, <2>2
<1> HIDE DEF A, B
<1>2. IsFiniteSet(B)
  BY <1>1, FS_Subset
<1>3. IsFiniteSet(A) /\ Cardinality(A) <= Cardinality(B)
      /\ Cardinality(B) # Cardinality(A)
  BY <1>1, <1>2, FS_Subset
<1>4. Cardinality(A) \in Nat /\ Cardinality(B) \in Nat
  BY <1>2, <1>3, FS_CardinalityType
<1> QED
  BY <1>3, <1>4 DEF Rank, A, B

LEMMA RankOnce ==
    ASSUME NEW S \in SUBSET Nat, IsFiniteSet(S), NEW x \in S, NEW y \in S,
           Rank(x, S) = Rank(y, S)
    PROVE  x = y
<1>1. Rank(x, S) \in Nat
  <2>1. Rank(x, S) \in 0 .. Cardinality(S) - 1
    BY RankInside
  <2> QED
    BY <2>1
<1>2. ~(x < y) /\ ~(y < x)
  BY <1>1, RankGrows
<1> QED
  BY <1>2

LEMMA RankOnto ==
    ASSUME NEW S \in SUBSET Nat, IsFiniteSet(S),
           NEW k \in 0 .. Cardinality(S) - 1
    PROVE  \E x \in S : Rank(x, S) = k
<1> DEFINE T == 0 .. Cardinality(S) - 1
           f == [x \in S |-> Rank(x, S)]
<1>1. Cardinality(S) \in Nat
  BY FS_CardinalityType
<1>2. IsFiniteSet(T) /\ Cardinality(T) = Cardinality(S)
  <2> DEFINE last == Cardinality(S) - 1
  <2>1. last \in Int
    BY <1>1
  <2> HIDE DEF last
  <2>2. /\ IsFiniteSet(0 .. last)
        /\ Cardinality(0 .. last) = IF 0 > last THEN 0 ELSE last - 0 + 1
    BY <2>1, FS_Interval
  <2> QED
    BY <1>1, <2>2 DEF last
<1>3. f \in [S -> T]
  BY RankInside
<1>4. \A x, y \in S : f[x] = f[y] => x = y
  BY RankOnce
<1> HIDE DEF T, f
<1>5. f \in Injection(S, T)
  BY <1>3, <1>4 DEF Injection, IsInjective
<1>6. f \in Surjection(S, T)
  BY <1>2, <1>5, FS_Injection
<1>7. k \in T
  BY DEF T
<1>8. \E x \in S : f[x] = k
  BY <1>6, <1>7 DEF Surjection
<1> QED
  BY <1>8 DEF f

\* The maximum of a finite set of numbers is its member of the last rank.
LEMMA MaxIsUpperBound ==
    ASSUME NEW S \in SUBSET Nat, IsFiniteSet(S), S # {}
    PROVE  /\ Max(S) \in S
           /\ \A y \in S : y <= Max(S)
<1>1. Cardinality(S) \in Nat /\ Cardinality(S) # 0
  BY FS_CardinalityType, FS_EmptySet
<1>2. PICK x \in S : Rank(x, S) = Cardinality(S) - 1
  BY <1>1, RankOnto
<1>3. \A y \in S : x >= y
  <2> SUFFICES ASSUME NEW y \in S, x < y PROVE FALSE
    OBVIOUS
  <2>1. Rank(x, S) < Rank(y, S) /\ Rank(y, S) \in 0 .. Cardinality(S) - 1
    BY RankGrows, RankInside
  <2> QED
    BY <1>1, <1>2, <2>1
<1>4. \E z \in S : \A y \in S : z >= y
  BY <1>3
<1>5. Max(S) \in S /\ \A y \in S : Max(S) >= y
  BY <1>4 DEF Max
<1> QED
  BY <1>5

-----------------------------------------------------------------------------
(***************************************************************************)
(* Buckets and their windows.                                              *)
(***************************************************************************)
LEMMA CapacityIsPositive == Capacity \in Nat \ {0}
<1>1. Cardinality(Common) \in Nat
  BY WindowConstants, FS_CardinalityType
<1> QED
  BY <1>1, WindowConstants DEF Capacity

LEMMA PrefixesAreFinite ==
    ASSUME NEW inv \in SUBSET Names
    PROVE  /\ inv \in SUBSET Nat /\ IsFiniteSet(inv)
           /\ Prefixes(inv) \in SUBSET Nat /\ IsFiniteSet(Prefixes(inv))
<1>1. inv \in SUBSET Nat /\ IsFiniteSet(inv)
  BY WindowConstants, FS_Subset
<1>2. \A n \in inv : Prefix(n) \in Nat
  <2> SUFFICES ASSUME NEW n \in inv PROVE Prefix(n) \in Nat
    OBVIOUS
  <2>1. n \in Nat /\ NamesPerPrefix \in Nat \ {0}
    BY <1>1, WindowConstants
  <2> QED
    BY <2>1, Division DEF Prefix
<1> DEFINE f == [n \in inv |-> Prefix(n)]
<1>3. f \in Surjection(inv, Prefixes(inv))
  <2>1. f \in [inv -> Prefixes(inv)]
    BY DEF Prefixes
  <2>2. \A p \in Prefixes(inv) : \E n \in inv : f[n] = p
    BY DEF Prefixes
  <2> QED
    BY <2>1, <2>2 DEF Surjection
<1> HIDE DEF f
<1>4. IsFiniteSet(Prefixes(inv))
  BY <1>1, <1>3, FS_Surjection
<1> QED
  BY <1>1, <1>2, <1>4 DEF Prefixes

LEMMA BucketIsFinite ==
    ASSUME NEW inv \in SUBSET Names, NEW p
    PROVE  /\ Bucket(inv, p) \in SUBSET Nat /\ IsFiniteSet(Bucket(inv, p))
           /\ Bucket(inv, p) \in SUBSET inv /\ Bucket(inv, p) \cap Common = {}
<1>1. Bucket(inv, p) \in SUBSET inv /\ Bucket(inv, p) \cap Common = {}
  BY DEF Bucket
<1>2. inv \in SUBSET Nat /\ IsFiniteSet(inv)
  BY PrefixesAreFinite
<1> QED
  BY <1>1, <1>2, FS_Subset

\* ceil(units / capacity): zero for no unit only, and every window starts
\* before the last unit (materialize_window.py:395).
LEMMA WindowCountRoundsUp ==
    ASSUME NEW U \in SUBSET Nat, IsFiniteSet(U)
    PROVE  /\ WindowCount(U) \in Nat
           /\ U = {} <=> WindowCount(U) = 0
           /\ \A i \in 0 .. WindowCount(U) - 1 :
                 i * Capacity \in Nat /\ i * Capacity < Cardinality(U)
           /\ \A r \in 0 .. Cardinality(U) - 1 :
                 r \div Capacity \in 0 .. WindowCount(U) - 1
<1> DEFINE N == Cardinality(U)
           C == Capacity
           a == N + C - 1
           W == a \div C
           m == a % C
<1>1. N \in Nat /\ (U = {} <=> N = 0)
  BY FS_CardinalityType, FS_EmptySet
<1>2. C \in Nat \ {0}
  BY CapacityIsPositive
<1> HIDE DEF N, C
<1>3. W \in Nat /\ m \in 0 .. C - 1 /\ N + C - 1 = C * W + m
  <2>1. a \in Nat
    BY <1>1, <1>2
  <2> HIDE DEF a
  <2>2. W \in Nat /\ m \in 0 .. C - 1 /\ a = C * W + m
    BY <1>2, <2>1, Division
  <2> QED
    BY <2>2 DEF a
<1> HIDE DEF W, m
<1>4. WindowCount(U) = W
  BY DEF WindowCount, W, N, C
<1>5. N = 0 <=> W = 0
  <2>1. ASSUME W = 0 PROVE N = 0
    BY <1>1, <1>2, <1>3, <2>1
  <2>2. ASSUME N = 0, W # 0 PROVE FALSE
    <3>1. 0 < W /\ 0 \in Nat
      BY <1>3, <2>2
    <3>2. C * 0 + C <= C * W /\ C * W \in Nat
      BY <1>2, <1>3, <3>1, TimesGrows
    <3> QED
      BY <1>1, <1>2, <1>3, <2>2, <3>2
  <2> QED
    BY <2>1, <2>2
<1>6. ASSUME NEW i \in 0 .. W - 1 PROVE i * C \in Nat /\ i * C < N
  <2>1. i \in Nat /\ i < W
    BY <1>3
  <2>2. C * i + C <= C * W /\ C * i \in Nat /\ C * W \in Nat
    BY <1>2, <1>3, <2>1, TimesGrows
  <2>3. i * C = C * i
    BY <1>2, <2>1
  <2> QED
    BY <1>1, <1>2, <1>3, <2>2, <2>3
<1>7. ASSUME NEW r \in 0 .. N - 1 PROVE r \div C \in 0 .. W - 1
  <2> DEFINE q == r \div C
             t == r % C
  <2>0. r \in Nat
    BY <1>1
  <2>1. q \in Nat /\ t \in 0 .. C - 1 /\ r = C * q + t
    BY <2>0, <1>2, Division
  <2> HIDE DEF q, t
  <2>2. ASSUME ~(q < W) PROVE FALSE
    <3>1. CASE q = W
      BY <1>1, <1>2, <1>3, <2>1, <3>1
    <3>2. CASE W < q
      <4>1. C * W + C <= C * q /\ C * q \in Nat /\ C * W \in Nat
        BY <1>2, <1>3, <2>1, <3>2, TimesGrows
      <4> QED
        BY <1>1, <1>2, <1>3, <2>1, <4>1
    <3> QED
      BY <1>3, <2>1, <2>2, <3>1, <3>2
  <2>3. q \in 0 .. W - 1
    BY <1>3, <2>1, <2>2
  <2> QED
    BY <2>3 DEF q
<1> QED
  BY <1>1, <1>3, <1>4, <1>5, <1>6, <1>7 DEF N, C

\* A window holds at most the capacity, and no window below the count is empty.
LEMMA SliceFits ==
    ASSUME NEW U \in SUBSET Nat, IsFiniteSet(U), NEW i \in 0 .. WindowCount(U) - 1
    PROVE  /\ Slice(U, i) \in SUBSET U /\ Slice(U, i) # {}
           /\ IsFiniteSet(Slice(U, i))
           /\ Cardinality(Slice(U, i)) \in 0 .. Capacity
<1> DEFINE C == Capacity
           lo == i * C
           S == Slice(U, i)
           f == [n \in S |-> Rank(n, U) - lo]
           T == 0 .. C - 1
<1>1. C \in Nat \ {0}
  BY CapacityIsPositive
<1>2. lo \in Nat /\ lo < Cardinality(U) /\ Cardinality(U) \in Nat
  BY WindowCountRoundsUp, FS_CardinalityType
<1>3. i \in Nat
  BY WindowCountRoundsUp
<1> HIDE DEF C
<1>4. (i + 1) * C = lo + C
  BY <1>1, <1>3
<1> HIDE DEF lo
<1>5. S = {n \in U : lo <= Rank(n, U) /\ Rank(n, U) < lo + C}
  BY <1>4 DEF Slice, C, lo
<1> HIDE DEF S
<1>6. S # {}
  <2>1. lo \in 0 .. Cardinality(U) - 1
    BY <1>2
  <2>2. PICK n \in U : Rank(n, U) = lo
    BY <2>1, RankOnto
  <2> QED
    BY <1>1, <1>2, <1>5, <2>2
<1>7. \A n \in S : n \in U /\ Rank(n, U) \in Nat /\ Rank(n, U) - lo \in T
  <2> SUFFICES ASSUME NEW n \in S
               PROVE  n \in U /\ Rank(n, U) \in Nat /\ Rank(n, U) - lo \in T
    OBVIOUS
  <2>1. n \in U /\ lo <= Rank(n, U) /\ Rank(n, U) < lo + C
    BY <1>5
  <2>2. Rank(n, U) \in 0 .. Cardinality(U) - 1
    BY <2>1, RankInside
  <2> QED
    BY <1>1, <1>2, <2>1, <2>2
<1>8. f \in [S -> T]
  BY <1>7
<1>9. \A x, y \in S : f[x] = f[y] => x = y
  <2> SUFFICES ASSUME NEW x \in S, NEW y \in S, f[x] = f[y] PROVE x = y
    OBVIOUS
  <2>1. Rank(x, U) = Rank(y, U)
    BY <1>2, <1>7
  <2> QED
    BY <1>7, <2>1, RankOnce
<1>10. IsFiniteSet(T) /\ Cardinality(T) = C
  <2> DEFINE last == C - 1
  <2>1. last \in Int
    BY <1>1
  <2> HIDE DEF last
  <2>2. /\ IsFiniteSet(0 .. last)
        /\ Cardinality(0 .. last) = IF 0 > last THEN 0 ELSE last - 0 + 1
    BY <2>1, FS_Interval
  <2> QED
    BY <1>1, <2>2 DEF last
<1> HIDE DEF f, T
<1>11. f \in Injection(S, T)
  BY <1>8, <1>9 DEF Injection, IsInjective
<1>12. IsFiniteSet(S) /\ Cardinality(S) <= C
  BY <1>10, <1>11, FS_Injection
<1>13. Cardinality(S) \in Nat
  BY <1>12, FS_CardinalityType
<1>14. S \in SUBSET U
  BY <1>7
<1> QED
  BY <1>1, <1>6, <1>12, <1>13, <1>14 DEF S, C

\* Every unit is in the window that its rank names.
LEMMA SliceHolds ==
    ASSUME NEW U \in SUBSET Nat, IsFiniteSet(U), NEW n \in U
    PROVE  \E i \in 0 .. WindowCount(U) - 1 : n \in Slice(U, i)
<1> DEFINE r == Rank(n, U)
           C == Capacity
           i == r \div C
           m == r % C
<1>1. r \in 0 .. Cardinality(U) - 1 /\ r \in Nat
  <2>1. r \in 0 .. Cardinality(U) - 1
    BY RankInside
  <2>2. Cardinality(U) \in Nat
    BY FS_CardinalityType
  <2> HIDE DEF r
  <2> QED
    BY <2>1, <2>2
<1>2. C \in Nat \ {0}
  BY CapacityIsPositive
<1>3. i \in 0 .. WindowCount(U) - 1
  BY <1>1, WindowCountRoundsUp
<1> HIDE DEF r, C
<1>4. i \in Nat /\ m \in 0 .. C - 1 /\ r = C * i + m
  BY <1>1, <1>2, Division
<1> HIDE DEF i, m
<1>5. i * C = C * i /\ (i + 1) * C = C * i + C /\ C * i \in Nat
  BY <1>2, <1>4
<1>6. i * C <= r /\ r < (i + 1) * C
  BY <1>2, <1>4, <1>5
<1>7. n \in Slice(U, i)
  BY <1>6 DEF Slice, r, C
<1> QED
  BY <1>3, <1>7

\* The bucket that an ordinal serves (materialize_window.py:387).
LEMMA OrdinalServesBucket ==
    ASSUME NEW inv \in SUBSET Names, inv # {}, NEW o \in Nat
    PROVE  LET P == Cardinality(Prefixes(inv)) IN
           /\ P \in Nat \ {0}
           /\ \E p \in Prefixes(inv) :
                /\ Serves(inv, p, o)
                /\ p = CHOOSE q \in Prefixes(inv) : Serves(inv, q, o)
<1> DEFINE PS == Prefixes(inv)
           P == Cardinality(PS)
<1>1. PS \in SUBSET Nat /\ IsFiniteSet(PS)
  BY PrefixesAreFinite
<1>2. PS # {}
  BY DEF Prefixes
<1> HIDE DEF PS
<1>3. P \in Nat \ {0}
  BY <1>1, <1>2, FS_CardinalityType, FS_EmptySet
<1>4. o % P \in 0 .. P - 1
  BY <1>3, Division
<1>5. \E p \in PS : Serves(inv, p, o)
  <2>1. \E p \in PS : Rank(p, PS) = o % P
    BY <1>1, <1>4, RankOnto
  <2> QED
    BY <2>1 DEF Serves, PS
<1> DEFINE c == CHOOSE q \in PS : Serves(inv, q, o)
<1> HIDE DEF P
<1>6. c \in PS /\ Serves(inv, c, o)
  BY <1>5
<1> QED
  BY <1>3, <1>6 DEF PS, P

\* What a shard of any wave gets.
LEMMA WindowIsSlice ==
    ASSUME NEW inv \in SUBSET Names, NEW w \in Nat, NEW count \in Nat,
           NEW s \in Nat
    PROVE  LET win == Window(inv, w, count, s) IN
           /\ win \in SUBSET inv /\ win \cap Common = {} /\ IsFiniteSet(win)
           /\ Cardinality(win) \in 0 .. Capacity
           /\ \A p \in Prefixes(inv) : Serves(inv, p, w * count + s) =>
                win \subseteq Bucket(inv, p) /\ (win = {} => Bucket(inv, p) = {})
<1> DEFINE win == Window(inv, w, count, s)
           P == Cardinality(Prefixes(inv))
           o == w * count + s
           b == CHOOSE p \in Prefixes(inv) : Serves(inv, p, o)
           U == Bucket(inv, b)
           i == (o \div P) % WindowCount(U)
<1>1. Capacity \in Nat \ {0}
  BY CapacityIsPositive
<1>2. ASSUME win = {}
      PROVE  /\ win \in SUBSET inv /\ win \cap Common = {} /\ IsFiniteSet(win)
             /\ Cardinality(win) \in 0 .. Capacity
  <2>1. IsFiniteSet(win) /\ Cardinality(win) = 0
    BY <1>2, FS_EmptySet
  <2> HIDE DEF win
  <2>2. Cardinality(win) \in 0 .. Capacity
    BY <1>1, <2>1
  <2> QED
    BY <1>2, <2>1, <2>2
<1>3. CASE inv = {}
  <2>1. win = {} /\ Prefixes(inv) = {}
    BY <1>3 DEF Window, Prefixes
  <2> QED
    BY <1>2, <2>1
<1>4. CASE inv # {}
  <2>1. o \in Nat
    OBVIOUS
  <2> HIDE DEF o
  <2>2. P \in Nat \ {0} /\ b \in Prefixes(inv) /\ Serves(inv, b, o)
    BY <1>4, <2>1, OrdinalServesBucket
  <2>3. U \in SUBSET Nat /\ IsFiniteSet(U) /\ U \in SUBSET inv /\ U \cap Common = {}
    BY BucketIsFinite
  <2>4. WindowCount(U) \in Nat /\ (U = {} <=> WindowCount(U) = 0)
    BY <2>3, WindowCountRoundsUp
  <2>5. win = IF WindowCount(U) = 0 THEN {} ELSE Slice(U, i)
    BY <1>4 DEF Window, o
  <2>6. ASSUME NEW p \in Prefixes(inv), Serves(inv, p, o) PROVE p = b
    <3>1. Prefixes(inv) \in SUBSET Nat /\ IsFiniteSet(Prefixes(inv))
      BY PrefixesAreFinite
    <3> HIDE DEF b
    <3>2. Rank(p, Prefixes(inv)) = Rank(b, Prefixes(inv))
      BY <2>2, <2>6 DEF Serves
    <3> QED
      BY <2>2, <3>1, <3>2, RankOnce
  <2> HIDE DEF b
  <2>7. ASSUME win \subseteq U, win = {} => U = {}
        PROVE  \A p \in Prefixes(inv) : Serves(inv, p, w * count + s) =>
                  win \subseteq Bucket(inv, p) /\ (win = {} => Bucket(inv, p) = {})
    <3> HIDE DEF win
    <3> QED
      BY <2>6, <2>7 DEF o, U
  <2>8. CASE WindowCount(U) = 0
    <3>1. win = {} /\ U = {}
      BY <2>4, <2>5, <2>8
    <3>2. win \subseteq U /\ (win = {} => U = {})
      BY <3>1
    <3>3. \A p \in Prefixes(inv) : Serves(inv, p, w * count + s) =>
             win \subseteq Bucket(inv, p) /\ (win = {} => Bucket(inv, p) = {})
      BY <2>7, <3>2
    <3>4. /\ win \in SUBSET inv /\ win \cap Common = {} /\ IsFiniteSet(win)
          /\ Cardinality(win) \in 0 .. Capacity
      BY <1>2, <3>1
    <3> HIDE DEF win
    <3> QED
      BY <3>3, <3>4 DEF win
  <2>9. CASE WindowCount(U) # 0
    <3>1. o \div P \in Nat
      BY <2>1, <2>2, Division
    <3>2. i \in 0 .. WindowCount(U) - 1
      <4> DEFINE v == o \div P
                 W == WindowCount(U)
      <4>1. v \in Nat /\ W \in Nat \ {0}
        BY <2>4, <2>9, <3>1
      <4> HIDE DEF v, W
      <4>2. v % W \in 0 .. W - 1
        BY <4>1, Division
      <4> QED
        BY <4>2 DEF v, W
    <3> HIDE DEF i, U, win
    <3>3. win = Slice(U, i)
      BY <2>5, <2>9
    <3>4. /\ Slice(U, i) \in SUBSET U /\ Slice(U, i) # {}
          /\ IsFiniteSet(Slice(U, i))
          /\ Cardinality(Slice(U, i)) \in 0 .. Capacity
      BY <2>3, <3>2, SliceFits
    <3>5. /\ win \in SUBSET inv /\ win \cap Common = {} /\ win # {}
          /\ win \subseteq U
          /\ IsFiniteSet(win) /\ Cardinality(win) \in 0 .. Capacity
      BY <2>3, <3>3, <3>4
    <3> QED
      BY <2>7, <3>5 DEF win
  <2> QED
    BY <2>8, <2>9
<1> QED
  BY <1>3, <1>4

\* Windows and the public seeds together stay within WINDOW_SIZE.
LEMMA SeedsAndWindowFit ==
    ASSUME NEW W, IsFiniteSet(W), W \cap Common = {},
           Cardinality(W) \in 0 .. Capacity
    PROVE  Cardinality(Common \cup W) \in 1 .. WindowSize
<1> DEFINE c == Cardinality(Common)
           k == Cardinality(W)
<1>1. c \in Nat /\ 1 <= c /\ c < WindowSize /\ WindowSize \in Nat
      /\ IsFiniteSet(Common)
  BY WindowConstants, FS_CardinalityType
<1>2. k \in Nat /\ k <= WindowSize - c
  BY CapacityIsPositive DEF Capacity
<1>3. Cardinality(Common \cap W) = 0
  <2>1. Common \cap W = {}
    OBVIOUS
  <2> QED
    BY <2>1, FS_EmptySet
<1>4. Cardinality(Common \cup W) = c + k - Cardinality(Common \cap W)
  BY <1>1, FS_Union
<1> HIDE DEF c, k
<1> QED
  BY <1>1, <1>2, <1>3, <1>4

\* Any stretch of ordinals as long as the buckets times the windows of the
\* bucket of n serves n.
LEMMA StretchServes ==
    ASSUME NEW inv \in SUBSET Names, NEW n \in inv, n \notin Common, NEW a \in Nat
    PROVE  LET P == Cardinality(Prefixes(inv))
               W == WindowCount(Bucket(inv, Prefix(n)))
           IN  /\ P \in Nat /\ W \in Nat /\ P * W \in Nat \ {0}
               /\ \E o \in Nat :
                    /\ a <= o /\ o < a + P * W
                    /\ \A w, count, s \in Nat :
                         o = w * count + s => n \in Window(inv, w, count, s)
<1> DEFINE PS == Prefixes(inv)
           P == Cardinality(PS)
           U == Bucket(inv, Prefix(n))
           W == WindowCount(U)
           b == Rank(Prefix(n), PS)
<1>1. PS \in SUBSET Nat /\ IsFiniteSet(PS) /\ Prefix(n) \in PS
  BY PrefixesAreFinite DEF Prefixes
<1>2. U \in SUBSET Nat /\ IsFiniteSet(U) /\ n \in U
  <2>1. n \in U
    BY DEF Bucket
  <2> QED
    BY <2>1, BucketIsFinite
<1> HIDE DEF PS, U
<1>3. b \in 0 .. P - 1 /\ P \in Nat
  BY <1>1, RankInside, FS_CardinalityType
<1>4. W \in Nat
  BY <1>2, WindowCountRoundsUp
<1>5. PICK i \in 0 .. W - 1 : n \in Slice(U, i)
  BY <1>2, SliceHolds
<1> HIDE DEF P, W, b
<1>6. P \in Nat \ {0} /\ W \in Nat \ {0} /\ i \in Nat /\ i < W /\ b \in Nat
  BY <1>3, <1>4, <1>5
<1> DEFINE Q == P * W
           c == P * i + b
<1>7. Q \in Nat \ {0} /\ c \in 0 .. Q - 1
  <2>1. P * i + P <= P * W /\ P * i \in Nat /\ P * W \in Nat
    BY <1>6, TimesGrows
  <2> QED
    BY <1>3, <1>6, <2>1
<1> HIDE DEF Q, c
<1>8. PICK k \in Nat : a <= Q * k + c /\ Q * k + c < a + Q
  BY <1>7, ResidueIsNear
<1> DEFINE v == W * k + i
           o == P * v + b
<1>9. v \in Nat /\ v % W = i
  BY <1>5, <1>6, DivisionIsUnique
<1>10. Q * k + c = P * (W * k) + (P * i + b)
  <2>1. (P * W) * k = P * (W * k)
    BY <1>6
  <2> QED
    BY <2>1 DEF Q, c
<1>11. P * (W * k) + P * i = P * v
  <2> DEFINE x == W * k
  <2>1. x \in Nat
    BY <1>6
  <2> HIDE DEF x
  <2>2. P * x + P * i = P * (x + i)
    BY <1>6, <2>1
  <2> QED
    BY <2>2 DEF x
<1>12. Q * k + c = o
  <2>1. P * (W * k) \in Nat /\ P * i \in Nat
    BY <1>6
  <2> HIDE DEF v
  <2> QED
    BY <1>6, <1>9, <1>10, <1>11, <2>1
<1> HIDE DEF v
<1>13. o \in Nat /\ o \div P = v /\ o % P = b
  BY <1>3, <1>6, <1>9, DivisionIsUnique
<1> HIDE DEF o
<1>14. ASSUME NEW w \in Nat, NEW count \in Nat, NEW s \in Nat, o = w * count + s
       PROVE  n \in Window(inv, w, count, s)
  <2> DEFINE q == CHOOSE p \in PS : Serves(inv, p, o)
  <2>1. inv # {}
    OBVIOUS
  <2>2. q = Prefix(n)
    <3>1. Rank(Prefix(n), PS) = o % P
      BY <1>13 DEF b
    <3>2. q \in PS /\ Rank(q, PS) = o % P
      <4>1. Serves(inv, Prefix(n), o)
        BY <3>1 DEF Serves, P, PS
      <4>2. q \in PS /\ Serves(inv, q, o)
        BY <1>1, <4>1
      <4> QED
        BY <4>2 DEF Serves, P, PS
    <3> HIDE DEF q
    <3> QED
      BY <1>1, <3>1, <3>2, RankOnce
  <2> HIDE DEF q
  <2>3. Bucket(inv, q) = U
    BY <2>2 DEF U
  <2>4. Window(inv, w, count, s) =
           IF WindowCount(Bucket(inv, q)) = 0 THEN {}
           ELSE Slice(Bucket(inv, q), (o \div P) % WindowCount(Bucket(inv, q)))
    BY <1>14, <2>1 DEF Window, q, P, PS
  <2>5. Window(inv, w, count, s) = Slice(U, i)
    <3>1. WindowCount(U) = W
      BY DEF W
    <3> QED
      BY <1>6, <1>9, <1>13, <2>3, <2>4, <3>1
  <2> QED
    BY <1>5, <2>5
<1>15. a <= o /\ o < a + P * W
  BY <1>8, <1>12 DEF Q
<1> QED
  BY <1>6, <1>7, <1>13, <1>14, <1>15 DEF P, PS, W, U, Q

-----------------------------------------------------------------------------
(***************************************************************************)
(* The invariant.                                                          *)
(***************************************************************************)
WindowTypes ==
    /\ pool \in [Lanes -> SUBSET Names] /\ wave \in Nat
    /\ run \in [lane : Lanes, count : Nat \ {0}, inv : SUBSET Names]
    /\ phase \in {"idle", "hunting", "merged", "lost"}
    /\ phase \in {"hunting", "merged"} => wave # 0
    /\ hist \in [Lanes -> [count : Nat, last : Nat, streak : Nat,
                            near : SUBSET Names]]

\* A shard's window is a function of the plan, whenever it materialized.
ChosenIsPlanned ==
    /\ DOMAIN chosen \subseteq Shards
    /\ \A s \in DOMAIN chosen :
          chosen[s] = Window(run.inv, wave, run.count, s)

\* The history of a lane holds the windows of the latest `streak' waves, as
\* they would be scheduled over the pool of today.
Streak(l) ==
    {w \in Nat : w <= hist[l].last /\ hist[l].last < w + hist[l].streak}

HistoryHolds ==
    \A l \in Lanes :
        /\ hist[l].streak <= hist[l].last
        /\ \A w \in Streak(l), s \in 0 .. hist[l].count - 1 :
              Window(pool[l], w, hist[l].count, s) \subseteq hist[l].near

WindowInv == WindowTypes /\ ChosenIsPlanned /\ HistoryHolds

USE WindowConstants

LEMMA NoHistoryHolds ==
    /\ NoHistory \in [count : Nat, last : Nat, streak : Nat, near : SUBSET Names]
    /\ NoHistory.streak = 0 /\ NoHistory.last = 0
  BY DEF NoHistory

LEMMA InitWindow == Init => WindowInv
<1> SUFFICES ASSUME Init PROVE WindowInv
  OBVIOUS
<1>1. WindowTypes
  <2>1. pool \in [Lanes -> SUBSET Names] /\ wave \in Nat
    BY DEF Init
  <2>2. run \in [lane : Lanes, count : Nat \ {0}, inv : SUBSET Names]
    BY DEF Init
  <2>3. phase \in {"idle", "hunting", "merged", "lost"}
        /\ (phase \in {"hunting", "merged"} => wave # 0)
    BY DEF Init
  <2>4. hist \in [Lanes -> [count : Nat, last : Nat, streak : Nat,
                            near : SUBSET Names]]
    BY NoHistoryHolds DEF Init
  <2> QED
    BY <2>1, <2>2, <2>3, <2>4 DEF WindowTypes
<1>2. ChosenIsPlanned
  <2>1. DOMAIN chosen = {}
    BY DEF Init
  <2> QED
    BY <2>1 DEF ChosenIsPlanned
<1>3. HistoryHolds
  <2>1. \A l \in Lanes : hist[l].streak = 0 /\ hist[l].last = 0
    BY NoHistoryHolds DEF Init
  <2> QED
    BY <2>1 DEF HistoryHolds, Streak
<1> QED
  BY <1>1, <1>2, <1>3 DEF WindowInv

\* The units of a completed run are the windows of all its shards.
LEMMA AccountHolds ==
    ASSUME WindowInv
    PROVE  /\ Account \in [Lanes -> [count : Nat, last : Nat, streak : Nat,
                                     near : SUBSET Names]]
           /\ \A l \in Lanes :
                /\ Account[l].streak <= Account[l].last
                /\ \A w \in Nat, s \in 0 .. Account[l].count - 1 :
                      w <= Account[l].last /\ Account[l].last < w + Account[l].streak
                        => Window(pool[l], w, Account[l].count, s)
                             \subseteq Account[l].near
<1> DEFINE R == [count : Nat, last : Nat, streak : Nat, near : SUBSET Names]
           l == run.lane
           next == hist[l].count = run.count /\ hist[l].last + 1 = wave
           units == UNION {chosen[s] : s \in DOMAIN chosen}
           new == [count |-> run.count, last |-> wave,
                   streak |-> IF next THEN hist[l].streak + 1 ELSE 1,
                   near |-> IF next THEN hist[l].near \cup units ELSE units]
           Holds(r, p) ==
             /\ r.streak <= r.last
             /\ \A w \in Nat, s \in 0 .. r.count - 1 :
                   w <= r.last /\ r.last < w + r.streak
                     => Window(p, w, r.count, s) \subseteq r.near
<1>1. hist \in [Lanes -> R] /\ \A m \in Lanes : Holds(hist[m], pool[m])
  BY DEF WindowInv, WindowTypes, HistoryHolds, Streak
<1>2. NoHistory \in R /\ \A m \in Lanes : Holds(NoHistory, pool[m])
  BY NoHistoryHolds
<1>3. CASE phase \notin {"hunting", "merged"}
  BY <1>1, <1>3 DEF Account
<1>4. CASE phase \in {"hunting", "merged"}
  <2>1. l \in Lanes /\ run.count \in Nat \ {0} /\ run.inv \in SUBSET Names
        /\ wave \in Nat \ {0}
    BY <1>4 DEF WindowInv, WindowTypes
  <2>2. Account = [hist EXCEPT ![l] = IF ~Complete \/ pool[l] # run.inv
                                      THEN NoHistory ELSE new]
    BY <1>4 DEF Account
  <2>3. units \in SUBSET Names
    <3> SUFFICES ASSUME NEW s \in DOMAIN chosen PROVE chosen[s] \in SUBSET Names
      OBVIOUS
    <3>1. s \in Nat /\ chosen[s] = Window(run.inv, wave, run.count, s)
      BY <2>1 DEF WindowInv, ChosenIsPlanned, Shards
    <3>2. Window(run.inv, wave, run.count, s) \in SUBSET run.inv
      BY <2>1, <3>1, WindowIsSlice
    <3> QED
      BY <2>1, <3>1, <3>2
  <2>4. new \in R
    <3> HIDE DEF units
    <3> DEFINE k == IF next THEN hist[l].streak + 1 ELSE 1
               u == IF next THEN hist[l].near \cup units ELSE units
    <3>1. hist[l] \in R
      BY <1>1, <2>1
    <3>2. k \in Nat
      BY <3>1
    <3>3. u \in SUBSET Names
      BY <2>3, <3>1
    <3> HIDE DEF k, u
    <3>4. [count |-> run.count, last |-> wave, streak |-> k, near |-> u] \in R
      BY <2>1, <3>2, <3>3
    <3> QED
      BY <3>4 DEF k, u
  <2>5. ASSUME Complete, pool[l] = run.inv PROVE Holds(new, pool[l])
    <3> DEFINE h == hist[l]
    <3>0. h \in R /\ Holds(h, pool[l])
      BY <1>1, <2>1
    <3>1. \A s \in 0 .. run.count - 1 :
             Window(pool[l], wave, run.count, s) \subseteq units
      BY <2>5 DEF Complete, Shards, WindowInv, ChosenIsPlanned
    <3> HIDE DEF units
    <3>2. new.streak <= new.last
      BY <2>1, <3>0
    <3>3. ASSUME NEW w \in Nat, NEW s \in 0 .. run.count - 1,
                 w <= wave, wave < w + new.streak
          PROVE  Window(pool[l], w, run.count, s) \subseteq new.near
      <4>1. CASE w = wave
        BY <3>1, <4>1
      <4>2. CASE w # wave
        <5>1. next /\ w <= h.last /\ h.last < w + h.streak
          BY <2>1, <3>0, <3>3, <4>2
        <5>2. Window(pool[l], w, h.count, s) \subseteq h.near
          BY <3>0, <5>1
        <5> QED
          BY <5>1, <5>2
      <4> QED
        BY <4>1, <4>2
    <3> QED
      BY <3>2, <3>3
  <2> HIDE DEF new, Holds, R
  <2>6. Account \in [Lanes -> R]
    BY <1>1, <1>2, <2>1, <2>2, <2>4
  <2>7. \A m \in Lanes : Holds(Account[m], pool[m])
    <3> SUFFICES ASSUME NEW m \in Lanes PROVE Holds(Account[m], pool[m])
      OBVIOUS
    <3>1. CASE m # l
      <4>1. Account[m] = hist[m]
        BY <1>1, <2>2, <3>1
      <4> QED
        BY <1>1, <4>1
    <3>2. CASE m = l
      <4>1. Account[m] = IF ~Complete \/ pool[l] # run.inv THEN NoHistory ELSE new
        BY <1>1, <2>1, <2>2, <3>2
      <4>2. CASE ~Complete \/ pool[l] # run.inv
        BY <1>2, <3>2, <4>1, <4>2
      <4>3. CASE Complete /\ pool[l] = run.inv
        BY <2>5, <3>2, <4>1, <4>3
      <4> QED
        BY <4>2, <4>3
    <3> QED
      BY <3>1, <3>2
  <2> QED
    BY <2>6, <2>7 DEF R, Holds
<1> QED
  BY <1>3, <1>4

LEMMA WindowStep == WindowInv /\ [Next]_vars => WindowInv'
<1> SUFFICES ASSUME WindowInv, [Next]_vars PROVE WindowInv'
  OBVIOUS
<1> DEFINE R == [count : Nat, last : Nat, streak : Nat, near : SUBSET Names]
<1>0. /\ pool \in [Lanes -> SUBSET Names] /\ wave \in Nat
      /\ run \in [lane : Lanes, count : Nat \ {0}, inv : SUBSET Names]
      /\ phase \in {"idle", "hunting", "merged", "lost"}
      /\ phase \in {"hunting", "merged"} => wave # 0
      /\ hist \in [Lanes -> R]
  BY DEF WindowInv, WindowTypes
<1>1. CASE \E l \in Lanes, count \in ShardCounts : Plan(l, count)
  <2>1. PICK l \in Lanes, count \in ShardCounts : Plan(l, count)
    BY <1>1
  <2>2. /\ pool' = pool /\ wave' = wave + 1 /\ phase' = "hunting"
        /\ run' = [lane |-> l, count |-> count, inv |-> pool[l]]
        /\ DOMAIN chosen' = {} /\ hist' = Account
    BY <2>1 DEF Plan
  <2>3. WindowTypes'
    <3>1. run' \in [lane : Lanes, count : Nat \ {0}, inv : SUBSET Names]
      BY <1>0, <2>2
    <3>2. hist' \in [Lanes -> R]
      BY <2>2, AccountHolds
    <3> QED
      BY <1>0, <2>2, <3>1, <3>2 DEF WindowTypes
  <2>4. ChosenIsPlanned'
    BY <2>2 DEF ChosenIsPlanned
  <2>5. HistoryHolds'
    BY <2>2, AccountHolds DEF HistoryHolds, Streak
  <2> QED
    BY <2>3, <2>4, <2>5 DEF WindowInv
<1>2. CASE Lose
  <2>1. /\ pool' = pool /\ wave' = wave + 1 /\ phase' = "lost" /\ run' = run
        /\ DOMAIN chosen' = {} /\ hist' = [l \in Lanes |-> NoHistory]
    BY <1>2 DEF Lose
  <2>2. WindowTypes'
    BY <1>0, <2>1, NoHistoryHolds DEF WindowTypes
  <2>3. ChosenIsPlanned'
    BY <2>1 DEF ChosenIsPlanned
  <2>4. HistoryHolds'
    <3>1. \A l \in Lanes : hist'[l].streak = 0 /\ hist'[l].last = 0
      BY <2>1, NoHistoryHolds
    <3> QED
      BY <3>1 DEF HistoryHolds, Streak
  <2> QED
    BY <2>2, <2>3, <2>4 DEF WindowInv
<1>3. CASE \E s \in Shards : materialize(s)
  <2>1. PICK s \in Shards : materialize(s)
    BY <1>3
  <2>2. /\ chosen' = [x \in DOMAIN chosen \cup {s} |->
                        IF x = s THEN Window(run.inv, wave, run.count, s)
                        ELSE chosen[x]]
        /\ pool' = pool /\ wave' = wave /\ run' = run /\ phase' = phase
        /\ hist' = hist
    BY <2>1 DEF materialize
  <2>3. WindowTypes'
    BY <1>0, <2>2 DEF WindowTypes
  <2>4. ChosenIsPlanned'
    BY <2>1, <2>2 DEF ChosenIsPlanned, Shards, WindowInv
  <2>5. HistoryHolds'
    BY <2>2 DEF HistoryHolds, Streak, WindowInv
  <2> QED
    BY <2>3, <2>4, <2>5 DEF WindowInv
<1>4. CASE \E new \in New : Aggregate(new)
  <2>1. PICK new \in New : Aggregate(new)
    BY <1>4
  <2>2. /\ phase = "hunting" /\ phase' = "merged"
        /\ pool' = [pool EXCEPT ![run.lane] = @ \cup new]
        /\ hist' = IF new = {} THEN hist
                   ELSE [hist EXCEPT ![run.lane] = NoHistory]
        /\ wave' = wave /\ run' = run /\ chosen' = chosen
    BY <2>1 DEF Aggregate
  <2>3. new \in SUBSET Names
    BY <2>1, <2>2 DEF New
  <2>4. WindowTypes'
    <3>1. pool' \in [Lanes -> SUBSET Names]
      BY <1>0, <2>2, <2>3
    <3>2. hist' \in [Lanes -> R]
      BY <1>0, <2>2, NoHistoryHolds
    <3> QED
      BY <1>0, <2>2, <3>1, <3>2 DEF WindowTypes
  <2>5. ChosenIsPlanned'
    BY <2>2 DEF ChosenIsPlanned, Shards, WindowInv
  <2>6. HistoryHolds'
    <3>1. ASSUME NEW l \in Lanes, pool'[l] = pool[l], hist'[l] = hist[l]
          PROVE  /\ hist'[l].streak <= hist'[l].last
                 /\ \A w \in Streak(l)', s \in 0 .. hist'[l].count - 1 :
                      Window(pool'[l], w, hist'[l].count, s) \subseteq hist'[l].near
      BY <3>1 DEF WindowInv, HistoryHolds, Streak
    <3>2. ASSUME NEW l \in Lanes, hist'[l] = NoHistory
          PROVE  /\ hist'[l].streak <= hist'[l].last
                 /\ \A w \in Streak(l)', s \in 0 .. hist'[l].count - 1 :
                      Window(pool'[l], w, hist'[l].count, s) \subseteq hist'[l].near
      BY <3>2, NoHistoryHolds DEF Streak
    <3>3. \A l \in Lanes : \/ pool'[l] = pool[l] /\ hist'[l] = hist[l]
                           \/ hist'[l] = NoHistory
      BY <1>0, <2>2
    <3> QED
      BY <3>1, <3>2, <3>3 DEF HistoryHolds
  <2> QED
    BY <2>4, <2>5, <2>6 DEF WindowInv
<1>5. CASE UNCHANGED vars
  BY <1>5 DEF vars, WindowInv, WindowTypes, ChosenIsPlanned, HistoryHolds, Streak,
     Shards
<1> QED
  BY <1>1, <1>2, <1>3, <1>4, <1>5 DEF Next

LEMMA WindowInvHolds == Spec => []WindowInv
<1> QED
  BY InitWindow, WindowStep, PTL DEF Spec

-----------------------------------------------------------------------------
(***************************************************************************)
(* The theorems.                                                           *)
(***************************************************************************)

\* The check of hunt.yml:235-236 never fails a shard: whatever the pool and the
\* wave, a window with the public seeds has between 1 and WINDOW_SIZE units, all
\* of the bucket that the shard's ordinal selects, and it is empty only when the
\* private part of that very bucket is (materialize_window.py:382-401).
THEOREM WindowsFit == Spec => []WindowFits
<1>1. WindowInv => WindowFits
  <2> SUFFICES ASSUME WindowInv, NEW s \in DOMAIN chosen
               PROVE  /\ Cardinality(Common \cup chosen[s]) \in 1 .. WindowSize
                      /\ chosen[s] \cap Common = {} /\ chosen[s] \subseteq run.inv
                      /\ \A p \in Prefixes(run.inv) :
                            Serves(run.inv, p, wave * run.count + s) =>
                              /\ chosen[s] \subseteq Bucket(run.inv, p)
                              /\ chosen[s] = {} => Bucket(run.inv, p) = {}
    BY DEF WindowFits
  <2>1. /\ run.inv \in SUBSET Names /\ wave \in Nat /\ run.count \in Nat
        /\ s \in Nat
    BY DEF WindowInv, WindowTypes, ChosenIsPlanned, Shards
  <2>2. chosen[s] = Window(run.inv, wave, run.count, s)
    BY DEF WindowInv, ChosenIsPlanned
  <2>3. /\ chosen[s] \in SUBSET run.inv /\ chosen[s] \cap Common = {}
        /\ IsFiniteSet(chosen[s]) /\ Cardinality(chosen[s]) \in 0 .. Capacity
        /\ \A p \in Prefixes(run.inv) :
              Serves(run.inv, p, wave * run.count + s) =>
                /\ chosen[s] \subseteq Bucket(run.inv, p)
                /\ chosen[s] = {} => Bucket(run.inv, p) = {}
    <3> DEFINE inv == run.inv
               count == run.count
               win == Window(inv, wave, count, s)
    <3> HIDE DEF inv, count
    <3>1. /\ win \in SUBSET inv /\ win \cap Common = {} /\ IsFiniteSet(win)
          /\ Cardinality(win) \in 0 .. Capacity
          /\ \A p \in Prefixes(inv) : Serves(inv, p, wave * count + s) =>
               win \subseteq Bucket(inv, p) /\ (win = {} => Bucket(inv, p) = {})
      <4>1. inv \in SUBSET Names /\ wave \in Nat /\ count \in Nat /\ s \in Nat
        BY <2>1 DEF inv, count
      <4> QED
        BY <4>1, WindowIsSlice
    <3>2. chosen[s] = win
      BY <2>2 DEF inv, count
    <3> HIDE DEF win
    <3> QED
      BY <3>1, <3>2 DEF inv, count
  <2>4. Cardinality(Common \cup chosen[s]) \in 1 .. WindowSize
    BY <2>3, SeedsAndWindowFit
  <2> QED
    BY <2>3, <2>4
<1> QED
  BY <1>1, WindowInvHolds, PTL

\* "retries of a pinned wave remain stable": within a wave no shard ever gets
\* another window than the one it had, whatever is aggregated in between.
THEOREM RetriesGetTheSame == Spec => RetriesAreStable
<1>1. WindowInv /\ [Next]_vars =>
        [ wave' = wave =>
            \A s \in DOMAIN chosen :
                s \in DOMAIN chosen' /\ chosen'[s] = chosen[s] ]_vars
  <2> SUFFICES ASSUME WindowInv, [Next]_vars, wave' = wave
               PROVE  \A s \in DOMAIN chosen :
                         s \in DOMAIN chosen' /\ chosen'[s] = chosen[s]
    OBVIOUS
  <2>0. wave \in Nat
    BY DEF WindowInv, WindowTypes
  <2>1. CASE \E l \in Lanes, count \in ShardCounts : Plan(l, count)
    BY <2>0, <2>1 DEF Plan
  <2>2. CASE Lose
    BY <2>0, <2>2 DEF Lose
  <2>3. CASE \E s \in Shards : materialize(s)
    <3>1. PICK s \in Shards : materialize(s)
      BY <2>3
    <3>2. \A x \in DOMAIN chosen : chosen[x] = Window(run.inv, wave, run.count, x)
      BY DEF WindowInv, ChosenIsPlanned
    <3> QED
      BY <3>1, <3>2 DEF materialize
  <2>4. CASE \E new \in New : Aggregate(new)
    BY <2>4 DEF Aggregate
  <2>5. CASE UNCHANGED vars
    BY <2>5 DEF vars
  <2> QED
    BY <2>1, <2>2, <2>3, <2>4, <2>5 DEF Next
<1> QED
  BY <1>1, WindowInvHolds, PTL DEF Spec, RetriesAreStable

\* The buckets times the longest bucket's windows bound what any unit needs.
LEMMA EnoughIsEnough ==
    ASSUME WindowInv, NEW l \in Lanes, NEW p \in Prefixes(pool[l])
    PROVE  /\ Enough(l) \in Nat
           /\ Cardinality(Prefixes(pool[l])) * WindowCount(Bucket(pool[l], p))
                <= Enough(l)
<1> DEFINE inv == pool[l]
           PS == Prefixes(inv)
           P == Cardinality(PS)
           wc(q) == WindowCount(Bucket(inv, q))
           A == {wc(q) : q \in PS}
           f == [q \in PS |-> wc(q)]
<1>1. inv \in SUBSET Names
  BY DEF WindowInv, WindowTypes
<1> HIDE DEF inv
<1>2. IsFiniteSet(PS)
  BY <1>1, PrefixesAreFinite
<1>3. P \in Nat
  BY <1>2, FS_CardinalityType
<1>4. \A q \in PS : wc(q) \in Nat
  <2> SUFFICES ASSUME NEW q \in PS PROVE wc(q) \in Nat
    OBVIOUS
  <2> DEFINE U == Bucket(inv, q)
  <2>1. U \in SUBSET Nat /\ IsFiniteSet(U)
    BY <1>1, BucketIsFinite
  <2> HIDE DEF U
  <2>2. WindowCount(U) \in Nat
    BY <2>1, WindowCountRoundsUp
  <2> QED
    BY <2>2 DEF U
<1> HIDE DEF wc, PS
<1>5. IsFiniteSet(A)
  <2>1. f \in [PS -> A] /\ \A x \in A : \E q \in PS : f[q] = x
    OBVIOUS
  <2> HIDE DEF f, A
  <2>2. f \in Surjection(PS, A)
    BY <2>1 DEF Surjection
  <2> QED
    BY <1>2, <2>2, FS_Surjection
<1> DEFINE B == A \cup {0}
           M == Max(B)
<1>6. B \in SUBSET Nat /\ B # {}
  BY <1>4
<1>7. IsFiniteSet(B)
  <2> HIDE DEF A
  <2> QED
    BY <1>5, FS_AddElement
<1>8. p \in PS
  BY DEF PS, inv
<1>9. wc(p) \in B
  BY <1>8
<1> HIDE DEF A, B, f
<1>10. M \in Nat /\ wc(p) <= M /\ wc(p) \in Nat
  <2>1. M \in B /\ \A y \in B : y <= M
    BY <1>6, <1>7, MaxIsUpperBound
  <2> QED
    BY <1>6, <1>9, <2>1
<1> HIDE DEF M, P
<1>11. P * wc(p) <= P * M /\ P * M \in Nat
  <2>1. CASE wc(p) = M
    BY <1>3, <1>10, <2>1
  <2>2. CASE wc(p) < M
    BY <1>3, <1>10, <2>2, TimesGrows
  <2> QED
    BY <1>10, <2>1, <2>2
<1>12. Enough(l) = P * M
  BY DEF Enough, P, M, B, A, PS, wc, inv
<1> QED
  BY <1>11, <1>12 DEF P, PS, wc, inv

Spans(last, streak, count, o) ==
    \E w \in Nat, s \in 0 .. count - 1 :
        w <= last /\ last < w + streak /\ o = w * count + s

\* A shard of one of the waves of a streak serves each ordinal of the stretch
\* that the streak spans.
LEMMA StreakSpans ==
    ASSUME NEW last \in Nat, NEW streak \in Nat, streak <= last,
           NEW count \in Nat \ {0}, NEW a \in Nat, NEW o \in Nat,
           a = count * (last - streak + 1), a <= o, o < a + streak * count
    PROVE  Spans(last, streak, count, o)
<1> DEFINE w == o \div count
           s == o % count
           f == last - streak + 1
<1>1. w \in Nat /\ s \in 0 .. count - 1 /\ o = count * w + s
  BY Division
<1>2. f \in Nat
  OBVIOUS
<1>3. count * f + streak * count = count * (last + 1)
  <2>1. streak * count = count * streak
    OBVIOUS
  <2>2. count * f + count * streak = count * (f + streak)
    BY <1>2
  <2>3. f + streak = last + 1
    OBVIOUS
  <2> HIDE DEF f
  <2> QED
    BY <2>1, <2>2, <2>3
<1> HIDE DEF w, s
<1>4. ~(w < f)
  <2> SUFFICES ASSUME w < f PROVE FALSE
    OBVIOUS
  <2> HIDE DEF f
  <2>1. count * w + count <= count * f /\ count * w \in Nat /\ count * f \in Nat
    BY <1>1, <1>2, TimesGrows
  <2>2. count * f <= o
    BY DEF f
  <2> QED
    BY <1>1, <2>1, <2>2
<1>5. ~(last < w)
  <2> SUFFICES ASSUME last < w PROVE FALSE
    OBVIOUS
  <2> DEFINE e == last + 1
  <2>1. e \in Nat /\ e <= w
    BY <1>1
  <2> HIDE DEF e, f
  <2>2. count * e <= count * w /\ count * w \in Nat /\ count * e \in Nat
    <3>1. CASE e = w
      BY <1>1, <2>1, <3>1
    <3>2. CASE e < w
      BY <1>1, <2>1, <3>2, TimesGrows
    <3> QED
      BY <1>1, <2>1, <3>1, <3>2
  <2>3. o < count * e
    BY <1>3 DEF e, f
  <2> QED
    BY <1>1, <2>2, <2>3
<1>6. w <= last /\ last < w + streak
  BY <1>1, <1>4, <1>5
<1>7. o = w * count + s
  BY <1>1
<1> QED
  BY <1>1, <1>6, <1>7 DEF Spans

\* For every pool, window size, shard count and starting point: consecutive
\* complete waves of a lane with buckets times windows of the longest bucket
\* shards have fuzzed every private unit of an unchanged pool
\* (materialize_window.py:382-399).
THEOREM StreaksCoverThePool == Spec => []CoverageBound
<1>1. WindowInv => CoverageBound
  <2> SUFFICES ASSUME WindowInv, NEW l \in Lanes, hist[l].streak > 0,
                      hist[l].streak * hist[l].count >= Enough(l),
                      NEW n \in pool[l], n \notin Common
               PROVE  n \in hist[l].near
    BY DEF CoverageBound
  <2> DEFINE inv == pool[l]
             last == hist[l].last
             streak == hist[l].streak
             count == hist[l].count
             P == Cardinality(Prefixes(inv))
             W == WindowCount(Bucket(inv, Prefix(n)))
             a == count * (last - streak + 1)
  <2>1. /\ inv \in SUBSET Names /\ last \in Nat /\ streak \in Nat
        /\ count \in Nat /\ streak <= last
    BY DEF WindowInv, WindowTypes, HistoryHolds
  <2>2. P * W <= streak * count /\ Enough(l) \in Nat
    <3>1. Prefix(n) \in Prefixes(pool[l])
      BY DEF Prefixes
    <3>2. Enough(l) \in Nat /\ P * W <= Enough(l)
      BY <3>1, EnoughIsEnough
    <3>3. P \in Nat /\ W \in Nat /\ P * W \in Nat
      <4>1. 0 \in Nat
        OBVIOUS
      <4> HIDE DEF inv
      <4>2. n \in inv
        BY DEF inv
      <4> QED
        BY <2>1, <4>1, <4>2, StretchServes
    <3> HIDE DEF P, W
    <3> QED
      BY <2>1, <3>2, <3>3
  <2>3. \A w \in Nat, s \in 0 .. count - 1 :
           w <= last /\ last < w + streak
             => Window(inv, w, count, s) \subseteq hist[l].near
    BY DEF WindowInv, HistoryHolds, Streak
  <2>4. n \in inv
    OBVIOUS
  <2> HIDE DEF inv, last, streak, count
  <2>5. a \in Nat
    BY <2>1
  <2> HIDE DEF a
  <2>6. /\ P \in Nat /\ W \in Nat /\ P * W \in Nat \ {0}
        /\ \E o \in Nat :
              /\ a <= o /\ o < a + P * W
              /\ \A w, c, s \in Nat :
                    o = w * c + s => n \in Window(inv, w, c, s)
    BY <2>1, <2>4, <2>5, StretchServes
  <2> HIDE DEF P, W
  <2>7. count # 0
    BY <2>1, <2>2, <2>6
  <2>8. PICK o \in Nat : /\ a <= o /\ o < a + P * W
                         /\ \A w, c, s \in Nat :
                               o = w * c + s => n \in Window(inv, w, c, s)
    BY <2>6
  <2>9. o < a + streak * count
    BY <2>1, <2>2, <2>5, <2>6, <2>8
  <2>10. Spans(last, streak, count, o)
    <3>1. count \in Nat \ {0}
      BY <2>1, <2>7
    <3>2. a = count * (last - streak + 1)
      BY DEF a
    <3> QED
      BY <2>1, <2>5, <2>8, <2>9, <3>1, <3>2, StreakSpans
  <2>11. PICK w \in Nat, s \in 0 .. count - 1 :
            w <= last /\ last < w + streak /\ o = w * count + s
    BY <2>10 DEF Spans
  <2>12. n \in Window(inv, w, count, s)
    BY <2>1, <2>8, <2>11
  <2> QED
    BY <2>3, <2>11, <2>12
<1> QED
  BY <1>1, WindowInvHolds, PTL
=============================================================================
