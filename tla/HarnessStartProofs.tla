------------------------- MODULE HarnessStartProofs -------------------------
(***************************************************************************)
(* What a program of the harness has when it accepts its first input: the  *)
(* fixture it loaded, and the deterministic generator it installed.  The   *)
(* two specifications share no variable; their theorems share arithmetic.  *)
(*                                                                         *)
(* The fixture, for every width of a count, any command lines of           *)
(* mk_snapshot and any number of its invocations: mk_snapshot reports      *)
(* success only of a file that holds all of what was asked for, and a      *)
(* program runs only with a snapshot that can complete a ceremony.  The    *)
(* invariant says what is in the file at every moment - the beginning of   *)
(* one buffer, or a whole one with one field damaged - and two lemmas say  *)
(* what can be read from it: of the beginnings of a buffer only the whole  *)
(* is accepted (ReadsBack), and no damage of a share is (DamageIsHarmless).*)
(*                                                                         *)
(* The generator, for every block size, any sizes of draws and any number  *)
(* of cases and processes: a single-session target gives the library the   *)
(* same bytes for the same input, and no case gets a byte twice.  The      *)
(* state of the stream after d bytes is described by one equation,         *)
(* BlockSize * counter + used = d + BlockSize, from which the byte i       *)
(* positions ahead is the byte (d + i) % BlockSize of the block            *)
(* (d + i) \div BlockSize: a function of the key and of d + i alone.       *)
(***************************************************************************)
EXTENDS DetRand, Fixture, FiniteSetTheorems, NaturalsInduction,
        WellFoundedInduction, TLAPS

-----------------------------------------------------------------------------
(***************************************************************************)
(* Quotients and remainders.                                               *)
(***************************************************************************)
LEMMA Division ==
    ASSUME NEW a \in Nat, NEW b \in Nat \ {0}
    PROVE  /\ a \div b \in Nat /\ a % b \in 0 .. b - 1
           /\ a = b * (a \div b) + (a % b)
  OBVIOUS

LEMMA DivisionIsUnique ==
    ASSUME NEW b \in Nat \ {0}, NEW a \in Nat, NEW q \in Nat,
           NEW r \in 0 .. b - 1, a = b * q + r
    PROVE  a \div b = q /\ a % b = r
<1> DEFINE p == a \div b
           m == a % b
<1>1. p \in Nat /\ m \in 0 .. b - 1 /\ a = b * p + m
  BY Division
<1> HIDE DEF p, m
<1>2. \A x, y \in Nat : x < y => b * x + b <= b * y /\ b * x \in Nat /\ b * y \in Nat
  OBVIOUS
<1>3. b * p \in Nat /\ b * q \in Nat
  BY <1>1
<1>4. ~(p < q) /\ ~(q < p)
  BY <1>1, <1>2, <1>3
<1>5. p = q
  BY <1>1, <1>4
<1> QED
  BY <1>1, <1>3, <1>5 DEF p, m

LEMMA BelowIsItself ==
    ASSUME NEW b \in Nat \ {0}, NEW a \in 0 .. b - 1
    PROVE  a % b = a
  OBVIOUS

-----------------------------------------------------------------------------
(***************************************************************************)
(* Where a field of the file is.                                           *)
(***************************************************************************)

\* The place of the column c of the player i.
Place(i, c) == HeaderLen + Width * (i - 1) + c

LEMMA WidthIs == Width = 7 /\ HeaderLen = 8
  BY DEF Width, PlayerFields, HeaderLen

LEMMA SevenColumns ==
    ASSUME NEW j \in Nat, NEW c \in 1 .. 7
    PROVE  (7 * j + c - 1) \div 7 = j /\ (7 * j + c - 1) % 7 = c - 1
  OBVIOUS

LEMMA PlaceIs ==
    ASSUME NEW n \in Nat, NEW i \in 1 .. n, NEW c \in 1 .. 7
    PROVE  /\ Place(i, c) \in 9 .. 8 + 7 * n
           /\ Owner(Place(i, c)) = i /\ Column(Place(i, c)) = c
<1> DEFINE j == i - 1
<1>1. j \in Nat /\ j + 1 = i /\ j < n
  OBVIOUS
<1> HIDE DEF j
<1>2. Place(i, c) = 8 + 7 * j + c
  BY <1>1, WidthIs DEF Place, j
<1>3. (7 * j + c - 1) \div 7 = j /\ (7 * j + c - 1) % 7 = c - 1
  BY <1>1, SevenColumns
<1>4. Place(i, c) - 8 - 1 = 7 * j + c - 1
  BY <1>1, <1>2
<1>5. Place(i, c) \in 9 .. 8 + 7 * n
  BY <1>1, <1>2
<1>6. Owner(Place(i, c)) = 1 + j /\ Column(Place(i, c)) = 1 + (c - 1)
  BY <1>3, <1>4, WidthIs DEF Owner, Column
<1> QED
  BY <1>1, <1>5, <1>6

LEMMA OwnerIs ==
    ASSUME NEW n \in Nat, NEW k \in 9 .. 8 + 7 * n
    PROVE  Owner(k) \in 1 .. n
<1> DEFINE a == k - 9
           q == a \div 7
<1>1. a \in Nat /\ a < 7 * n
  OBVIOUS
<1> HIDE DEF a
<1>2. q \in Nat /\ 7 * q <= a
  BY <1>1
<1>3. k - HeaderLen - 1 = a
  BY WidthIs DEF a
<1>4. Owner(k) = 1 + q
  BY <1>3, WidthIs DEF Owner
<1> HIDE DEF q
<1> QED
  BY <1>1, <1>2, <1>4

-----------------------------------------------------------------------------
(***************************************************************************)
(* Snapshots.                                                              *)
(***************************************************************************)

PlayerIs(p) ==
    p = [id |-> p.id, share |-> p.share, public_share |-> p.public_share,
         paillier_pub |-> p.paillier_pub, paillier_priv |-> p.paillier_priv,
         rp_pub |-> p.rp_pub, rp_priv |-> p.rp_priv]

\* A snapshot whose counts fit a byte.
SnapshotIs(s) ==
    /\ s = [algorithm |-> s.algorithm, seed |-> s.seed,
            public_key |-> s.public_key, t |-> s.t, n |-> s.n,
            players |-> s.players]
    /\ Len(s.players) \in Nat
    /\ s.players = [i \in 1 .. Len(s.players) |-> s.players[i]]
    /\ s.t \in 0 .. ByteSize - 1 /\ s.n \in 0 .. ByteSize - 1
    /\ \A i \in 1 .. Len(s.players) : PlayerIs(s.players[i])

\* Equal ids have equal shares: the share is a digest of the id.
SharesAreIds(s) ==
    \A i \in 1 .. Len(s.players) : s.players[i].share = Share(s.players[i].id)

Whole(s) ==
    /\ SnapshotIs(s) /\ verify_snapshot(s) /\ SharesAreIds(s)
    /\ s.algorithm = 0
    /\ \A i \in 1 .. Len(s.players) : s.players[i].id \in Nat

\* What generate_snapshot made of a request and verify_snapshot accepted.
GeneratedFor(s, r) ==
    /\ Whole(s)
    /\ Len(s.players) = Len(r.ids) /\ s.n = Len(r.ids)
    /\ \A i \in 1 .. Len(s.players) : s.players[i].id = r.ids[i]
    /\ s.t = IF r.t % ByteSize = 0 THEN s.n ELSE r.t % ByteSize

LEMMA GeneratedFits ==
    ASSUME NEW r \in Requests, NEW s,
           s = generate_snapshot(r.seed, r.ids, r.t % ByteSize)
    PROVE  {s.t, s.n} \subseteq 0 .. ByteSize - 1
<1>1. Len(r.ids) \in Nat /\ r.t \in Nat /\ ByteSize \in Nat \ {0}
  BY FixtureConstants
<1>2. /\ Len(r.ids) % ByteSize \in 0 .. ByteSize - 1
      /\ r.t % ByteSize \in 0 .. ByteSize - 1
  BY <1>1, Division
<1>3. /\ s.n = Len(r.ids) % ByteSize
      /\ s.t = IF r.t % ByteSize = 0 THEN Len(r.ids) % ByteSize
               ELSE r.t % ByteSize
  BY DEF generate_snapshot, Threshold
<1> QED
  BY <1>2, <1>3

LEMMA GeneratedAlgorithm ==
    ASSUME NEW r, NEW s, s = generate_snapshot(r.seed, r.ids, r.t % ByteSize)
    PROVE  s.algorithm = 0
  BY DEF generate_snapshot

LEMMA GeneratedIs ==
    ASSUME NEW r \in Requests, NEW s,
           s = generate_snapshot(r.seed, r.ids, r.t % ByteSize),
           verify_snapshot(s)
    PROVE  GeneratedFor(s, r)
<1> DEFINE P == [i \in DOMAIN r.ids |-> Player(r.seed, r.ids[i], i)]
           th == Threshold(r.t % ByteSize, r.ids)
<1>1. /\ Len(r.ids) \in Nat /\ DOMAIN r.ids = 1 .. Len(r.ids)
      /\ \A i \in 1 .. Len(r.ids) : r.ids[i] \in Nat
  BY FixtureConstants
<1>2. s = [algorithm |-> 0, seed |-> 0, public_key |-> AggregateKey(P, th),
           t |-> th, n |-> Len(r.ids) % ByteSize, players |-> P]
  BY DEF generate_snapshot
<1>3. s.players = P /\ Len(P) = Len(r.ids) /\ DOMAIN P = 1 .. Len(r.ids)
  <2>1. s.players = P /\ P = [i \in 1 .. Len(r.ids) |-> Player(r.seed, r.ids[i], i)]
    BY <1>1, <1>2
  <2> HIDE DEF P
  <2> QED
    BY <1>1, <2>1
<1>4. \A i \in 1 .. Len(P) :
         PlayerIs(P[i]) /\ P[i].id = r.ids[i] /\ P[i].share = Share(P[i].id)
  BY <1>1, <1>3 DEF Player, PlayerIs
<1>5. P = [i \in 1 .. Len(P) |-> P[i]]
  BY <1>1, <1>3
<1>6. s = [algorithm |-> s.algorithm, seed |-> s.seed,
           public_key |-> s.public_key, t |-> s.t, n |-> s.n,
           players |-> s.players]
  BY <1>2
<1>7. /\ s.n = Len(r.ids) % ByteSize
      /\ s.t = IF r.t % ByteSize = 0 THEN Len(r.ids) % ByteSize
               ELSE r.t % ByteSize
  BY <1>2 DEF Threshold
<1> HIDE DEF P, th
<1>8. s.n = Len(r.ids)
  BY <1>3 DEF verify_snapshot
<1>9. s.t = IF r.t % ByteSize = 0 THEN s.n ELSE r.t % ByteSize
  BY <1>7
<1>10. SnapshotIs(s)
  BY <1>1, <1>3, <1>4, <1>5, <1>6, GeneratedFits DEF SnapshotIs
<1>11. Whole(s)
  <2>1. s.algorithm = 0
    BY GeneratedAlgorithm
  <2> QED
    BY <1>1, <1>3, <1>4, <1>10, <2>1 DEF Whole, SharesAreIds
<1> QED
  BY <1>3, <1>4, <1>8, <1>9, <1>11 DEF GeneratedFor

-----------------------------------------------------------------------------
(***************************************************************************)
(* The file and what is read from it.                                      *)
(***************************************************************************)

\* The fields of f are the first k of the buffer of s.
Holds(f, s, k) ==
    /\ f.fields = [i \in 1 .. k |-> Serialized(s)[i]]
    /\ f.partial => k < FieldCount(s)

FileIsCut(f, s) ==
    /\ f = [fields |-> f.fields, partial |-> f.partial] /\ f.partial \in BOOLEAN
    /\ \E k \in 0 .. FieldCount(s) : Holds(f, s, k)

LEMMA FieldCountIs ==
    ASSUME NEW s, SnapshotIs(s)
    PROVE  FieldCount(s) = 8 + 7 * Len(s.players) /\ FieldCount(s) \in Nat
  BY WidthIs DEF FieldCount, SnapshotIs

LEMMA HeaderFields ==
    ASSUME NEW s, SnapshotIs(s), NEW k \in 1 .. 8
    PROVE  k \in 1 .. FieldCount(s) /\ Serialized(s)[k] = Header(s)[k]
<1>1. k \in 1 .. FieldCount(s)
  BY FieldCountIs DEF SnapshotIs
<1> QED
  BY <1>1, WidthIs DEF Serialized

LEMMA PlayerField ==
    ASSUME NEW s, SnapshotIs(s), NEW i \in 1 .. Len(s.players), NEW c \in 1 .. 7
    PROVE  /\ Place(i, c) \in 1 .. FieldCount(s) /\ Place(i, c) > 8
           /\ Serialized(s)[Place(i, c)] = s.players[i][PlayerFields[c]]
<1>1. Len(s.players) \in Nat
  BY DEF SnapshotIs
<1>2. /\ Place(i, c) \in 9 .. 8 + 7 * Len(s.players)
      /\ Owner(Place(i, c)) = i /\ Column(Place(i, c)) = c
  BY <1>1, PlaceIs
<1>3. Place(i, c) \in 1 .. FieldCount(s) /\ Place(i, c) > 8
  BY <1>1, <1>2, FieldCountIs
<1>4. ~(Place(i, c) <= HeaderLen)
  BY <1>1, <1>2, WidthIs
<1> QED
  BY <1>2, <1>3, <1>4 DEF Serialized

\* A field of a file that was read: the player i has it in its column c.
LEMMA ReadFields ==
    ASSUME NEW f, f.fields[8] \in Nat
    PROVE  LET s == read_snapshot(f)
           IN /\ Len(s.players) = f.fields[8]
              /\ DOMAIN s.players = 1 .. f.fields[8]
              /\ s.t = f.fields[6] % ByteSize
              /\ \A i \in 1 .. f.fields[8] :
                    /\ s.players[i].id = f.fields[Place(i, 1)]
                    /\ s.players[i].share = f.fields[Place(i, 2)]
                    /\ s.players[i].public_share = f.fields[Place(i, 3)]
  BY DEF read_snapshot, Place

\* A file that read_snapshot accepts is no cut of another: a file that holds
\* the beginning of a buffer is accepted only when it holds all of it, and
\* gives back what was serialised (snapshot.cpp:386-411, 414-453).
LEMMA ReadsBack ==
    ASSUME NEW s, SnapshotIs(s), NEW f, FileIsCut(f, s), Readable(f)
    PROVE  read_snapshot(f) = s
<1> DEFINE L == Len(s.players)
           F == Serialized(s)
<1>1. PICK k \in 0 .. FieldCount(s) : Holds(f, s, k)
  BY DEF FileIsCut
<1>2. L \in Nat /\ FieldCount(s) = 8 + 7 * L
  BY FieldCountIs DEF SnapshotIs
<1>3. k \in Nat /\ f.fields = [i \in 1 .. k |-> F[i]] /\ Len(f.fields) = k
  BY <1>1, <1>2 DEF Holds
<1>4. k >= 8 /\ k = 8 + 7 * f.fields[8]
  BY <1>3, WidthIs DEF Readable, reader_ok
<1>5. \A j \in 1 .. 8 : f.fields[j] = Header(s)[j]
  BY <1>3, <1>4, HeaderFields
<1>6. /\ f.fields[3] = s.algorithm /\ f.fields[4] = s.public_key
      /\ f.fields[5] = s.seed /\ f.fields[6] = s.t /\ f.fields[7] = s.n
      /\ f.fields[8] = L
  BY <1>5 DEF Header
<1>7. k = FieldCount(s)
  BY <1>2, <1>4, <1>6
<1>8. \A i \in 1 .. L, c \in 1 .. 7 :
         f.fields[Place(i, c)] = s.players[i][PlayerFields[c]]
  <2> SUFFICES ASSUME NEW i \in 1 .. L, NEW c \in 1 .. 7
               PROVE  f.fields[Place(i, c)] = s.players[i][PlayerFields[c]]
    OBVIOUS
  <2>1. /\ Place(i, c) \in 1 .. k
        /\ F[Place(i, c)] = s.players[i][PlayerFields[c]]
    BY <1>7, PlayerField
  <2> HIDE DEF F
  <2> QED
    BY <1>3, <2>1
<1>9. s.t % ByteSize = s.t /\ s.n % ByteSize = s.n
  <2>1. ByteSize \in Nat \ {0}
    BY FixtureConstants
  <2> QED
    BY <2>1, BelowIsItself DEF SnapshotIs
<1>10. \A i \in 1 .. L :
          /\ f.fields[Place(i, 1)] = s.players[i].id
          /\ f.fields[Place(i, 2)] = s.players[i].share
          /\ f.fields[Place(i, 3)] = s.players[i].public_share
          /\ f.fields[Place(i, 4)] = s.players[i].paillier_pub
          /\ f.fields[Place(i, 5)] = s.players[i].paillier_priv
          /\ f.fields[Place(i, 6)] = s.players[i].rp_pub
          /\ f.fields[Place(i, 7)] = s.players[i].rp_priv
  BY <1>8 DEF PlayerFields
<1>11. \A i \in 1 .. L : PlayerIs(s.players[i])
  BY DEF SnapshotIs
<1>12. read_snapshot(f).players = [i \in 1 .. L |-> s.players[i]]
  <2> DEFINE p(i) ==
        [id |-> f.fields[Place(i, 1)], share |-> f.fields[Place(i, 2)],
         public_share |-> f.fields[Place(i, 3)],
         paillier_pub |-> f.fields[Place(i, 4)],
         paillier_priv |-> f.fields[Place(i, 5)],
         rp_pub |-> f.fields[Place(i, 6)], rp_priv |-> f.fields[Place(i, 7)]]
  <2>1. read_snapshot(f).players = [i \in 1 .. L |-> p(i)]
    BY <1>6 DEF read_snapshot, Place
  <2>2. ASSUME NEW i \in 1 .. L PROVE p(i) = s.players[i]
    BY <1>10, <1>11 DEF PlayerIs
  <2> HIDE DEF p
  <2> QED
    BY <2>1, <2>2
<1>13. read_snapshot(f) =
         [algorithm |-> s.algorithm, seed |-> s.seed,
          public_key |-> s.public_key, t |-> s.t, n |-> s.n,
          players |-> read_snapshot(f).players]
  BY <1>6, <1>9 DEF read_snapshot
<1> QED
  BY <1>12, <1>13 DEF SnapshotIs

\* A snapshot that a program may hold: verified, with shares that belong to the
\* ids.
Sound(s) ==
    /\ verify_snapshot(s) /\ SharesAreIds(s)
    /\ Len(s.players) \in Nat /\ DOMAIN s.players = 1 .. Len(s.players)
    /\ s.t \in Nat

LEMMA WholeIsSound == ASSUME NEW s, Whole(s) PROVE Sound(s)
<1>1. DOMAIN s.players = 1 .. Len(s.players)
  BY DEF Whole, SnapshotIs
<1>2. s.t \in Nat
  BY FixtureConstants DEF Whole, SnapshotIs
<1> QED
  BY <1>1, <1>2 DEF Whole, Sound, SnapshotIs

\* The buffer of s with the value v in the field k, which holds no id: any
\* other count, any other share, any number as threshold.
DamagedTo(f, s, k, v) ==
    /\ k \in 1 .. FieldCount(s) /\ ~IsId(k)
    /\ f.fields = [Serialized(s) EXCEPT ![k] = v]
    /\ k = 6 => v \in Nat
    /\ k = 8 => v \in Nat \ {Len(s.players)}
    /\ k > 8 /\ Column(k) = 2 => v # Serialized(s)[k]

\* Of a damaged file verify_snapshot lets no share through that is not the
\* one of its id: the share's projection gives it away (snapshot.cpp:281-380).
LEMMA DamageIsHarmless ==
    ASSUME NEW s, Whole(s), NEW f, NEW k, NEW v, DamagedTo(f, s, k, v), Loads(f)
    PROVE  Sound(read_snapshot(f))
<1> DEFINE L == Len(s.players)
           F == Serialized(s)
           R == read_snapshot(f)
<1>1. SnapshotIs(s) /\ L \in Nat /\ FieldCount(s) = 8 + 7 * L
  BY FieldCountIs DEF Whole, SnapshotIs
<1>2. k \in 1 .. FieldCount(s) /\ DOMAIN F = 1 .. FieldCount(s)
  BY DEF DamagedTo, Serialized
<1>3. /\ f.fields = [F EXCEPT ![k] = v]
      /\ f.fields = [i \in 1 .. FieldCount(s) |-> IF i = k THEN v ELSE F[i]]
  <2>1. f.fields = [F EXCEPT ![k] = v]
    BY DEF DamagedTo
  <2> HIDE DEF F
  <2> QED
    BY <1>2, <2>1
<1>4. Len(f.fields) = 8 + 7 * L
  BY <1>1, <1>3
<1>5. F[8] = L /\ F[6] = s.t
  BY <1>1, HeaderFields DEF Header
<1>6. f.fields[8] = L
  <2>1. f.fields[8] = IF k = 8 THEN v ELSE L
    BY <1>1, <1>3, <1>5
  <2>2. 8 + 7 * L = 8 + 7 * f.fields[8]
    BY <1>4, WidthIs DEF Loads, Readable
  <2>3. ASSUME k = 8 PROVE FALSE
    <3>1. v \in Nat /\ v # L /\ f.fields[8] = v
      BY <2>1, <2>3 DEF DamagedTo
    <3> QED
      BY <1>1, <2>2, <3>1
  <2> QED
    BY <2>1, <2>3
<1>7. f.fields[6] \in Nat
  <2>1. f.fields[6] = IF k = 6 THEN v ELSE s.t
    BY <1>1, <1>3, <1>5
  <2>2. s.t \in Nat
    BY <1>1, FixtureConstants DEF SnapshotIs
  <2>3. k = 6 => v \in Nat
    BY DEF DamagedTo
  <2> QED
    BY <2>1, <2>2, <2>3
<1> HIDE DEF F, L
<1>8. /\ Len(R.players) = L /\ DOMAIN R.players = 1 .. L
      /\ R.t = f.fields[6] % ByteSize
      /\ \A i \in 1 .. L :
            /\ R.players[i].id = f.fields[Place(i, 1)]
            /\ R.players[i].share = f.fields[Place(i, 2)]
            /\ R.players[i].public_share = f.fields[Place(i, 3)]
  <2>1. f.fields[8] \in Nat
    BY <1>1, <1>6
  <2> QED
    BY <1>6, <2>1, ReadFields
<1> HIDE DEF R
<1>9. R.t \in Nat
  <2> DEFINE x == f.fields[6]
  <2>1. ByteSize \in Nat \ {0} /\ x \in Nat /\ R.t = x % ByteSize
    BY <1>7, <1>8, FixtureConstants
  <2> HIDE DEF x
  <2>2. (x % ByteSize) \in 0 .. ByteSize - 1
    BY <2>1, Division
  <2> QED
    BY <2>1, <2>2
<1>10. verify_snapshot(R)
  BY DEF Loads, R
<1>11. ASSUME NEW i \in 1 .. L PROVE R.players[i].share = Share(R.players[i].id)
  <2>1. \A c \in 1 .. 7 :
           /\ Place(i, c) \in 1 .. FieldCount(s) /\ Place(i, c) > 8
           /\ F[Place(i, c)] = s.players[i][PlayerFields[c]]
           /\ Column(Place(i, c)) = c
    BY <1>1, PlayerField, PlaceIs DEF F, L
  <2>2. \A c \in 1 .. 7 : f.fields[Place(i, c)] =
           IF Place(i, c) = k THEN v ELSE s.players[i][PlayerFields[c]]
    BY <1>3, <2>1
  <2>3. Place(i, 1) # k
    <3>1. IsId(Place(i, 1))
      BY <2>1, WidthIs DEF IsId, PlayerFields
    <3> QED
      BY <3>1 DEF DamagedTo
  <2>4. R.players[i].id = s.players[i].id
    BY <1>8, <2>2, <2>3 DEF PlayerFields
  <2>5. /\ s.players[i].share = s.players[i].id /\ s.players[i].id \in Nat
        /\ s.players[i].public_share = generator_mul(s.players[i].share)
    BY <1>1 DEF Whole, SharesAreIds, Share, verify_snapshot, SnapshotIs, L
  <2>6. R.players[i].public_share = generator_mul(R.players[i].share)
    BY <1>8, <1>10 DEF verify_snapshot
  <2>7. Place(i, 2) # k
    <3> SUFFICES ASSUME Place(i, 2) = k PROVE FALSE
      OBVIOUS
    <3>1. v # s.players[i].share
      BY <2>1 DEF DamagedTo, PlayerFields, F
    <3>2. Place(i, 3) # k
      BY <2>1
    <3>3. R.players[i].share = v
      BY <1>8, <2>2
    <3>4. R.players[i].public_share = generator_mul(s.players[i].share)
      BY <1>8, <2>2, <2>5, <3>2 DEF PlayerFields
    <3>5. s.players[i].share = v
      BY <2>6, <3>3, <3>4 DEF generator_mul
    <3> QED
      BY <3>1, <3>5
  <2>8. R.players[i].share = s.players[i].share
    BY <1>8, <2>2, <2>7 DEF PlayerFields
  <2> QED
    BY <2>4, <2>5, <2>8 DEF Share
<1>12. SharesAreIds(R)
  BY <1>8, <1>11 DEF SharesAreIds
<1> QED
  BY <1>1, <1>8, <1>9, <1>10, <1>12 DEF Sound, R

-----------------------------------------------------------------------------
(***************************************************************************)
(* The stores of a program.                                                *)
(***************************************************************************)
LEMMA MaxIsGreatest ==
    ASSUME NEW k \in Nat, NEW S \in SUBSET (1 .. k), S # {}
    PROVE  Max(S) \in S
<1> DEFINE R == OpToRel(<, Nat)
           T == {k - x : x \in S}
<1>1. IsWellFoundedOn(R, Nat)
  BY NatLessThanWellFounded
<1>2. ASSUME NEW x \in Nat, NEW y \in Nat, y < x PROVE <<y, x>> \in R
  BY <1>2 DEF OpToRel
<1> HIDE DEF R
<1>3. T \in SUBSET Nat /\ T # {}
  <2>1. \A x \in S : k - x \in Nat
    OBVIOUS
  <2>2. \E x \in S : k - x \in T
    OBVIOUS
  <2> QED
    BY <2>1, <2>2
<1>4. PICK m \in T : \A y \in T : <<y, m>> \notin R
  <2> HIDE DEF T
  <2> QED
    BY <1>1, <1>3, WFMin
<1>5. PICK x \in S : m = k - x
  OBVIOUS
<1>6. ASSUME NEW y \in S PROVE x >= y
  <2> SUFFICES ASSUME ~(x >= y) PROVE FALSE
    OBVIOUS
  <2>1. k - y \in T /\ k - y \in Nat /\ k - x \in Nat /\ k - y < k - x
    <3>1. k - y \in T
      OBVIOUS
    <3>2. x \in 1 .. k /\ y \in 1 .. k
      OBVIOUS
    <3> QED
      BY <3>1, <3>2
  <2>2. <<k - y, m>> \in R
    BY <1>2, <1>5, <2>1
  <2> QED
    BY <1>4, <2>1, <2>2
<1> QED
  BY <1>5, <1>6 DEF Max

\* The record that an id ends up with is one of its own.
LEMMA HolderIs ==
    ASSUME NEW s, NEW k \in Nat, NEW id,
           NEW x \in 1 .. k, s.players[x].id = id
    PROVE  Holder(s, id, k) \in 1 .. k /\ s.players[Holder(s, id, k)].id = id
<1> DEFINE S == {i \in 1 .. k : s.players[i].id = id}
<1>1. S \in SUBSET (1 .. k) /\ S # {}
  OBVIOUS
<1>2. Holder(s, id, k) \in S
  <2> HIDE DEF S
  <2>1. Max(S) \in S
    BY <1>1, MaxIsGreatest
  <2> QED
    BY <2>1 DEF Holder, S
<1> QED
  BY <1>2

\* t different ids: the shares of the first t players and the shares of the
\* ids are the same terms, once each.
LEMMA SumsAgree ==
    ASSUME NEW s, Sound(s), Cardinality(DesignatedIds(s)) = s.t
    PROVE  add_scalars([i \in 1 .. s.t |-> s.players[i].share]) =
           add_scalars([id \in DesignatedIds(s) |-> id])
<1> DEFINE D == DesignatedIds(s)
           I == 1 .. s.t
           g == [i \in I |-> s.players[i].id]
           a == [i \in I |-> s.players[i].share]
           b == [id \in D |-> id]
<1>1. s.t \in Nat /\ \A i \in I : s.players[i].share = s.players[i].id
  BY DEF Sound, SharesAreIds, Share, verify_snapshot
<1>2. IsFiniteSet(I) /\ Cardinality(I) = s.t
  <2> DEFINE n == s.t
  <2>1. n \in Int /\ n \in Nat
    BY <1>1
  <2> HIDE DEF n
  <2>2. /\ IsFiniteSet(1 .. n)
        /\ Cardinality(1 .. n) = IF 1 > n THEN 0 ELSE n - 1 + 1
    BY <2>1, FS_Interval
  <2>3. Cardinality(1 .. n) = n
    BY <2>1, <2>2
  <2> QED
    BY <2>2, <2>3 DEF n
<1>3. g \in Surjection(I, D)
  <2>1. g \in [I -> D] /\ \A x \in D : \E i \in I : g[i] = x
    BY DEF DesignatedIds
  <2> HIDE DEF g, I, D
  <2> QED
    BY <2>1 DEF Surjection
<1>4. g \in Injection(I, D)
  <2> HIDE DEF g, I, D
  <2>1. Cardinality(I) = Cardinality(D)
    BY <1>2 DEF D
  <2> QED
    BY <1>2, <1>3, <2>1, FS_SurjSameCardinalityImpliesInj
<1>5. \A i, j \in I : s.players[i].id = s.players[j].id => i = j
  <2> SUFFICES ASSUME NEW i \in I, NEW j \in I, s.players[i].id = s.players[j].id
               PROVE  i = j
    OBVIOUS
  <2>1. g[i] = g[j]
    OBVIOUS
  <2> HIDE DEF g, I, D
  <2> QED
    BY <1>4, <2>1 DEF Injection, IsInjective
<1>6. a = [i \in I |-> s.players[i].id]
  BY <1>1
<1>7. {a[i] : i \in DOMAIN a} = D /\ {b[x] : x \in DOMAIN b} = D
  <2>1. D = {s.players[i].id : i \in I}
    BY DEF DesignatedIds
  <2>2. DOMAIN a = I /\ \A i \in I : a[i] = s.players[i].id
    BY <1>6
  <2>3. DOMAIN b = D /\ \A x \in D : b[x] = x
    OBVIOUS
  <2>4. {a[i] : i \in DOMAIN a} = D
    <3> HIDE DEF a, D
    <3> QED
      BY <2>1, <2>2
  <2>5. {b[x] : x \in DOMAIN b} = D
    <3> HIDE DEF b, D
    <3> QED
      BY <2>3
  <2> QED
    BY <2>4, <2>5
<1>8. ASSUME NEW x \in D
      PROVE  Cardinality({i \in DOMAIN a : a[i] = x}) =
             Cardinality({y \in DOMAIN b : b[y] = x})
  <2>1. PICK i \in I : s.players[i].id = x
    BY DEF DesignatedIds
  <2>2. {j \in DOMAIN a : a[j] = x} = {i}
    BY <1>5, <1>6, <2>1
  <2>3. {y \in DOMAIN b : b[y] = x} = {x}
    OBVIOUS
  <2> HIDE DEF a, b
  <2> QED
    BY <2>2, <2>3, FS_Singleton
<1> HIDE DEF a, b, D
<1>9. add_scalars(a) = add_scalars(b)
  BY <1>7, <1>8 DEF add_scalars
<1> QED
  BY <1>9 DEF a, b, D, I

\* A program that installed every player of a sound snapshot with t different
\* designated ids has stores that fit each other, for the designated signers
\* (snapshot.cpp:464-525).
LEMMA SoundSigns ==
    ASSUME NEW s, Sound(s), Cardinality(DesignatedIds(s)) = s.t
    PROVE  StoresFit(s, Len(s.players), DesignatedIds(s))
<1> DEFINE L == Len(s.players)
           D == DesignatedIds(s)
           h == [id \in D |-> Holder(s, id, L)]
           store == key_store(s, L)
<1>1. L \in Nat /\ DOMAIN s.players = 1 .. L /\ s.t \in 2 .. L
  BY DEF Sound, verify_snapshot
<1>10. ASSUME NEW z, NEW y \in 1 .. L, s.players[y].id = z
      PROVE  Holder(s, z, L) \in 1 .. L /\ s.players[Holder(s, z, L)].id = z
  <2>1. L \in Nat
    BY <1>1
  <2> HIDE DEF h, store, D, L
  <2>2. Holder(s, z, L) \in 1 .. L
    BY <1>10, <2>1, HolderIs
  <2>3. s.players[Holder(s, z, L)].id = z
    BY <1>10, <2>1, HolderIs
  <2> QED
    BY <2>2, <2>3
<1>2. ASSUME NEW id \in D
      PROVE  /\ id \in PlayerIds(s) /\ id \in Preloaded(s, L)
             /\ h[id] \in 1 .. L /\ s.players[h[id]].id = id
  <2>1. PICK i \in 1 .. s.t : s.players[i].id = id
    BY DEF DesignatedIds
  <2>2. i \in 1 .. L
    BY <1>1
  <2>3. s.players[i].id = id /\ h[id] = Holder(s, id, L)
    BY <2>1
  <2>4. h[id] \in 1 .. L /\ s.players[h[id]].id = id
    BY <1>10, <2>2, <2>3
  <2> QED
    BY <1>1, <2>1, <2>2, <2>4 DEF PlayerIds, Preloaded
<1>3. ASSUME NEW id \in D
      PROVE  /\ store[id].private_key = s.players[h[id]].share
             /\ store[id].metadata = players_info(s)
             /\ store[id].paillier = s.players[h[id]].paillier_priv
             /\ store[id].ring_pedersen = s.players[h[id]].rp_priv
  BY <1>2 DEF key_store
<1>4. ASSUME NEW id \in D
      PROVE  LET info == players_info(s)[id]
             IN /\ info.public_share = s.players[h[id]].public_share
                /\ info.paillier = s.players[h[id]].paillier_pub
                /\ info.ring_pedersen = s.players[h[id]].rp_pub
  BY <1>2 DEF players_info
<1> HIDE DEF h, store, D
<1>5. ASSUME NEW id \in D PROVE store[id].private_key = id
  BY <1>2, <1>3 DEF Sound, SharesAreIds, Share
<1>6. s.public_key = generator_mul(add_scalars([id \in D |-> store[id].private_key]))
  <2>1. [id \in D |-> store[id].private_key] = [id \in D |-> id]
    BY <1>5
  <2>2. s.public_key = AggregateKey(s.players, s.t)
    BY DEF Sound, verify_snapshot
  <2>3. add_scalars([i \in 1 .. s.t |-> s.players[i].share]) =
        add_scalars([id \in D |-> id])
    BY SumsAgree DEF D
  <2> QED
    BY <2>1, <2>2, <2>3 DEF AggregateKey
<1>7. ASSUME NEW i \in D, NEW j \in D
      PROVE  LET info == store[j].metadata[i]
             IN /\ info.public_share = generator_mul(store[i].private_key)
                /\ info.paillier = Projection(store[i].paillier)
                /\ info.ring_pedersen = Projection(store[i].ring_pedersen)
  <2>1. store[j].metadata = players_info(s)
    BY <1>3
  <2>2. /\ s.players[h[i]].public_share = generator_mul(s.players[h[i]].share)
        /\ s.players[h[i]].paillier_pub = Projection(s.players[h[i]].paillier_priv)
        /\ s.players[h[i]].rp_pub = Projection(s.players[h[i]].rp_priv)
    BY <1>1, <1>2 DEF Sound, verify_snapshot
  <2> QED
    BY <1>3, <1>4, <2>1, <2>2
<1>8. D \subseteq Preloaded(s, L)
  BY <1>2
<1> QED
  BY <1>6, <1>7, <1>8 DEF StoresFit, store, D

-----------------------------------------------------------------------------
(***************************************************************************)
(* The invariant of the fixture.                                           *)
(***************************************************************************)
Shapes ==
    /\ file = [fields |-> file.fields, partial |-> file.partial]
    /\ mk = [st |-> mk.st, req |-> mk.req, snap |-> mk.snap]
    /\ host = [st |-> host.st, target |-> host.target, snap |-> host.snap,
               installed |-> host.installed]

\* The file of this invocation was opened.
Opened == mk.st \in {"writing", "written", "ok"}

SnapshotIsGenerated ==
    /\ Opened \/ mk.st = "verified" =>
          mk.req \in Requests /\ GeneratedFor(mk.snap, mk.req)
    /\ Opened => mk.snap \in built

BuiltAreWhole ==
    /\ \A s \in built : Whole(s)
    /\ IsFiniteSet(built)
    /\ Cardinality(built) + (IF mk.st = "verified" THEN 1 ELSE 0) <= builds

\* The file is nothing, or the beginning of one buffer: of this invocation's
\* once it was opened, otherwise of an earlier one.
FileIsKnown ==
    /\ IF damaged
       THEN /\ mk.st = "ok"
            /\ \E k \in 1 .. FieldCount(mk.snap) :
                  DamagedTo(file, mk.snap, k, file.fields[k])
       ELSE IF Opened THEN FileIsCut(file, mk.snap)
       ELSE file = NoFile \/ \E s \in built : FileIsCut(file, s)
    /\ mk.st = "ok" /\ ~damaged => Loads(file)

\* What a program holds on the way to its first input.
HostIsSound ==
    /\ host.st = "off" => host = Off
    /\ host.st \in {"loaded", "probed", "control"} =>
          Sound(host.snap) /\ (damaged \/ host.snap \in built)
    /\ host.st \in {"probed", "control"} /\ host.target # "dual" =>
          Cardinality(DesignatedIds(host.snap)) = host.snap.t
    /\ host.st = "control" => host.installed = Len(host.snap.players)
    /\ RunningIsSound

FixtureInv ==
    /\ TypeOK /\ Shapes /\ SnapshotIsGenerated /\ BuiltAreWhole
    /\ FileIsKnown /\ HostIsSound

-----------------------------------------------------------------------------
(***************************************************************************)
(* The invariant is inductive.                                             *)
(***************************************************************************)
LEMMA InitFixture == Init => FixtureInv
<1> SUFFICES ASSUME Init PROVE FixtureInv
  OBVIOUS
<1>1. MaxBuilds \in Nat
  BY FixtureConstants
<1>2. Len(host.snap.players) = 0 /\ host.installed = 0
  BY DEF Init, Off, NoSnap
<1>3. Cardinality(built) = 0 /\ IsFiniteSet(built)
  BY FS_EmptySet DEF Init
<1>4. TypeOK
  <2>1. builds \in 0 .. MaxBuilds /\ Cardinality(built) <= builds
    BY <1>1, <1>3 DEF Init
  <2>2. host.installed \in 0 .. Len(host.snap.players)
    BY <1>2
  <2>3. /\ host.st = "off" /\ host.target = "none" /\ file.partial = FALSE
        /\ mk.st = "idle" /\ mk.req = NoRequest /\ mk.snap = NoSnap
        /\ damaged = FALSE
    BY DEF Init, Off, NoFile
  <2> QED
    BY <2>1, <2>2, <2>3 DEF TypeOK
<1>5. Shapes
  BY DEF Init, Shapes, NoFile, Off
<1>6. SnapshotIsGenerated /\ BuiltAreWhole
  BY <1>3 DEF Init, SnapshotIsGenerated, BuiltAreWhole, Opened
<1>7. FileIsKnown
  BY DEF Init, FileIsKnown, Opened
<1>8. HostIsSound
  BY DEF Init, HostIsSound, RunningIsSound, Off
<1> QED
  BY <1>4, <1>5, <1>6, <1>7, <1>8 DEF FixtureInv

\* While no program has loaded the file there is nothing to say of it.
LEMMA NoHostKeeps ==
    ASSUME FixtureInv, Alone, host' = host
    PROVE  HostIsSound'
  BY DEF FixtureInv, HostIsSound, RunningIsSound, Alone, Off

\* A program that loads the file leaves it and mk_snapshot as they are.
LEMMA HostStepKeeps ==
    ASSUME FixtureInv, UNCHANGED <<file, mk, builds, built, damaged>>
    PROVE  SnapshotIsGenerated' /\ BuiltAreWhole' /\ FileIsKnown'
<1>1. SnapshotIsGenerated'
  BY DEF FixtureInv, SnapshotIsGenerated, Opened
<1>2. BuiltAreWhole'
  BY DEF FixtureInv, BuiltAreWhole
<1>3. FileIsKnown'
  BY DEF FixtureInv, FileIsKnown, Opened
<1> QED
  BY <1>1, <1>2, <1>3

LEMMA GenerateKeeps ==
    ASSUME FixtureInv, NEW r \in Requests, NEW fails \in BOOLEAN,
           Generate(r, fails)
    PROVE  FixtureInv'
<1> DEFINE t == r.t % ByteSize
           snap == generate_snapshot(r.seed, r.ids, t)
           ok == GenerateAccepts(t, r.ids) /\ ~fails
<1>1. /\ Exited /\ Alone /\ builds < MaxBuilds /\ ~damaged
      /\ builds' = builds + 1
      /\ mk' = [st |-> IF ok /\ verify_snapshot(snap) THEN "verified" ELSE "failed",
                req |-> IF ok THEN r ELSE NoRequest,
                snap |-> IF ok THEN snap ELSE NoSnap]
      /\ UNCHANGED <<file, built, damaged, host>>
  BY DEF Generate
<1>2. {snap.t, snap.n} \subseteq 0 .. ByteSize - 1
  BY GeneratedFits
<1>3. verify_snapshot(snap) => GeneratedFor(snap, r)
  BY GeneratedIs
<1> HIDE DEF snap, ok
<1>4. /\ mk'.st = IF ok /\ verify_snapshot(snap) THEN "verified" ELSE "failed"
      /\ mk'.req = IF ok THEN r ELSE NoRequest
      /\ mk'.snap = IF ok THEN snap ELSE NoSnap
      /\ mk' = [st |-> mk'.st, req |-> mk'.req, snap |-> mk'.snap]
  BY <1>1
<1>5. /\ Cardinality(built) \in Nat /\ builds \in Nat /\ MaxBuilds \in Nat
      /\ Cardinality(built) <= builds
  BY FS_CardinalityType, FixtureConstants DEF FixtureInv, TypeOK, BuiltAreWhole
<1>6. TypeOK'
  BY <1>1, <1>2, <1>4, <1>5 DEF FixtureInv, TypeOK
<1>7. Shapes'
  BY <1>1, <1>4 DEF FixtureInv, Shapes
<1>8. SnapshotIsGenerated'
  BY <1>3, <1>4 DEF SnapshotIsGenerated, Opened
<1>9. BuiltAreWhole'
  BY <1>1, <1>5 DEF FixtureInv, BuiltAreWhole
<1>10. FileIsKnown'
  <2>1. file = NoFile \/ \E s \in built : FileIsCut(file, s)
    BY <1>1 DEF FixtureInv, FileIsKnown, SnapshotIsGenerated
  <2> QED
    BY <1>1, <1>4, <2>1 DEF FileIsKnown, Opened
<1>11. HostIsSound'
  BY <1>1, NoHostKeeps
<1> QED
  BY <1>6, <1>7, <1>8, <1>9, <1>10, <1>11 DEF FixtureInv

LEMMA OpenFileKeeps == ASSUME FixtureInv, OpenFile PROVE FixtureInv'
<1>1. /\ mk.st = "verified" /\ Alone /\ mk' = [mk EXCEPT !.st = "writing"]
      /\ file' = NoFile /\ built' = built \cup {mk.snap}
      /\ UNCHANGED <<builds, damaged, host>>
  BY DEF OpenFile
<1>2. /\ mk'.st = "writing" /\ mk'.req = mk.req /\ mk'.snap = mk.snap
      /\ mk' = [st |-> mk'.st, req |-> mk'.req, snap |-> mk'.snap]
  BY <1>1 DEF FixtureInv, Shapes
<1>3. /\ mk.req \in Requests /\ GeneratedFor(mk.snap, mk.req)
      /\ IsFiniteSet(built) /\ Cardinality(built) + 1 <= builds
      /\ \A s \in built : Whole(s)
  BY <1>1 DEF FixtureInv, SnapshotIsGenerated, BuiltAreWhole
<1>4. /\ IsFiniteSet(built') /\ Cardinality(built) \in Nat /\ builds \in Nat
      /\ Cardinality(built') <= Cardinality(built) + 1
  <2>1. IsFiniteSet(built') /\ Cardinality(built) \in Nat
        /\ Cardinality(built') =
              IF mk.snap \in built THEN Cardinality(built)
              ELSE Cardinality(built) + 1
    BY <1>1, <1>3, FS_AddElement, FS_CardinalityType
  <2> QED
    BY <2>1, FixtureConstants DEF FixtureInv, TypeOK
<1>5. Cardinality(built') <= builds' /\ Cardinality(built') \in Nat
  BY <1>1, <1>3, <1>4, FS_CardinalityType
<1>6. TypeOK'
  BY <1>1, <1>2, <1>5 DEF FixtureInv, TypeOK, NoFile
<1>7. Shapes'
  BY <1>1, <1>2 DEF FixtureInv, Shapes, NoFile
<1>8. SnapshotIsGenerated'
  BY <1>1, <1>2, <1>3 DEF SnapshotIsGenerated, Opened
<1>9. Whole(mk.snap)
  BY <1>3 DEF GeneratedFor
<1>10. BuiltAreWhole'
  BY <1>1, <1>2, <1>3, <1>4, <1>5, <1>9 DEF BuiltAreWhole
<1>11. ~damaged
  BY <1>1 DEF FixtureInv, FileIsKnown
<1>12. FileIsCut(NoFile, mk.snap)
  <2>1. 0 \in 0 .. FieldCount(mk.snap)
    BY <1>9, FieldCountIs DEF Whole
  <2>2. Holds(NoFile, mk.snap, 0)
    BY DEF Holds, NoFile
  <2> QED
    BY <2>1, <2>2 DEF FileIsCut, NoFile
<1>13. FileIsKnown'
  BY <1>1, <1>2, <1>11, <1>12 DEF FileIsKnown, Opened
<1>14. HostIsSound'
  BY <1>1, NoHostKeeps
<1> QED
  BY <1>6, <1>7, <1>8, <1>10, <1>13, <1>14 DEF FixtureInv

LEMMA WriteSomeKeeps ==
    ASSUME FixtureInv, NEW k \in 0 .. FieldCount(mk.snap),
           NEW partial \in BOOLEAN, WriteSome(k, partial)
    PROVE  FixtureInv'
<1> DEFINE F == Serialized(mk.snap)
           n == FieldCount(mk.snap)
<1>1. /\ mk.st = "writing" /\ Alone
      /\ partial => k < Len(F)
      /\ file' = [fields |-> SubSeq(F, 1, k), partial |-> partial]
      /\ UNCHANGED <<mk, builds, built, damaged, host>>
  BY DEF WriteSome
<1>2. SnapshotIs(mk.snap)
  BY <1>1 DEF FixtureInv, SnapshotIsGenerated, Opened, GeneratedFor, Whole
<1>3. n \in Nat /\ F = [i \in 1 .. n |-> F[i]]
  BY <1>2, FieldCountIs DEF Serialized
<1> HIDE DEF F, n
<1>4. Len(F) = n /\ SubSeq(F, 1, k) = [i \in 1 .. k |-> F[i]]
  BY <1>3 DEF n
<1>5. ~damaged
  BY <1>1 DEF FixtureInv, FileIsKnown
<1>6. file'.fields = [i \in 1 .. k |-> F[i]] /\ file'.partial = partial
      /\ file' = [fields |-> file'.fields, partial |-> file'.partial]
  BY <1>1, <1>4
<1>7. FileIsCut(file', mk.snap)
  <2>1. Holds(file', mk.snap, k)
    BY <1>1, <1>4, <1>6 DEF Holds, F, n
  <2> QED
    BY <1>6, <2>1 DEF FileIsCut
<1>8. TypeOK'
  BY <1>1, <1>6 DEF FixtureInv, TypeOK
<1>9. Shapes'
  BY <1>1, <1>6 DEF FixtureInv, Shapes
<1>10. SnapshotIsGenerated'
  BY <1>1 DEF FixtureInv, SnapshotIsGenerated, Opened
<1>11. BuiltAreWhole'
  BY <1>1 DEF FixtureInv, BuiltAreWhole
<1>12. FileIsKnown'
  BY <1>1, <1>5, <1>7 DEF FileIsKnown, Opened
<1>13. HostIsSound'
  BY <1>1, NoHostKeeps
<1> QED
  BY <1>8, <1>9, <1>10, <1>11, <1>12, <1>13 DEF FixtureInv

\* A step that only moves mk_snapshot on, or out, leaves snapshot and file.
LEMMA MkMovesKeeps ==
    ASSUME FixtureInv, Alone, mk.st # "ok", ~damaged,
           NEW x \in {"written", "ok", "failed"},
           x # "failed" => Opened,
           x = "ok" => Loads(file),
           mk' = [mk EXCEPT !.st = x], UNCHANGED <<file, builds, built, damaged, host>>
    PROVE  FixtureInv'
<1>1. /\ mk'.st = x /\ mk'.req = mk.req /\ mk'.snap = mk.snap
      /\ mk' = [st |-> mk'.st, req |-> mk'.req, snap |-> mk'.snap]
  BY DEF FixtureInv, Shapes
<1>2. TypeOK'
  BY <1>1 DEF FixtureInv, TypeOK
<1>3. Shapes'
  BY <1>1 DEF FixtureInv, Shapes
<1>4. SnapshotIsGenerated'
  BY <1>1 DEF FixtureInv, SnapshotIsGenerated, Opened
<1>5. BuiltAreWhole'
  <2>1. Cardinality(built) \in Nat /\ builds \in Nat
    BY FS_CardinalityType, FixtureConstants DEF FixtureInv, TypeOK, BuiltAreWhole
  <2> QED
    BY <1>1, <2>1 DEF FixtureInv, BuiltAreWhole
<1>6. FileIsKnown'
  <2>1. IF Opened THEN FileIsCut(file, mk.snap) /\ mk.snap \in built
        ELSE file = NoFile \/ \E s \in built : FileIsCut(file, s)
    BY DEF FixtureInv, FileIsKnown, SnapshotIsGenerated
  <2>2. CASE x = "failed"
    BY <1>1, <2>1, <2>2 DEF FileIsKnown, Opened
  <2>3. CASE x # "failed"
    BY <1>1, <2>1, <2>3 DEF FileIsKnown, Opened
  <2> QED
    BY <2>2, <2>3
<1>7. HostIsSound'
  BY NoHostKeeps
<1> QED
  BY <1>2, <1>3, <1>4, <1>5, <1>6, <1>7 DEF FixtureInv

LEMMA WriteDoneKeeps == ASSUME FixtureInv, WriteDone PROVE FixtureInv'
<1>1. Alone /\ mk.st # "ok" /\ ~damaged /\ Opened
  BY DEF WriteDone, FixtureInv, FileIsKnown, Opened
<1> QED
  BY <1>1, MkMovesKeeps DEF WriteDone

\* mk_snapshot reports success only of a file it could read back.
LEMMA ReadBackKeeps == ASSUME FixtureInv, ReadBack PROVE FixtureInv'
<1>1. Alone /\ mk.st # "ok" /\ ~damaged /\ Opened
  BY DEF ReadBack, FixtureInv, FileIsKnown, Opened
<1>2. CASE Loads(file)
  <2>1. mk' = [mk EXCEPT !.st = "ok"]
    BY <1>2 DEF ReadBack
  <2> QED
    BY <1>1, <1>2, <2>1, MkMovesKeeps DEF ReadBack
<1>3. CASE ~Loads(file)
  <2>1. mk' = [mk EXCEPT !.st = "failed"]
    BY <1>3 DEF ReadBack
  <2> QED
    BY <1>1, <2>1, MkMovesKeeps DEF ReadBack
<1> QED
  BY <1>2, <1>3

LEMMA MkFailsKeeps == ASSUME FixtureInv, MkFails PROVE FixtureInv'
<1>1. Alone /\ mk.st # "ok" /\ ~damaged
  BY DEF MkFails, FixtureInv, FileIsKnown, Exited
<1> QED
  BY <1>1, MkMovesKeeps DEF MkFails

LEMMA DamageKeeps ==
    ASSUME FixtureInv, NEW k \in DOMAIN file.fields, Damage(k)
    PROVE  FixtureInv'
<1> DEFINE s == mk.snap
           F == Serialized(mk.snap)
<1>1. /\ mk.st = "ok" /\ Alone /\ ~damaged /\ ~IsId(k) /\ damaged' = TRUE
      /\ UNCHANGED <<mk, builds, built, host>>
  BY DEF Damage
<1>2. PICK v \in Altered(k) : file' = [file EXCEPT !.fields[k] = v]
  BY DEF Damage
<1>3. /\ SnapshotIs(s) /\ Whole(s) /\ FileIsCut(file, s) /\ Loads(file)
      /\ file = [fields |-> file.fields, partial |-> file.partial]
  BY <1>1 DEF FixtureInv, SnapshotIsGenerated, FileIsKnown, Opened,
     GeneratedFor, Whole, Shapes
<1>4. FieldCount(s) \in Nat /\ DOMAIN F = 1 .. FieldCount(s)
      /\ FieldCount(s) = 8 + 7 * Len(s.players) /\ Len(s.players) \in Nat
  BY <1>3, FieldCountIs DEF Serialized, SnapshotIs
<1> HIDE DEF F, s
<1>5. file.fields = F
  <2>1. PICK m \in 0 .. FieldCount(s) : Holds(file, s, m)
    BY <1>3 DEF FileIsCut
  <2>2. file.fields = [i \in 1 .. m |-> F[i]] /\ Len(file.fields) = m
    BY <1>4, <2>1 DEF Holds, F, s
  <2>3. m >= 8 /\ m = 8 + 7 * file.fields[8]
    BY <1>3, <2>2, WidthIs DEF Loads, Readable, reader_ok
  <2>4. file.fields[8] = Len(s.players)
    <3>1. F[8] = Len(s.players)
      BY <1>3, HeaderFields DEF F, Header, s
    <3> QED
      BY <1>4, <2>2, <2>3, <3>1
  <2>5. m = FieldCount(s)
    BY <1>4, <2>3, <2>4
  <2>6. F = [i \in 1 .. FieldCount(s) |-> F[i]]
    BY DEF F, s, Serialized
  <2> QED
    BY <2>2, <2>5, <2>6
<1>6. /\ file'.fields = [F EXCEPT ![k] = v] /\ file'.partial = file.partial
      /\ file' = [fields |-> file'.fields, partial |-> file'.partial]
  BY <1>2, <1>3, <1>5
<1>7. k \in 1 .. FieldCount(s) /\ file'.fields[k] = v
  BY <1>4, <1>5, <1>6
<1>8. F[6] = s.t /\ F[8] = Len(s.players)
  BY <1>3, HeaderFields DEF F, Header, s
<1>9. k = 6 => v \in Nat
  <2>1. k = 6 => v \in {s.t + 1, s.t + ByteSize}
    BY <1>2, <1>5, <1>8, WidthIs DEF Altered
  <2>2. s.t \in Nat /\ ByteSize \in Nat
    BY <1>3, FixtureConstants DEF SnapshotIs
  <2> QED
    BY <2>1, <2>2
<1>10. k = 8 => v \in Nat \ {Len(s.players)}
  <2>1. k = 8 => v \in {Len(s.players) + 1, Len(s.players) + ByteSize}
    BY <1>2, <1>5, <1>8, WidthIs DEF Altered
  <2>2. ByteSize \in Nat \ {0}
    BY FixtureConstants
  <2> QED
    BY <1>4, <2>1, <2>2
<1>11. ASSUME k > 8, Column(k) = 2 PROVE v # F[k]
  <2>1. v = F[k] + 1
    BY <1>2, <1>5, <1>7, <1>11, WidthIs DEF Altered, PlayerFields
  <2>2. Owner(k) \in 1 .. Len(s.players)
    BY <1>4, <1>7, <1>11, OwnerIs
  <2>3. F[k] = s.players[Owner(k)].share
    BY <1>7, <1>11, WidthIs DEF F, s, Serialized, PlayerFields
  <2>4. F[k] \in Nat
    BY <1>3, <2>2, <2>3 DEF Whole, SharesAreIds, Share
  <2> QED
    BY <2>1, <2>4
<1>12. DamagedTo(file', s, k, v)
  BY <1>1, <1>6, <1>7, <1>9, <1>10, <1>11 DEF DamagedTo, F, s
<1>13. TypeOK'
  BY <1>1, <1>6 DEF FixtureInv, TypeOK
<1>14. Shapes'
  BY <1>1, <1>6 DEF FixtureInv, Shapes
<1>15. SnapshotIsGenerated' /\ BuiltAreWhole'
  BY <1>1 DEF FixtureInv, SnapshotIsGenerated, Opened, BuiltAreWhole
<1>16. FileIsKnown'
  BY <1>1, <1>7, <1>12 DEF FileIsKnown, s
<1>17. HostIsSound'
  BY <1>1, NoHostKeeps
<1> QED
  BY <1>13, <1>14, <1>15, <1>16, <1>17 DEF FixtureInv

-----------------------------------------------------------------------------

\* Whatever is in the file, what a program loads is sound; and unless the file
\* was damaged it is a snapshot that was written.
LEMMA LoadedIsSound ==
    ASSUME FixtureInv, Loads(file)
    PROVE  Sound(read_snapshot(file)) /\ (damaged \/ read_snapshot(file) \in built)
<1>1. CASE damaged
  <2>1. mk.st = "ok" /\ \E k \in 1 .. FieldCount(mk.snap) :
                           DamagedTo(file, mk.snap, k, file.fields[k])
    BY <1>1 DEF FixtureInv, FileIsKnown
  <2>2. Whole(mk.snap)
    BY <2>1 DEF FixtureInv, SnapshotIsGenerated, Opened, GeneratedFor
  <2> QED
    BY <1>1, <2>1, <2>2, DamageIsHarmless
<1>2. CASE ~damaged
  <2>1. file # NoFile
    <3>1. Len(file.fields) >= 8
      BY WidthIs DEF Loads, Readable, reader_ok
    <3> QED
      BY <3>1 DEF NoFile
  <2>2. PICK s \in built : FileIsCut(file, s)
    BY <1>2, <2>1 DEF FixtureInv, FileIsKnown, SnapshotIsGenerated
  <2>3. Whole(s)
    BY DEF FixtureInv, BuiltAreWhole
  <2>4. read_snapshot(file) = s
    BY <2>2, <2>3, ReadsBack DEF Whole, Loads
  <2> QED
    BY <2>3, <2>4, WholeIsSound
<1> QED
  BY <1>1, <1>2

\* mk_snapshot writes no other algorithm than 0.
LEMMA BuiltAlgorithm ==
    ASSUME FixtureInv, NEW s \in built
    PROVE  s.algorithm = 0
  BY DEF FixtureInv, BuiltAreWhole, Whole

LEMMA LoadKeeps ==
    ASSUME FixtureInv, NEW x \in Targets, Load(x)
    PROVE  FixtureInv'
<1>1. /\ host' = [st |-> IF Loads(file) THEN "loaded" ELSE "refused",
                  target |-> x,
                  snap |-> IF Loads(file) THEN read_snapshot(file) ELSE NoSnap,
                  installed |-> 0]
      /\ UNCHANGED <<file, mk, builds, built, damaged>>
  BY DEF Load
<1>2. SnapshotIsGenerated' /\ BuiltAreWhole' /\ FileIsKnown'
  BY <1>1, HostStepKeeps
<1> DEFINE R == read_snapshot(file)
<1>3. Loads(file) => Sound(R) /\ (damaged \/ R \in built)
  BY LoadedIsSound
<1> HIDE DEF R
<1>4. /\ host'.st = IF Loads(file) THEN "loaded" ELSE "refused"
      /\ host'.target = x /\ host'.installed = 0
      /\ host'.snap = IF Loads(file) THEN R ELSE NoSnap
      /\ host' = [st |-> host'.st, target |-> host'.target, snap |-> host'.snap,
                  installed |-> host'.installed]
  BY <1>1 DEF R
<1>5. host'.installed \in 0 .. Len(host'.snap.players)
  <2>1. Len(NoSnap.players) = 0
    BY DEF NoSnap
  <2> QED
    BY <1>3, <1>4, <2>1 DEF Sound
<1>6. TypeOK'
  BY <1>1, <1>4, <1>5 DEF FixtureInv, TypeOK
<1>7. Shapes'
  BY <1>1, <1>4 DEF FixtureInv, Shapes
<1>8. HostIsSound'
  BY <1>1, <1>3, <1>4 DEF HostIsSound, RunningIsSound
<1> QED
  BY <1>2, <1>6, <1>7, <1>8 DEF FixtureInv

LEMMA ProbeKeeps ==
    ASSUME FixtureInv, NEW effective \in BOOLEAN, Probe(effective)
    PROVE  FixtureInv'
<1>1. PICK x \in {"probed", "refused"} :
         /\ host' = [host EXCEPT !.st = x]
         /\ x = "probed" => Cardinality(DesignatedIds(host.snap)) = host.snap.t
  BY DEF Probe
<1>2. host.st = "loaded" /\ UNCHANGED <<file, mk, builds, built, damaged>>
  BY DEF Probe
<1>3. SnapshotIsGenerated' /\ BuiltAreWhole' /\ FileIsKnown'
  BY <1>2, HostStepKeeps
<1>4. /\ host'.st = x /\ host'.target = host.target /\ host'.snap = host.snap
      /\ host'.installed = host.installed
      /\ host' = [st |-> host'.st, target |-> host'.target, snap |-> host'.snap,
                  installed |-> host'.installed]
  BY <1>1 DEF FixtureInv, Shapes
<1>5. TypeOK'
  BY <1>2, <1>4 DEF FixtureInv, TypeOK
<1>6. Shapes'
  BY <1>2, <1>4 DEF FixtureInv, Shapes
<1>7. HostIsSound'
  BY <1>1, <1>2, <1>4 DEF FixtureInv, HostIsSound, RunningIsSound, DesignatedIds
<1> QED
  BY <1>3, <1>5, <1>6, <1>7 DEF FixtureInv

LEMMA InstallKeeps ==
    ASSUME FixtureInv, NEW k \in 0 .. Len(host.snap.players), Install(k)
    PROVE  FixtureInv'
<1> DEFINE L == Len(host.snap.players)
           x == IF k < L THEN "refused"
                ELSE IF host.target \in {"general", "reachability"} THEN "running"
                ELSE "control"
<1>1. /\ host.st = "probed" \/ (host.st = "loaded" /\ host.target = "dual")
      /\ host' = [host EXCEPT !.installed = k, !.st = x]
      /\ UNCHANGED <<file, mk, builds, built, damaged>>
  BY DEF Install
<1>2. SnapshotIsGenerated' /\ BuiltAreWhole' /\ FileIsKnown'
  BY <1>1, HostStepKeeps
<1>3. /\ host'.st = x /\ host'.target = host.target /\ host'.snap = host.snap
      /\ host'.installed = k
      /\ host' = [st |-> host'.st, target |-> host'.target, snap |-> host'.snap,
                  installed |-> host'.installed]
  BY <1>1 DEF FixtureInv, Shapes
<1>4. /\ Sound(host.snap) /\ (damaged \/ host.snap \in built) /\ L \in Nat
      /\ host.target # "dual" => Cardinality(DesignatedIds(host.snap)) = host.snap.t
  BY <1>1 DEF FixtureInv, HostIsSound, Sound
<1>5. x # "refused" => k = L
  BY <1>4
<1>6. x \in {"refused", "running", "control"}
      /\ (x = "running" => host.target # "dual")
  OBVIOUS
<1>7. TypeOK'
  BY <1>1, <1>3, <1>6 DEF FixtureInv, TypeOK
<1>8. Shapes'
  BY <1>1, <1>3 DEF FixtureInv, Shapes
<1>9. x = "running" =>
         StoresFit(host.snap, L, DesignatedIds(host.snap))
  BY <1>4, <1>6, SoundSigns
<1> HIDE DEF x
<1>10. RunningIsSound'
  <2> DEFINE fits == StoresFit(host.snap, k, DesignatedIds(host.snap))
  <2> SUFFICES ASSUME x = "running" PROVE RunningIsSound'
    BY <1>3 DEF RunningIsSound
  <2>1. fits' /\ (damaged' \/ host'.snap \in built')
    BY <1>1, <1>3, <1>4, <1>5, <1>9
  <2>2. host'.target \in {"general", "reachability"}
    BY <1>3 DEF x
  <2>3. damaged' \/ host'.snap.algorithm = 0
    BY <1>1, <1>3, <1>4, BuiltAlgorithm
  <2>4. CASE host'.snap.algorithm = 0
    <3>1. Signable(host.snap, k, DesignatedIds(host.snap))'
      BY <1>3, <2>1, <2>4 DEF Signable
    <3> QED
      BY <1>3, <2>1, <3>1 DEF RunningIsSound
  <2>5. CASE host'.snap.algorithm # 0
    BY <1>3, <2>1, <2>2, <2>3, <2>5 DEF RunningIsSound
  <2> QED
    BY <2>4, <2>5
<1>11. HostIsSound'
  BY <1>1, <1>3, <1>4, <1>5, <1>6, <1>10 DEF HostIsSound
<1> QED
  BY <1>2, <1>7, <1>8, <1>11 DEF FixtureInv

LEMMA ControlKeeps ==
    ASSUME FixtureInv, NEW passes \in BOOLEAN, Control(passes)
    PROVE  FixtureInv'
<1>1. PICK x \in {"running", "refused"} :
         /\ host' = [host EXCEPT !.st = x]
         /\ x = "running" => ControlSigns(host.snap)
  BY DEF Control
<1>2. host.st = "control" /\ UNCHANGED <<file, mk, builds, built, damaged>>
  BY DEF Control
<1>3. SnapshotIsGenerated' /\ BuiltAreWhole' /\ FileIsKnown'
  BY <1>2, HostStepKeeps
<1>4. /\ host'.st = x /\ host'.target = host.target /\ host'.snap = host.snap
      /\ host'.installed = host.installed
      /\ host' = [st |-> host'.st, target |-> host'.target, snap |-> host'.snap,
                  installed |-> host'.installed]
  BY <1>1 DEF FixtureInv, Shapes
<1>5. TypeOK'
  BY <1>2, <1>4 DEF FixtureInv, TypeOK
<1>6. Shapes'
  BY <1>2, <1>4 DEF FixtureInv, Shapes
<1>7. x = "running" =>
         Signable(host.snap, host.installed, DesignatedIds(host.snap))
  <2>1. CASE host.target = "dual"
    BY <1>1, <2>1 DEF ControlSigns
  <2>2. CASE host.target # "dual"
    <3>1. StoresFit(host.snap, host.installed, DesignatedIds(host.snap))
      BY <1>2, <2>2, SoundSigns DEF FixtureInv, HostIsSound
    <3>2. x = "running" => host.snap.algorithm = 0
      BY <1>1, <2>2 DEF ControlSigns, Signable
    <3> QED
      BY <3>1, <3>2 DEF Signable
  <2> QED
    BY <2>1, <2>2
<1>8. damaged \/ host.snap \in built
  BY <1>2 DEF FixtureInv, HostIsSound
<1>9. RunningIsSound'
  BY <1>2, <1>4, <1>7, <1>8 DEF RunningIsSound
<1>10. HostIsSound'
  BY <1>4, <1>9 DEF HostIsSound
<1> QED
  BY <1>3, <1>5, <1>6, <1>10 DEF FixtureInv

LEMMA NextFixture == FixtureInv /\ [Next]_vars => FixtureInv'
<1> SUFFICES ASSUME FixtureInv, [Next]_vars PROVE FixtureInv'
  OBVIOUS
<1>1. CASE \E r \in Requests, fails \in BOOLEAN : Generate(r, fails)
  BY <1>1, GenerateKeeps
<1>2. CASE \E k \in 0 .. FieldCount(mk.snap), partial \in BOOLEAN :
              WriteSome(k, partial)
  BY <1>2, WriteSomeKeeps
<1>3. CASE OpenFile \/ WriteDone \/ ReadBack \/ MkFails
  BY <1>3, OpenFileKeeps, WriteDoneKeeps, ReadBackKeeps, MkFailsKeeps
<1>4. CASE \E k \in DOMAIN file.fields : Damage(k)
  BY <1>4, DamageKeeps
<1>5. CASE \E x \in Targets : Load(x)
  BY <1>5, LoadKeeps
<1>6. CASE \E effective \in BOOLEAN : Probe(effective)
  BY <1>6, ProbeKeeps
<1>7. CASE \E k \in 0 .. Len(host.snap.players) : Install(k)
  BY <1>7, InstallKeeps
<1>8. CASE \E passes \in BOOLEAN : Control(passes)
  BY <1>8, ControlKeeps
<1>9. CASE UNCHANGED vars
  <2>1. SnapshotIsGenerated' /\ BuiltAreWhole' /\ FileIsKnown'
    BY <1>9, HostStepKeeps DEF vars
  <2>2. TypeOK' /\ Shapes'
    BY <1>9 DEF vars, FixtureInv, TypeOK, Shapes
  <2>3. HostIsSound'
    BY <1>9 DEF vars, FixtureInv, HostIsSound, RunningIsSound
  <2> QED
    BY <2>1, <2>2, <2>3 DEF FixtureInv
<1> QED
  BY <1>1, <1>2, <1>3, <1>4, <1>5, <1>6, <1>7, <1>8, <1>9 DEF Next

LEMMA FixtureInvariance == Spec => []FixtureInv
<1> QED
  BY InitFixture, NextFixture, PTL DEF Spec

-----------------------------------------------------------------------------
(***************************************************************************)
(* The theorems about the fixture.                                         *)
(***************************************************************************)

\* For every width of a count and any command lines: what was generated fits
\* the fields it is stored in, and no more snapshots are written than
\* mk_snapshot was invoked (snapshot.cpp:156-174, mk_snapshot.cpp:40-102).
THEOREM FixtureTypes == Spec => []TypeOK
<1>1. FixtureInv => TypeOK
  BY DEF FixtureInv
<1> QED
  BY <1>1, FixtureInvariance, PTL

\* When mk_snapshot reports success the file holds all of the snapshot that was
\* asked for, wherever an earlier writer was cut off and however little the
\* last flush got out (mk_snapshot.cpp:83-102, snapshot.cpp:386-453).
THEOREM FixtureIsBuiltAsAsked == Spec => []BuiltAsAsked
<1>1. FixtureInv => BuiltAsAsked
  <2> SUFFICES ASSUME FixtureInv, mk.st = "ok", ~damaged
               PROVE  LET s == read_snapshot(file)
                          t == mk.req.t % ByteSize
                      IN /\ Readable(file) /\ s = mk.snap
                         /\ [i \in DOMAIN s.players |-> s.players[i].id] = mk.req.ids
                         /\ s.n = Len(mk.req.ids)
                         /\ s.t = IF t = 0 THEN s.n ELSE t
    BY DEF BuiltAsAsked
  <2>1. /\ mk.req \in Requests /\ GeneratedFor(mk.snap, mk.req)
        /\ FileIsCut(file, mk.snap) /\ Loads(file)
    BY DEF FixtureInv, SnapshotIsGenerated, FileIsKnown, Opened
  <2>2. SnapshotIs(mk.snap) /\ Readable(file)
    BY <2>1 DEF GeneratedFor, Whole, Loads
  <2>3. read_snapshot(file) = mk.snap
    BY <2>1, <2>2, ReadsBack
  <2> DEFINE P == mk.snap.players
             ids == mk.req.ids
  <2>4. /\ DOMAIN P = 1 .. Len(P) /\ Len(P) = Len(ids)
        /\ \A i \in 1 .. Len(P) : P[i].id = ids[i]
        /\ ids = [i \in 1 .. Len(ids) |-> ids[i]]
    <3>1. DOMAIN P = 1 .. Len(P)
      BY <2>2 DEF SnapshotIs
    <3>2. Len(P) = Len(ids) /\ \A i \in 1 .. Len(P) : P[i].id = ids[i]
      BY <2>1 DEF GeneratedFor
    <3>3. ids \in Seq(Nat)
      BY <2>1, FixtureConstants
    <3> HIDE DEF ids
    <3>4. ids = [i \in 1 .. Len(ids) |-> ids[i]]
      BY <3>3
    <3> QED
      BY <3>1, <3>2, <3>4
  <2> HIDE DEF P, ids
  <2>5. [i \in DOMAIN P |-> P[i].id] = ids
    BY <2>4
  <2> QED
    BY <2>1, <2>2, <2>3, <2>5 DEF GeneratedFor, P, ids
<1> QED
  BY <1>1, FixtureInvariance, PTL

\* "A snapshot that fails this must never be used" (snapshot.h:92): a program
\* of the harness that accepts inputs holds one snapshot as it was generated, or
\* a damaged one whose stores still complete an honest ceremony, for any number
\* of players, threshold and ids, and whichever field but an id was damaged.  The
\* exception is a damaged algorithm, with which a target that runs no control
\* may accept inputs although no honest ceremony of it can sign.
THEOREM RunningProgramsAreSound == Spec => []RunningIsSound
<1>1. FixtureInv => RunningIsSound
  BY DEF FixtureInv, HostIsSound
<1> QED
  BY <1>1, FixtureInvariance, PTL

-----------------------------------------------------------------------------
(***************************************************************************)
(* The stream.                                                             *)
(***************************************************************************)
USE RandConstants

\* The byte of the stream of key k at position a.
Spot(k, a) == [block |-> [key |-> k, counter |-> a \div BlockSize],
               pos |-> a % BlockSize]

\* The generator, reseeded with k, has given d bytes.
StreamAt(k, d) ==
    /\ key = k /\ seeded = TRUE /\ counter \in Nat /\ used \in 1 .. BlockSize
    /\ BlockSize * counter + used = d + BlockSize
    /\ used < BlockSize =>
          counter # 0 /\ block = [key |-> k, counter |-> counter - 1]

\* What is copied out depends on the key and the position only, wherever the
\* boundaries of blocks fall (det_rand.cpp:47-57).
LEMMA ByteIsSpot ==
    ASSUME NEW k, NEW d \in Nat, StreamAt(k, d), NEW i \in Nat
    PROVE  ByteAt(i) = Spot(k, d + i)
<1> DEFINE B == BlockSize
           x == used + i
           q == x \div B
           r == x % B
<1>1. /\ B \in Nat \ {0} /\ counter \in Nat /\ used \in 1 .. B /\ x \in Nat
      /\ B * counter + used = d + B /\ key = k
  BY DEF StreamAt
<1> HIDE DEF B, x
<1>2. q \in Nat /\ r \in 0 .. B - 1 /\ x = B * q + r
  BY <1>1, Division
<1> HIDE DEF q, r
<1>3. B * counter \in Nat /\ B * q \in Nat
  BY <1>1, <1>2
<1>4. d + i + B = B * counter + x
  BY <1>1, <1>3 DEF x
<1>5. CASE x < B
  <2>1. q = 0
    <3>1. ASSUME q # 0 PROVE FALSE
      <4>1. B <= B * q
        BY <1>1, <1>2, <3>1
      <4> QED
        BY <1>1, <1>2, <1>3, <1>5, <4>1
    <3> QED
      BY <3>1
  <2>2. r = x
    BY <1>1, <1>2, <2>1
  <2>3. used < BlockSize
    BY <1>1, <1>5 DEF x, B
  <2>4. counter # 0 /\ block = [key |-> k, counter |-> counter - 1]
    BY <2>3 DEF StreamAt
  <2> DEFINE c == counter - 1
  <2>5. c \in Nat /\ counter = c + 1
    BY <1>1, <2>4
  <2> HIDE DEF c
  <2>6. B * counter = B * c + B /\ B * c \in Nat
    BY <1>1, <2>5
  <2>7. d + i \in Nat /\ d + i = B * c + r
    BY <1>1, <1>2, <1>4, <2>2, <2>6
  <2>8. (d + i) \div B = c /\ (d + i) % B = r
    BY <1>1, <1>2, <2>5, <2>7, DivisionIsUnique
  <2>9. ByteAt(i) = [block |-> block, pos |-> r]
    BY <1>5 DEF ByteAt, BlockAt, x, r, B
  <2> QED
    BY <2>4, <2>8, <2>9 DEF Spot, B, c
<1>6. CASE ~(x < B)
  <2>1. q # 0
    BY <1>1, <1>2, <1>6
  <2> DEFINE c == counter + q - 1
  <2>2. c \in Nat /\ counter + q = c + 1
    BY <1>1, <1>2, <2>1
  <2> HIDE DEF c
  <2>3. B * counter + B * q = B * (counter + q)
    BY <1>1, <1>2
  <2>4. B * (c + 1) = B * c + B /\ B * c \in Nat
    BY <1>1, <2>2
  <2>5. d + i \in Nat /\ d + i = B * c + r
    BY <1>1, <1>2, <1>3, <1>4, <2>2, <2>3, <2>4
  <2>6. (d + i) \div B = c /\ (d + i) % B = r
    BY <1>1, <1>2, <2>2, <2>5, DivisionIsUnique
  <2>7. ByteAt(i) = [block |-> [key |-> key, counter |-> counter + q - 1],
                     pos |-> r]
    BY <1>6 DEF ByteAt, BlockAt, x, q, r, B
  <2> QED
    BY <1>1, <2>6, <2>7 DEF Spot, B, c
<1> QED
  BY <1>5, <1>6

\* A draw moves the stream on by what it took.
LEMMA DrawMovesOn ==
    ASSUME NEW k, NEW d \in Nat, StreamAt(k, d), NEW n \in Nat \ {0}, det_bytes(n)
    PROVE  StreamAt(k, d + n)'
<1> DEFINE B == BlockSize
           x == used + n - 1
           q == x \div B
           r == x % B
<1>1. /\ B \in Nat \ {0} /\ counter \in Nat /\ used \in 1 .. B /\ x \in Nat
      /\ B * counter + used = d + B /\ key = k
  BY DEF StreamAt
<1> HIDE DEF B, x
<1>2. q \in Nat /\ r \in 0 .. B - 1 /\ x = B * q + r
  BY <1>1, Division
<1>3. /\ used' = r + 1 /\ counter' = counter + q /\ key' = key /\ seeded' = seeded
      /\ block' = BlockAt(n - 1)
  BY DEF det_bytes, Refills, x, q, r, B
<1>4. block' = IF x < B THEN block
               ELSE [key |-> key, counter |-> counter + q - 1]
  <2>1. used + (n - 1) = x
    BY <1>1 DEF x
  <2> QED
    BY <1>3, <2>1 DEF BlockAt, q, B
<1> HIDE DEF q, r
<1>5. B * counter \in Nat /\ B * q \in Nat /\ B * (counter + q) = B * counter + B * q
  BY <1>1, <1>2
<1>6. B * counter' + used' = d + n + B
  BY <1>1, <1>2, <1>3, <1>5 DEF x
<1>7. counter' \in Nat /\ used' \in 1 .. B
  BY <1>1, <1>2, <1>3
<1>8. ASSUME used' < B
      PROVE  counter' # 0 /\ block' = [key |-> k, counter |-> counter' - 1]
  <2>1. CASE x < B
    <3>1. q = 0
      <4>1. ASSUME q # 0 PROVE FALSE
        <5>1. B <= B * q
          BY <1>1, <1>2, <4>1
        <5> QED
          BY <1>1, <1>2, <1>5, <2>1, <5>1
      <4> QED
        BY <4>1
    <3>2. used < BlockSize
      BY <1>1, <1>2, <1>3, <1>8, <3>1 DEF x, B
    <3>3. counter # 0 /\ block = [key |-> k, counter |-> counter - 1]
      BY <3>2 DEF StreamAt
    <3> QED
      BY <1>1, <1>3, <1>4, <2>1, <3>1, <3>3
  <2>2. CASE ~(x < B)
    <3>1. q # 0
      BY <1>1, <1>2, <2>2
    <3> QED
      BY <1>1, <1>2, <1>3, <1>4, <2>2, <3>1
  <2> QED
    BY <2>1, <2>2
<1>9. key' = k /\ seeded' = TRUE
  BY <1>1, <1>3 DEF StreamAt
<1> QED
  BY <1>6, <1>7, <1>8, <1>9 DEF StreamAt, B

\* Positions with equal bytes are equal.
LEMMA SpotIsOnce ==
    ASSUME NEW k, NEW a \in Nat, NEW b \in Nat, Spot(k, a) = Spot(k, b)
    PROVE  a = b
<1>1. a \div BlockSize = b \div BlockSize /\ a % BlockSize = b % BlockSize
  BY DEF Spot
<1>2. a = BlockSize * (a \div BlockSize) + (a % BlockSize)
      /\ b = BlockSize * (b \div BlockSize) + (b % BlockSize)
  BY Division
<1> QED
  BY <1>1, <1>2

-----------------------------------------------------------------------------
(***************************************************************************)
(* The invariant of the generator.                                         *)
(***************************************************************************)

\* A single-session target reaches its first case only when the library's draws
\* come from the stream (driver.cpp:498-579); the dual target never installs it.
GateHolds ==
    /\ cases \in Nat /\ fresh \in Nat
    /\ pc \in {"start", "idle", "case", "fail_closed"}
    /\ target = "dual" => installed = FALSE
    /\ target # "dual" /\ pc \in {"idle", "case"} => Captured

\* What the current case has drawn.
Drawn == {o \in obs : o.case = cases}

\* The stream stands where the draws of the case have left it.
StreamFollows ==
    pc = "case" /\ target # "dual" => StreamAt(input, Position)

CasesAreCounted ==
    /\ IsFiniteSet(obs)
    /\ \A o \in obs : o.case \in Nat /\ o.case <= cases /\ o.at \in Nat
    /\ \A o \in Drawn : o.at < Position

\* Every byte is the stream's byte of its place, or was the next one of the
\* system's generator.
BytesAreKnown ==
    IF target = "dual"
    THEN /\ \A o \in obs : \E f \in Nat : f < fresh /\ o.byte = <<"system", f>>
         /\ NoByteTwice
    ELSE \A o \in obs : o.byte = <<"stream", Spot(o.input, o.at)>>

RandInv == GateHolds /\ StreamFollows /\ CasesAreCounted /\ BytesAreKnown

-----------------------------------------------------------------------------
(***************************************************************************)
(* The invariant is inductive.                                             *)
(***************************************************************************)
LEMMA InitRand == RandInit => RandInv
<1> SUFFICES ASSUME RandInit PROVE RandInv
  OBVIOUS
<1>1. GateHolds /\ StreamFollows
  BY DEF RandInit, GateHolds, StreamFollows
<1>2. CasesAreCounted
  BY FS_EmptySet DEF RandInit, CasesAreCounted, Drawn
<1>3. BytesAreKnown
  BY DEF RandInit, BytesAreKnown, NoByteTwice
<1> QED
  BY <1>1, <1>2, <1>3 DEF RandInv

\* The byte that the library gets i positions after this one.
Given(i) == IF Captured THEN <<"stream", ByteAt(i)>> ELSE <<"system", fresh + i>>

Record(i) == [case |-> cases, input |-> input, at |-> Position + i,
              byte |-> Given(i)]

\* A draw of n bytes adds n records to the case, at the next n positions.
LEMMA DrawCounts ==
    ASSUME CasesAreCounted, cases \in Nat, NEW n \in Nat \ {0}, Draw(n)
    PROVE  /\ Position \in Nat /\ Position' = Position + n
           /\ obs' = obs \cup {Record(i) : i \in 0 .. n - 1}
           /\ CasesAreCounted'
<1> DEFINE d == Position
           I == 0 .. n - 1
           g == [i \in I |-> Record(i)]
           N == {Record(i) : i \in I}
<1>1. obs' = obs \cup N /\ cases' = cases
  BY DEF Draw, Record, Given
<1>2. IsFiniteSet(Drawn) /\ d = Cardinality(Drawn) /\ Drawn \in SUBSET obs
  <2>1. Drawn \in SUBSET obs
    BY DEF Drawn
  <2> QED
    BY <2>1, FS_Subset DEF CasesAreCounted, Position, Drawn
<1>3. d \in Nat
  BY <1>2, FS_CardinalityType
<1> HIDE DEF d
<1>4. \A i \in I : /\ Record(i).case = cases /\ Record(i).at = d + i
                   /\ Record(i).at \in Nat
  BY <1>3 DEF Record, d
<1>5. \A i, j \in I : g[i] = g[j] => i = j
  <2> SUFFICES ASSUME NEW i \in I, NEW j \in I, g[i] = g[j] PROVE i = j
    OBVIOUS
  <2>1. d + i = d + j
    BY <1>4
  <2> QED
    BY <1>3, <2>1
<1>6. g \in Bijection(I, N)
  <2>1. g \in [I -> N] /\ \A r \in N : \E i \in I : g[i] = r
    OBVIOUS
  <2> HIDE DEF g, N
  <2> QED
    BY <1>5, <2>1 DEF Bijection, Injection, IsInjective, Surjection
<1>7. IsFiniteSet(I) /\ Cardinality(I) = n
  <2> DEFINE last == n - 1
  <2>1. last \in Int
    OBVIOUS
  <2> HIDE DEF last
  <2>2. /\ IsFiniteSet(0 .. last)
        /\ Cardinality(0 .. last) = IF 0 > last THEN 0 ELSE last - 0 + 1
    BY <2>1, FS_Interval
  <2> QED
    BY <2>2 DEF last
<1> HIDE DEF g
<1>8. IsFiniteSet(N) /\ Cardinality(N) = n
  <2> HIDE DEF N, I
  <2> QED
    BY <1>6, <1>7, FS_Bijection DEF ExistsBijection
<1>9. Drawn' = Drawn \cup N
  BY <1>1, <1>4 DEF Drawn
<1>10. Drawn \cap N = {}
  <2>1. \A o \in Drawn : o.at < d /\ o.at \in Nat
    BY DEF CasesAreCounted, Drawn, d
  <2>2. \A o \in N : o.at >= d
    BY <1>3, <1>4
  <2> HIDE DEF N
  <2> QED
    BY <1>3, <2>1, <2>2
<1> HIDE DEF N, I
<1>11. Cardinality(Drawn \cup N) = d + n
  <2>1. Cardinality(Drawn \cup N) = Cardinality(Drawn) + Cardinality(N)
                                      - Cardinality(Drawn \cap N)
    BY <1>2, <1>8, FS_Union
  <2>2. Cardinality(Drawn \cap N) = 0
    BY <1>10, FS_EmptySet
  <2> QED
    BY <1>2, <1>3, <1>8, <2>1, <2>2
<1>12. Position' = d + n
  BY <1>9, <1>11 DEF Position, Drawn
<1>13. CasesAreCounted'
  <2>1. IsFiniteSet(obs')
    BY <1>1, <1>8, FS_Union DEF CasesAreCounted
  <2>2. \A o \in N : o.case = cases /\ o.at \in Nat /\ o.at < d + n
    BY <1>3, <1>4 DEF N, I
  <2>3. \A o \in obs' : o.case \in Nat /\ o.case <= cases' /\ o.at \in Nat
    BY <1>1, <2>2 DEF CasesAreCounted
  <2>4. \A o \in Drawn' : o.at < Position'
    <3>1. \A o \in Drawn : o.at < d /\ o.at \in Nat
      BY DEF CasesAreCounted, Drawn, d
    <3> QED
      BY <1>3, <1>9, <1>12, <2>2, <3>1
  <2> QED
    BY <2>1, <2>3, <2>4 DEF CasesAreCounted
<1> QED
  BY <1>1, <1>3, <1>12, <1>13 DEF d, N, I

LEMMA DrawKeeps ==
    ASSUME RandInv, NEW n \in Nat \ {0}, Draw(n)
    PROVE  RandInv'
<1> DEFINE I == 0 .. n - 1
           N == {Record(i) : i \in I}
<1>1. /\ CasesAreCounted /\ cases \in Nat /\ fresh \in Nat /\ pc = "case"
      /\ pc' = pc /\ target' = target /\ linked' = linked
      /\ installed' = installed /\ input' = input /\ cases' = cases
  BY DEF RandInv, GateHolds, Draw
<1>2. /\ Position \in Nat /\ Position' = Position + n /\ obs' = obs \cup N
      /\ CasesAreCounted'
  BY <1>1, DrawCounts
<1>3. IF Captured THEN det_bytes(n) /\ fresh' = fresh ELSE fresh' = fresh + n
  BY DEF Draw
<1>4. CASE target = "dual"
  <2>1. ~Captured
    BY <1>4 DEF RandInv, GateHolds, Captured
  <2>2. fresh' = fresh + n /\ fresh' \in Nat
    BY <1>1, <1>3, <2>1
  <2>3. \A i \in I : Record(i).byte = <<"system", fresh + i>>
    BY <2>1 DEF Record, Given
  <2>4. /\ \A o \in obs : \E f \in Nat : f < fresh /\ o.byte = <<"system", f>>
        /\ NoByteTwice
    BY <1>4 DEF RandInv, BytesAreKnown
  <2>5. \A o \in obs' : \E f \in Nat : f < fresh' /\ o.byte = <<"system", f>>
    <3> SUFFICES ASSUME NEW o \in obs'
                 PROVE  \E f \in Nat : f < fresh' /\ o.byte = <<"system", f>>
      OBVIOUS
    <3>1. CASE o \in obs
      <4>1. PICK f \in Nat : f < fresh /\ o.byte = <<"system", f>>
        BY <2>4, <3>1
      <4>2. f < fresh'
        BY <1>1, <2>2, <4>1
      <4> QED
        BY <4>1, <4>2
    <3>2. CASE o \in N
      <4>1. PICK i \in I : o = Record(i)
        BY <3>2
      <4>2. fresh + i \in Nat /\ fresh + i < fresh'
        BY <1>1, <2>2
      <4>3. o.byte = <<"system", fresh + i>>
        BY <2>3, <4>1
      <4> QED
        BY <4>2, <4>3
    <3> QED
      BY <1>2, <3>1, <3>2
  <2>6. ASSUME NEW o \in obs, NEW p \in N PROVE o.byte # p.byte
    <3>1. PICK f \in Nat : f < fresh /\ o.byte = <<"system", f>>
      BY <2>4
    <3>2. PICK i \in I : p = Record(i)
      OBVIOUS
    <3>3. p.byte = <<"system", fresh + i>>
      BY <2>3, <3>2
    <3>4. f # fresh + i
      BY <1>1, <3>1
    <3> QED
      BY <3>1, <3>3, <3>4
  <2>7. ASSUME NEW o \in N, NEW p \in N, o.byte = p.byte PROVE o.at = p.at
    <3>1. PICK i \in I : o = Record(i)
      OBVIOUS
    <3>2. PICK j \in I : p = Record(j)
      OBVIOUS
    <3>3. o.byte = <<"system", fresh + i>> /\ p.byte = <<"system", fresh + j>>
      BY <2>3, <3>1, <3>2
    <3>4. fresh + i = fresh + j
      <4> DEFINE a == fresh + i
                 b == fresh + j
      <4> HIDE DEF a, b
      <4>1. <<"system", a>> = <<"system", b>>
        BY <2>7, <3>3 DEF a, b
      <4>2. a = b
        BY <4>1
      <4> QED
        BY <4>2 DEF a, b
    <3>5. i = j
      BY <1>1, <3>4
    <3> QED
      BY <3>1, <3>2, <3>5
  <2>8. NoByteTwice'
    <3> HIDE DEF N
    <3> SUFFICES ASSUME NEW o \in obs', NEW p \in obs',
                        o.case = p.case, o.byte = p.byte
                 PROVE  o.at = p.at
      BY DEF NoByteTwice
    <3>1. CASE o \in obs /\ p \in obs
      BY <2>4, <3>1 DEF NoByteTwice
    <3> QED
      BY <1>2, <2>6, <2>7, <3>1
  <2>9. GateHolds'
    BY <1>1, <1>4, <2>2 DEF RandInv, GateHolds, Captured
  <2>10. StreamFollows' /\ BytesAreKnown'
    BY <1>1, <1>4, <2>5, <2>8 DEF StreamFollows, BytesAreKnown
  <2> QED
    BY <1>2, <2>9, <2>10 DEF RandInv
<1>5. CASE target # "dual"
  <2>1. Captured /\ StreamAt(input, Position)
    BY <1>1, <1>5 DEF RandInv, GateHolds, StreamFollows
  <2>2. det_bytes(n) /\ fresh' = fresh
    BY <1>3, <2>1
  <2>3. \A x, y : y \in Nat /\ StreamAt(x, y) => StreamAt(x, y + n)'
    BY <2>2, DrawMovesOn
  <2>4. StreamFollows'
    <3>1. \A x, y : y \in Nat /\ StreamAt(x, y) =>
             /\ key' = x /\ seeded' = TRUE /\ counter' \in Nat
             /\ used' \in 1 .. BlockSize
             /\ BlockSize * counter' + used' = y + n + BlockSize
             /\ used' < BlockSize =>
                   counter' # 0 /\ block' = [key |-> x, counter |-> counter' - 1]
      BY <2>3 DEF StreamAt
    <3>2. /\ key' = input /\ seeded' = TRUE /\ counter' \in Nat
          /\ used' \in 1 .. BlockSize
          /\ BlockSize * counter' + used' = Position + n + BlockSize
          /\ used' < BlockSize =>
                counter' # 0 /\ block' = [key |-> input, counter |-> counter' - 1]
      BY <1>2, <2>1, <3>1
    <3> QED
      BY <1>1, <1>2, <3>2 DEF StreamFollows, StreamAt
  <2>5. \A i \in I : ByteAt(i) = Spot(input, Position + i)
    <3>1. \A x, y : y \in Nat /\ StreamAt(x, y) =>
             \A i \in I : ByteAt(i) = Spot(x, y + i)
      BY ByteIsSpot
    <3> QED
      BY <1>2, <2>1, <3>1
  <2>6. \A o \in N : o.byte = <<"stream", Spot(o.input, o.at)>>
    BY <2>1, <2>5 DEF Record, Given
  <2>7. BytesAreKnown'
    <3>1. \A o \in obs : o.byte = <<"stream", Spot(o.input, o.at)>>
      BY <1>5 DEF RandInv, BytesAreKnown
    <3> HIDE DEF N
    <3>2. \A o \in obs' : o.byte = <<"stream", Spot(o.input, o.at)>>
      BY <1>2, <2>6, <3>1
    <3> QED
      BY <1>1, <1>5, <3>2 DEF BytesAreKnown, Spot
  <2>8. GateHolds'
    BY <1>1, <1>5, <2>1, <2>2 DEF RandInv, GateHolds, Captured
  <2> QED
    BY <1>2, <2>4, <2>7, <2>8 DEF RandInv
<1> QED
  BY <1>4, <1>5

LEMMA StartKeeps ==
    ASSUME RandInv, NEW x \in Inputs, StartCase(x)
    PROVE  RandInv'
<1>1. /\ pc = "idle" /\ pc' = "case" /\ input' = x /\ cases' = cases + 1
      /\ key' = x /\ counter' = 0 /\ seeded' = TRUE /\ used' = BlockSize
      /\ UNCHANGED <<target, linked, installed, fresh, obs>>
  BY DEF StartCase, reseed_with_label
<1>2. cases \in Nat /\ \A o \in obs : o.case \in Nat /\ o.case <= cases
  BY DEF RandInv, GateHolds, CasesAreCounted
<1>3. GateHolds'
  BY <1>1, <1>2 DEF RandInv, GateHolds, Captured
<1>4. Drawn' = {}
  BY <1>1, <1>2 DEF Drawn
<1>5. Position' = 0
  BY <1>4, FS_EmptySet DEF Position, Drawn
<1>6. StreamFollows'
  BY <1>1, <1>5 DEF StreamFollows, StreamAt
<1>7. CasesAreCounted'
  BY <1>1, <1>2, <1>4 DEF RandInv, CasesAreCounted
<1>8. BytesAreKnown'
  BY <1>1 DEF RandInv, BytesAreKnown, NoByteTwice, Spot
<1> QED
  BY <1>3, <1>6, <1>7, <1>8 DEF RandInv

\* Steps outside of a case leave what was observed.
LEMMA QuietKeeps ==
    ASSUME RandInv, GateHolds', pc' # "case",
           UNCHANGED <<target, linked, fresh, cases, obs>>
    PROVE  RandInv'
<1>1. StreamFollows'
  BY DEF StreamFollows
<1>2. CasesAreCounted'
  BY DEF RandInv, CasesAreCounted, Drawn, Position
<1>3. BytesAreKnown'
  BY DEF RandInv, BytesAreKnown, NoByteTwice, Spot
<1> QED
  BY <1>1, <1>2, <1>3 DEF RandInv

LEMMA NextRand == RandInv /\ [RandNext]_rand_vars => RandInv'
<1> SUFFICES ASSUME RandInv, [RandNext]_rand_vars PROVE RandInv'
  OBVIOUS
<1>1. CASE \E n \in 1 .. MaxDraw : InitializeSingle(n)
  <2>1. GateHolds' /\ pc' # "case" /\ UNCHANGED <<target, linked, fresh, cases, obs>>
    BY <1>1 DEF InitializeSingle, RandInv, GateHolds, Captured
  <2> QED
    BY <2>1, QuietKeeps
<1>2. CASE InitializeDual
  <2>1. GateHolds' /\ pc' # "case" /\ UNCHANGED <<target, linked, fresh, cases, obs>>
    BY <1>2 DEF InitializeDual, RandInv, GateHolds, Captured
  <2> QED
    BY <2>1, QuietKeeps
<1>3. CASE \E x \in Inputs : StartCase(x)
  BY <1>3, StartKeeps
<1>4. CASE \E n \in 1 .. MaxDraw : Draw(n)
  <2>1. PICK n \in 1 .. MaxDraw : Draw(n)
    BY <1>4
  <2>2. n \in Nat \ {0}
    OBVIOUS
  <2> QED
    BY <2>1, <2>2, DrawKeeps
<1>5. CASE EndCase
  <2>1. GateHolds' /\ pc' # "case" /\ UNCHANGED <<target, linked, fresh, cases, obs>>
    BY <1>5 DEF EndCase, RandInv, GateHolds, Captured
  <2> QED
    BY <2>1, QuietKeeps
<1>6. CASE Restart
  <2>1. GateHolds' /\ pc' # "case" /\ UNCHANGED <<target, linked, fresh, cases, obs>>
    BY <1>6 DEF Restart, RandInv, GateHolds, Captured
  <2> QED
    BY <2>1, QuietKeeps
<1>7. CASE UNCHANGED rand_vars
  BY <1>7 DEF rand_vars, RandInv, GateHolds, Captured, StreamFollows, StreamAt,
     CasesAreCounted, Drawn, Position, BytesAreKnown, NoByteTwice, Spot
<1> QED
  BY <1>1, <1>2, <1>3, <1>4, <1>5, <1>6, <1>7 DEF RandNext

LEMMA RandInvariance == RandSpec => []RandInv
<1> QED
  BY InitRand, NextRand, PTL DEF RandSpec

-----------------------------------------------------------------------------
(***************************************************************************)
(* The theorems about the generator.                                       *)
(***************************************************************************)

\* "case N is reproducible independently of how many draws case N-1 consumed"
\* (det_rand.h:37-38), for every block size, in every process and whatever the
\* sizes of the draws: a single-session target that has passed its gates gives
\* the library the same byte at the same position of the same input.
THEOREM EveryCaseIsReproducible == RandSpec => []CasesAreReproducible
<1>1. RandInv => CasesAreReproducible
  BY DEF RandInv, BytesAreKnown, CasesAreReproducible, Reproducible
<1> QED
  BY <1>1, RandInvariance, PTL

\* det_bytes never hands out a byte twice in a case, across any number of
\* blocks (det_rand.cpp:47-57).
THEOREM NoByteIsReused == RandSpec => []NoByteTwice
<1>1. RandInv => NoByteTwice
  <2> SUFFICES ASSUME RandInv, target # "dual",
                      NEW o \in obs, NEW p \in obs, o.byte = p.byte
               PROVE  o.at = p.at
    BY DEF NoByteTwice, RandInv, BytesAreKnown
  <2>1. /\ o.byte = <<"stream", Spot(o.input, o.at)>>
        /\ p.byte = <<"stream", Spot(p.input, p.at)>>
        /\ o.at \in Nat /\ p.at \in Nat
    BY DEF RandInv, BytesAreKnown, CasesAreCounted
  <2>2. Spot(o.input, o.at) = Spot(p.input, p.at)
    <3> DEFINE a == Spot(o.input, o.at)
               b == Spot(p.input, p.at)
    <3> HIDE DEF a, b
    <3>1. <<"stream", a>> = <<"stream", b>>
      BY <2>1 DEF a, b
    <3>2. a = b
      BY <3>1
    <3> QED
      BY <3>2 DEF a, b
  <2>3. Spot(o.input, o.at) = Spot(o.input, p.at)
    BY <2>2 DEF Spot
  <2> QED
    BY <2>1, <2>3, SpotIsOnce
<1> QED
  BY <1>1, RandInvariance, PTL
=============================================================================
