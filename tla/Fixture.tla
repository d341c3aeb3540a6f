------------------------------ MODULE Fixture ------------------------------
(***************************************************************************)
(* The frozen fixture: mk_snapshot generates key material once, writes it  *)
(* to a file and reads it back (snapshot.cpp, mk_snapshot.cpp); every      *)
(* program of the harness loads that file when it starts and passes its    *)
(* own gates before it accepts an input (fuzzer.cpp,                       *)
(* fuzzer_reachability_v2.cpp, fuzzer_dual_session.cpp, main.cpp,          *)
(* smoke.cpp).                                                             *)
(*                                                                         *)
(* The writer may be killed, its last flush may be lost, a program may     *)
(* start while the file is being written, and one field of the file may be *)
(* damaged.  The file is the sequence of the fields that put_u32, put_u64  *)
(* and put_blob append; a field cut in its middle is `partial'.            *)
(***************************************************************************)
EXTENDS Naturals, Sequences, FiniteSets, FiniteSetsExt

CONSTANTS
    ByteSize,    \* values of a uint8_t, 2^8 in the code
    Requests,    \* command lines of mk_snapshot: seed, threshold, ids
    MaxBuilds    \* bound on the invocations of mk_snapshot

ASSUME FixtureConstants ==
    /\ {ByteSize, MaxBuilds} \subseteq Nat /\ ByteSize > 2
    /\ \A r \in Requests :
          /\ r = [seed |-> r.seed, t |-> r.t, ids |-> r.ids]
          /\ r.seed \in Nat /\ r.t \in Nat /\ r.ids \in Seq(Nat)

VARIABLES
    file,      \* the file at the output path: its fields, the last one cut
    mk,        \* the invocation of mk_snapshot: state, request, snapshot
    builds,    \* invocations so far
    built,     \* history: the snapshots that were verified and written
    damaged,   \* whether a field of the finished file was altered
    host       \* the program that loads the file

vars == <<file, mk, builds, built, damaged, host>>

Targets == {"general", "reachability", "dual", "runner", "smoke"}

(***************************************************************************)
(* The key material.  g^x is named by x, a sum of shares by the bag of its *)
(* terms, and a key pair by the invocation and the player it was generated *)
(* for.                                                                    *)
(***************************************************************************)
generator_mul(x) == [point |-> x]
Projection(private) == [public |-> private.private]

\* SHA256("opus-share-" id): the share depends on the id alone.
Share(id) == id

Player(seed, id, i) ==
    LET key == [private |-> <<seed, i>>]
    IN [id |-> id, share |-> Share(id),
        public_share |-> generator_mul(Share(id)),
        paillier_pub |-> Projection(key), paillier_priv |-> key,
        rp_pub |-> Projection(key), rp_priv |-> key]

\* The sum of the shares f: how often each of them is added.  Shares are
\* digests, among which no other sums coincide.
add_scalars(f) ==
    [x \in {f[i] : i \in DOMAIN f} |-> Cardinality({i \in DOMAIN f : f[i] = x})]

NoShares == <<>>

\* The aggregate key has the shares of the first t players only.
AggregateKey(players, t) ==
    generator_mul(add_scalars([i \in 1 .. t |-> players[i].share]))

\* t = 0 asks for every player.
Threshold(t, ids) == IF t = 0 THEN Len(ids) % ByteSize ELSE t

GenerateAccepts(t, ids) ==
    /\ Len(ids) >= 2
    /\ Threshold(t, ids) >= 2 /\ Threshold(t, ids) <= Len(ids)

\* Mutant: n keeps the width of the player count.
generate_snapshot_Uncast(seed, ids, t) ==
    LET players == [i \in DOMAIN ids |-> Player(seed, ids[i], i)]
    IN [algorithm |-> 0, seed |-> 0,
        public_key |-> AggregateKey(players, Threshold(t, ids)),
        t |-> Threshold(t, ids), n |-> Len(ids), players |-> players]

generate_snapshot(seed, ids, t) ==
    LET players == [i \in DOMAIN ids |-> Player(seed, ids[i], i)]
    IN [algorithm |-> 0, seed |-> 0,
        public_key |-> AggregateKey(players, Threshold(t, ids)),
        t |-> Threshold(t, ids), n |-> Len(ids) % ByteSize,
        players |-> players]

\* What a program trusts of a snapshot before it uses it.
verify_snapshot(s) ==
    /\ Len(s.players) >= 2
    /\ s.t >= 2 /\ s.t <= Len(s.players)
    /\ s.n = Len(s.players)
    /\ \A i \in DOMAIN s.players :
          LET p == s.players[i]
          IN /\ p.public_share = generator_mul(p.share)
             /\ p.paillier_pub = Projection(p.paillier_priv)
             /\ p.rp_pub = Projection(p.rp_priv)
    /\ s.public_key = AggregateKey(s.players, s.t)

(***************************************************************************)
(* The file.                                                               *)
(***************************************************************************)
SNAPSHOT_MAGIC == 79
SNAPSHOT_FORMAT_VERSION == 1

PlayerFields == <<"id", "share", "public_share", "paillier_pub",
                  "paillier_priv", "rp_pub", "rp_priv">>
Width == Len(PlayerFields)
HeaderLen == 8
FieldCount(s) == HeaderLen + Width * Len(s.players)

Header(s) == <<SNAPSHOT_MAGIC, SNAPSHOT_FORMAT_VERSION, s.algorithm,
               s.public_key, s.seed, s.t, s.n, Len(s.players)>>

\* The player that the field k after the header belongs to, and which of the
\* player's fields it is.
Owner(k) == 1 + ((k - HeaderLen - 1) \div Width)
Column(k) == 1 + ((k - HeaderLen - 1) % Width)

\* The buffer that write_snapshot assembles.
Serialized(s) ==
    [k \in 1 .. FieldCount(s) |->
        IF k <= HeaderLen THEN Header(s)[k]
        ELSE s.players[Owner(k)][PlayerFields[Column(k)]]]

\* The reader's flag: no read of the header or of a player ran past the end.
reader_ok(f) ==
    /\ Len(f.fields) >= HeaderLen
    /\ Len(f.fields) >= HeaderLen + Width * f.fields[8]

\* read_snapshot accepts a file that starts as it should and ends exactly
\* where its player count says.
Readable(f) ==
    /\ reader_ok(f)
    /\ f.fields[1] = SNAPSHOT_MAGIC
    /\ f.fields[2] = SNAPSHOT_FORMAT_VERSION
    /\ ~f.partial /\ Len(f.fields) = HeaderLen + Width * f.fields[8]

\* What it reads: t and n are cast from 32 bits to a uint8_t.
read_snapshot(f) ==
    LET field(i, k) == f.fields[HeaderLen + Width * (i - 1) + k]
    IN [algorithm |-> f.fields[3], public_key |-> f.fields[4],
        seed |-> f.fields[5], t |-> f.fields[6] % ByteSize,
        n |-> f.fields[7] % ByteSize,
        players |-> [i \in 1 .. f.fields[8] |->
            [id |-> field(i, 1), share |-> field(i, 2),
             public_share |-> field(i, 3), paillier_pub |-> field(i, 4),
             paillier_priv |-> field(i, 5), rp_pub |-> field(i, 6),
             rp_priv |-> field(i, 7)]]]

Loads(f) == Readable(f) /\ verify_snapshot(read_snapshot(f))

(***************************************************************************)
(* mk_snapshot                                                             *)
(***************************************************************************)
NoFile == [fields |-> <<>>, partial |-> FALSE]

\* A default-constructed snapshot.
NoSnap == [algorithm |-> 0, seed |-> 0, public_key |-> generator_mul(NoShares),
           t |-> 0, n |-> 0, players |-> <<>>]
NoRequest == [seed |-> 0, t |-> 0, ids |-> <<>>]
Off == [st |-> "off", target |-> "none", snap |-> NoSnap, installed |-> 0]

\* A missing file and an empty one are refused alike.
Init ==
    /\ file = NoFile
    /\ mk = [st |-> "idle", req |-> NoRequest, snap |-> NoSnap]
    /\ builds = 0 /\ built = {} /\ damaged = FALSE
    /\ host = Off

Exited == mk.st \in {"idle", "ok", "failed"}

\* A program reads the file once; what happens to it later is left out.
Alone == host.st = "off"

\* Parse the command line (--t is cast to a uint8_t), generate and verify.
\* Every call of the library may fail.
Generate(req, fails) ==
    LET t == req.t % ByteSize
        snap == generate_snapshot(req.seed, req.ids, t)
        ok == GenerateAccepts(t, req.ids) /\ ~fails
    IN /\ Exited /\ Alone /\ builds < MaxBuilds /\ ~damaged
       /\ builds' = builds + 1
       /\ mk' = [st |-> IF ok /\ verify_snapshot(snap) THEN "verified"
                        ELSE "failed",
                 req |-> IF ok THEN req ELSE NoRequest,
                 snap |-> IF ok THEN snap ELSE NoSnap]
       /\ UNCHANGED <<file, built, damaged, host>>

\* std::ofstream with trunc: from here on the old snapshot is gone.
OpenFile ==
    /\ mk.st = "verified" /\ Alone
    /\ mk' = [mk EXCEPT !.st = "writing"]
    /\ file' = NoFile
    /\ built' = built \cup {mk.snap}
    /\ UNCHANGED <<builds, damaged, host>>

\* The file has the first k fields of the buffer, and maybe a part of the next.
WriteSome(k, partial) ==
    LET buffer == Serialized(mk.snap)
    IN /\ mk.st = "writing" /\ Alone
       /\ Len(file.fields) + (IF file.partial THEN 1 ELSE 0) <= k
       /\ partial => k < Len(buffer)
       /\ file' = [fields |-> SubSeq(buffer, 1, k), partial |-> partial]
       /\ UNCHANGED <<mk, builds, built, damaged, host>>

\* write_snapshot returns true before the stream is flushed: what is in the
\* file then is what the destructor got out, with no error either way.
WriteDone ==
    /\ mk.st = "writing" /\ Alone
    /\ mk' = [mk EXCEPT !.st = "written"]
    /\ UNCHANGED <<file, builds, built, damaged, host>>

\* Mutant: the read-back is trusted.
ReadBack_Trusting ==
    /\ mk.st = "written" /\ Alone
    /\ mk' = [mk EXCEPT !.st = "ok"]
    /\ UNCHANGED <<file, builds, built, damaged, host>>

\* Read the file back and verify it again, then report it as written.
ReadBack ==
    /\ mk.st = "written" /\ Alone
    /\ mk' = [mk EXCEPT !.st = IF Loads(file) THEN "ok" ELSE "failed"]
    /\ UNCHANGED <<file, builds, built, damaged, host>>

\* The process is killed, or open or write report an error; what is in the
\* file stays there.
MkFails ==
    /\ ~Exited /\ Alone
    /\ mk' = [mk EXCEPT !.st = "failed"]
    /\ UNCHANGED <<file, builds, built, damaged, host>>

\* The values that a damaged field k may take.
Altered(k) ==
    LET x == file.fields[k]
        name == PlayerFields[Column(k)]
    IN IF k = 4 THEN {generator_mul(NoShares)}
       ELSE IF k <= HeaderLen THEN {x + 1, x + ByteSize}
       ELSE IF name \in {"id", "share"} THEN {x + 1}
       ELSE IF name = "public_share" THEN {generator_mul(0)}
       ELSE IF name \in {"paillier_pub", "rp_pub"} THEN {[public |-> <<0, 0>>]}
       ELSE {[private |-> <<0, 0>>]}

IsId(k) == k > HeaderLen /\ PlayerFields[Column(k)] = "id"

\* A copy of the finished file differs in one field.  The ids are left out:
\* verify_snapshot cannot tell one id from another.
Damage(k) ==
    /\ mk.st = "ok" /\ Alone /\ ~damaged
    /\ k \in DOMAIN file.fields /\ ~IsId(k)
    /\ \E v \in Altered(k) : file' = [file EXCEPT !.fields[k] = v]
    /\ damaged' = TRUE
    /\ UNCHANGED <<mk, builds, built, host>>

(***************************************************************************)
(* The programs that load it.                                              *)
(***************************************************************************)
PlayerIds(s) == {s.players[i].id : i \in DOMAIN s.players}

\* The record of an id among the first k: a later one replaces an earlier.
Holder(s, id, k) == Max({i \in 1 .. k : s.players[i].id = id})

\* install_snapshot's one metadata object, the same for every player.
players_info(s) ==
    [id \in PlayerIds(s) |->
        LET p == s.players[Holder(s, id, Len(s.players))]
        IN [public_share |-> p.public_share,
            paillier |-> p.paillier_pub, ring_pedersen |-> p.rp_pub]]

\* The ids whose store has key, metadata and auxiliary keys once the first k
\* players are installed, and what those stores hold.
Preloaded(s, k) == {s.players[i].id : i \in 1 .. k}
key_store(s, k) ==
    [id \in Preloaded(s, k) |->
        LET p == s.players[Holder(s, id, k)]
        IN [private_key |-> p.share, metadata |-> players_info(s),
            paillier |-> p.paillier_priv, ring_pedersen |-> p.rp_priv]]

\* The designated signers: the first t ids.
DesignatedIds(s) == {s.players[i].id : i \in 1 .. s.t}

\* Read and verify.
Load(target) ==
    /\ host.st = "off"
    /\ host' = [st |-> IF Loads(file) THEN "loaded" ELSE "refused",
                target |-> target,
                snap |-> IF Loads(file) THEN read_snapshot(file) ELSE NoSnap,
                installed |-> 0]
    /\ UNCHANGED <<file, mk, builds, built, damaged>>

\* rng_is_effective drives start_signing with the designated signers: the
\* library wants t different ones.  It also fails when the generator does not
\* reach the library, and may fail for an algorithm that is not 0, which it
\* passes on as it is in the snapshot.  Then the player count of the target.
Probe(effective) ==
    LET s == host.snap
    IN /\ host.st = "loaded" /\ host.target # "dual"
       /\ host' = [host EXCEPT !.st =
             IF /\ effective
                /\ Cardinality(DesignatedIds(s)) = s.t
                /\ host.target = "reachability" => Len(s.players) >= 3
             THEN "probed" ELSE "refused"]
       /\ UNCHANGED <<file, mk, builds, built, damaged>>

\* Mutant: a failed installation is not noticed.
Install_Unchecked(k) ==
    LET s == host.snap
    IN /\ host.st = "probed" \/ (host.st = "loaded" /\ host.target = "dual")
       /\ k <= Len(s.players)
       /\ host' = [host EXCEPT !.installed = k, !.st =
             IF host.target \in {"general", "reachability"} THEN "running"
             ELSE "control"]
       /\ UNCHANGED <<file, mk, builds, built, damaged>>

\* The constructor of the session: install_snapshot stops at the first player
\* whose keys do not deserialise, with the stores before it filled.
Install(k) ==
    LET s == host.snap
    IN /\ host.st = "probed" \/ (host.st = "loaded" /\ host.target = "dual")
       /\ k <= Len(s.players)
       /\ host' = [host EXCEPT !.installed = k, !.st =
             IF k < Len(s.players) THEN "refused"
             ELSE IF host.target \in {"general", "reachability"} THEN "running"
             ELSE "control"]
       /\ UNCHANGED <<file, mk, builds, built, damaged>>

\* What an honest ceremony needs of the stores: t different signers, whose
\* shares add up to the public key, and auxiliary keys that fit the metadata.
StoresFit(s, k, signers) ==
    LET store == key_store(s, k)
    IN /\ Cardinality(signers) = s.t
       /\ signers \subseteq Preloaded(s, k)
       /\ s.public_key = generator_mul(add_scalars(
             [id \in signers |-> store[id].private_key]))
       /\ \A i, j \in signers :
             LET info == store[j].metadata[i]
             IN /\ info.public_share = generator_mul(store[i].private_key)
                /\ info.paillier = Projection(store[i].paillier)
                /\ info.ring_pedersen = Projection(store[i].ring_pedersen)

\* Every ceremony is started for the algorithm 0, ECDSA_SECP256K1, while the
\* metadata and the oracle's curve have the algorithm of the snapshot, which
\* verify_snapshot does not look at.
Signable(s, k, signers) == s.algorithm = 0 /\ StoresFit(s, k, signers)

\* The signers of the control: the dual target takes the first t ids, the
\* runner and the smoke test take every player, once each.
ControlSigns(s) ==
    IF host.target = "dual"
    THEN Signable(s, host.installed, DesignatedIds(s))
    ELSE /\ Len(s.players) = s.t
         /\ Signable(s, host.installed, PlayerIds(s))

\* The honest control run before the first case; it may fail in any case.
Control(passes) ==
    /\ host.st = "control"
    /\ host' = [host EXCEPT !.st =
          IF passes /\ ControlSigns(host.snap) THEN "running" ELSE "refused"]
    /\ UNCHANGED <<file, mk, builds, built, damaged>>

Next ==
    \/ \E req \in Requests, fails \in BOOLEAN : Generate(req, fails)
    \/ OpenFile
    \/ \E k \in 0 .. FieldCount(mk.snap), partial \in BOOLEAN :
          WriteSome(k, partial)
    \/ WriteDone
    \/ ReadBack
    \/ MkFails
    \/ \E k \in DOMAIN file.fields : Damage(k)
    \/ \E target \in Targets : Load(target)
    \/ \E effective \in BOOLEAN : Probe(effective)
    \/ \E k \in 0 .. Len(host.snap.players) : Install(k)
    \/ \E passes \in BOOLEAN : Control(passes)

Spec == Init /\ [][Next]_vars

-----------------------------------------------------------------------------
(***************************************************************************)
(* Properties                                                              *)
(***************************************************************************)

\* The type invariant: what was generated fits the fields it is stored in.
TypeOK ==
    /\ file.partial \in BOOLEAN
    /\ mk.st \in {"idle", "verified", "writing", "written", "ok", "failed"}
    /\ mk.req \in Requests \cup {NoRequest}
    /\ mk.snap = NoSnap \/ {mk.snap.t, mk.snap.n} \subseteq 0 .. ByteSize - 1
    /\ builds \in 0 .. MaxBuilds /\ Cardinality(built) <= builds
    /\ damaged \in BOOLEAN
    /\ host.st \in {"off", "loaded", "probed", "control", "running", "refused"}
    /\ host.target \in Targets \cup {"none"}
    /\ host.installed \in 0 .. Len(host.snap.players)

\* When mk_snapshot reports success, the file holds the whole snapshot that it
\* generated, for the players it was asked for, with a threshold that is the
\* one asked for up to the width of a byte, although the last flush goes
\* unchecked and counts wrap around (mk_snapshot.cpp:40-102, snapshot.cpp:386-411).
BuiltAsAsked ==
    mk.st = "ok" /\ ~damaged =>
        LET s == read_snapshot(file)
            t == mk.req.t % ByteSize
        IN /\ Readable(file) /\ s = mk.snap
           /\ [i \in DOMAIN s.players |-> s.players[i].id] = mk.req.ids
           /\ s.n = Len(mk.req.ids)
           /\ s.t = IF t = 0 THEN s.n ELSE t

\* A program that accepts inputs holds a snapshot that one invocation of
\* mk_snapshot generated as a whole, never a torn file or a mixture of two,
\* unless the file was damaged afterwards; and even then the shares and keys
\* in its stores fit each other, for the designated signers ("A snapshot that
\* fails this must never be used", snapshot.h:92).  With one exception they
\* also complete an honest ceremony: of a damaged algorithm the targets that
\* run no control, general and reachability, may notice nothing, because
\* verify_snapshot does not check it (snapshot.cpp:281-380).
RunningIsSound ==
    LET signers == DesignatedIds(host.snap)
    IN host.st = "running" =>
          /\ damaged \/ host.snap \in built
          /\ \/ Signable(host.snap, host.installed, signers)
             \/ /\ damaged /\ host.snap.algorithm # 0
                /\ host.target \in {"general", "reachability"}
                /\ StoresFit(host.snap, host.installed, signers)
=============================================================================
