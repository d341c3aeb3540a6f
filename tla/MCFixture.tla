----------------------------- MODULE MCFixture -----------------------------
(***************************************************************************)
(* Command lines of mk_snapshot: the two fixtures of the image (2 of 2,    *)
(* 3 of 4), repeated ids among the signers and after them, a single        *)
(* player, and counts and thresholds at and above the width of a byte.     *)
(***************************************************************************)
EXTENDS Fixture

MCIds == {<<1>>, <<1, 2>>, <<1, 1>>, <<1, 2, 2>>, <<1, 2, 3, 4>>,
          [i \in 1 .. 10 |-> i]}
MCRequests ==
    [seed : {1}, t : {0, 3, 10}, ids : MCIds]
        \cup [seed : {2}, t : {2}, ids : {<<1, 2>>, <<1, 2, 3, 4>>}]
=============================================================================
