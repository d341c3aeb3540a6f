-------------------------- MODULE MCWindowSchedule --------------------------
EXTENDS WindowSchedule, TLC

MCNames == 0 .. 6
MCCommon == {0}

\* An empty pool, two short buckets, a bucket of two windows next to a short
\* one, a bucket with nothing but a public seed.
MCInitPools == {{}, {1, 5}, {1, 2, 3, 5}, {0, 4, 5, 6}}

\* Lanes differ in nothing but their pools.
LaneSymmetry == Permutations(Lanes)

=============================================================================
