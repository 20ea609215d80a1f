---------------------------- MODULE TokenBuckets -----------------------------
(***************************************************************************)
(* What a rate limiter promises: every key has a bucket, full at first,    *)
(* that gains a token in every tick until it is full; n tokens are granted *)
(* when the bucket holds them, and none otherwise.                         *)
(***************************************************************************)
EXTENDS Naturals

CONSTANTS Key, Burst, Want, Absent

VARIABLES
    level,  \* the tokens in each bucket
    last    \* the last request and its result

bucketVars == <<level, last>>

NoRequest == [key |-> Absent, n |-> 0, ok |-> TRUE]

BucketsInit == level = [k \in Key |-> Burst] /\ last = NoRequest

Refill ==
    /\ level' = [k \in Key |-> IF level[k] < Burst THEN level[k] + 1 ELSE Burst]
    /\ UNCHANGED last

Request(k, n) ==
    /\ last' = [key |-> k, n |-> n, ok |-> level[k] >= n]
    /\ level' = IF level[k] >= n THEN [level EXCEPT ![k] = @ - n] ELSE level

BucketsNext == Refill \/ \E k \in Key, n \in Want : Request(k, n)

BucketsSpec == BucketsInit /\ [][BucketsNext]_bucketVars
=============================================================================
