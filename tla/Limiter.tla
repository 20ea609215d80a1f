------------------------------- MODULE Limiter -------------------------------
(***************************************************************************)
(* The server's rate limiter: server/limiter.go.  A bucket is made at the  *)
(* first request of a key, refilled when it is looked at, by the time that *)
(* passed since the last look, and dropped by a sweep when it is full.     *)
(* Nobody can tell: it grants what TokenBuckets grants.                    *)
(*                                                                         *)
(* Time passes in ticks of one token; the code's fractions of a token are  *)
(* left out.                                                               *)
(***************************************************************************)
EXTENDS Naturals

CONSTANTS
    Key,     \* what is limited: addresses, names, sessions
    Burst,   \* burst
    Want,    \* how many tokens are asked for at a time
    Absent,  \* no key, not one of Key
    MaxTime  \* bound: ticks

ASSUME LimiterAssumption ==
    /\ Burst \in Nat \ {0} /\ MaxTime \in Nat
    /\ Want \subseteq Nat \ {0}
    /\ Absent \notin Key

VARIABLES
    buckets,  \* the buckets there are, by key
    now,      \* time.Now
    result    \* the last request and what AllowN said

limiterVars == <<buckets, now, result>>

Bucket == [tokens : 0..Burst, last : 0..MaxTime]
NoResult == [key |-> Absent, n |-> 0, ok |-> TRUE]

LimiterInit == buckets = [k \in {} |-> 0] /\ now = 0 /\ result = NoResult

\* The tokens of a bucket by now.
Refilled(b) ==
    LET t == b.tokens + (now - b.last) IN IF t > Burst THEN Burst ELSE t

\* The bucket of a key, which is made if it is not there.
Looked(k) == IF k \in DOMAIN buckets THEN Refilled(buckets[k]) ELSE Burst

\* AllowN: a refusal takes nothing, and leaves the refilled bucket.
AllowN(k, n) ==
    LET t == Looked(k) IN
    /\ result' = [key |-> k, n |-> n, ok |-> t >= n]
    /\ buckets' = [j \in DOMAIN buckets \union {k} |->
           IF j = k THEN [tokens |-> IF t >= n THEN t - n ELSE t, last |-> now] ELSE buckets[j]]
    /\ UNCHANGED now

\* Mutant: buckets that are not looked at for long are dropped, full or not.
SweepOld ==
    /\ buckets' = [k \in {j \in DOMAIN buckets : buckets[j].last = now} |-> buckets[k]]
    /\ UNCHANGED <<now, result>>

\* sweep: buckets that have refilled completely are forgotten.
Sweep ==
    /\ buckets' = [k \in {j \in DOMAIN buckets : buckets[j].tokens + (now - buckets[j].last) < Burst}
                       |-> buckets[k]]
    /\ UNCHANGED <<now, result>>

TimePasses ==
    /\ now < MaxTime /\ now' = now + 1
    /\ UNCHANGED <<buckets, result>>

LimiterNext == (\E k \in Key, n \in Want : AllowN(k, n)) \/ Sweep \/ TimePasses

LimiterSpec == LimiterInit /\ [][LimiterNext]_limiterVars

-----------------------------------------------------------------------------
(* Properties.                                                             *)

\* The variables hold values of their types; no bucket is older than the clock.
LimiterTypeOK ==
    /\ now \in 0..MaxTime
    /\ DOMAIN buckets \subseteq Key
    /\ \A k \in DOMAIN buckets : buckets[k] \in Bucket /\ buckets[k].last <= now
    /\ result \in [key : Key, n : Want, ok : BOOLEAN] \union {NoResult}

\* The levels of all keys, with or without a bucket.
Levels == [k \in Key |-> Looked(k)]

TB == INSTANCE TokenBuckets WITH level <- Levels, last <- result

\* A limiter that forgets full buckets and refills when asked grants and refuses
\* exactly what one with a bucket for every key does (AllowN, sweep).
GrantsAsPromised == TB!BucketsSpec
=============================================================================
