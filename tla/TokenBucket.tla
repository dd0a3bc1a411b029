---------------------------- MODULE TokenBucket ----------------------------
(***************************************************************************)
(* What a bandwidth limit promises: a bucket of at most `Burst` bytes that *)
(* gains `Rate` bytes with every tick of the clock, from which transfers   *)
(* take what they need.  In any d ticks at most Burst + d * Rate bytes are *)
(* let through.                                                            *)
(***************************************************************************)
EXTENDS Integers

CONSTANTS
    Rate,       \* bytes per tick
    Burst,      \* the most that can be saved up
    Requests    \* the numbers of bytes that are asked for

VARIABLE level

BucketTypeOK == level \in 0 .. Burst

BucketInit == level = Burst

Fill(amount) == IF level + amount > Burst THEN Burst ELSE level + amount

TickBucket == level' = Fill(Rate)

Take(n) ==
    /\ n <= level
    /\ level' = level - n

BucketNext == TickBucket \/ \E n \in Requests : Take(n)

BucketSpec == BucketInit /\ [][BucketNext]_level
=============================================================================
