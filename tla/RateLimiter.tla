---------------------------- MODULE RateLimiter ----------------------------
(***************************************************************************)
(* RateLimiter.WaitN: a token bucket that is only brought up to date when  *)
(* a caller looks at it, shared by callers that sleep in slices until it   *)
(* holds what they ask for.                                                *)
(*                                                                         *)
(* Time is counted in ticks; a second has TicksPerSecond of them.  Tokens  *)
(* are integers here and floats in the code, and a sleep is a whole number *)
(* of ticks, rounded down as the code rounds it to nanoseconds: a caller   *)
(* may wake up too early and look again.  time.Sleep may also last longer  *)
(* than asked.  A nil limiter and WaitN(0) return at once and are left out.*)
(***************************************************************************)
EXTENDS Integers

CONSTANTS
    Callers,        \* goroutines that may be inside WaitN
    Requests,       \* the n they pass
    Rate,           \* ratePerSec, per tick
    TicksPerSecond,
    MaxSleep        \* the 250 ms slice, in ticks

ASSUME LimiterAssumption ==
    /\ Requests \subseteq Nat \ {0}
    /\ Rate \in Nat \ {0}
    /\ TicksPerSecond \in Nat \ {0}
    /\ MaxSleep \in Nat \ {0}

VARIABLES
    tokens,     \* r.tokens
    since,      \* ticks since r.last, as far as they matter
    pc,         \* per caller: "idle", "looking" or "sleeping"
    need,       \* its n
    sleep       \* the ticks it still has to sleep

vars == <<tokens, since, pc, need, sleep>>

\* burst is one second's worth.
Burst == Rate * TicksPerSecond

Least(a, b) == IF a < b THEN a ELSE b

\* Mutant: the bucket never overflows.
Refreshed_Uncapped == tokens + since * Rate

\* What the bucket holds once the time since r.last has been added.
Refreshed == Least(Burst, tokens + since * Rate)

Init ==
    /\ tokens = Burst
    /\ since = 0
    /\ pc = [c \in Callers |-> "idle"]
    /\ need \in [Callers -> Requests]
    /\ sleep = [c \in Callers |-> 0]

Call(c, n) ==
    /\ pc[c] = "idle"
    /\ pc' = [pc EXCEPT ![c] = "looking"]
    /\ need' = [need EXCEPT ![c] = n]
    /\ UNCHANGED <<tokens, since, sleep>>

\* Mutant: the last token cannot be taken.
Granted_Strict(c) ==
    /\ pc[c] = "looking"
    /\ Refreshed > need[c]
    /\ tokens' = Refreshed - need[c]
    /\ since' = 0
    /\ pc' = [pc EXCEPT ![c] = "idle"]
    /\ UNCHANGED <<need, sleep>>

\* The locked part of the loop when the bucket holds enough ...
Granted(c) ==
    /\ pc[c] = "looking"
    /\ Refreshed >= need[c]
    /\ tokens' = Refreshed - need[c]
    /\ since' = 0
    /\ pc' = [pc EXCEPT ![c] = "idle"]
    /\ UNCHANGED <<need, sleep>>

\* Mutant: always a whole slice.
SleepFor_Slice(deficit) == MaxSleep

\* ... and when it does not.
SleepFor(deficit) == Least(MaxSleep, deficit \div Rate)

\* Mutant: r.last is not moved on, so that time counts twice.
Deferred_Twice(c) ==
    /\ pc[c] = "looking"
    /\ Refreshed < need[c]
    /\ tokens' = Refreshed
    /\ pc' = [pc EXCEPT ![c] = "sleeping"]
    /\ sleep' = [sleep EXCEPT ![c] = SleepFor(need[c] - Refreshed)]
    /\ UNCHANGED <<since, need>>

Deferred(c) ==
    /\ pc[c] = "looking"
    /\ Refreshed < need[c]
    /\ tokens' = Refreshed
    /\ since' = 0
    /\ pc' = [pc EXCEPT ![c] = "sleeping"]
    /\ sleep' = [sleep EXCEPT ![c] = SleepFor(need[c] - Refreshed)]
    /\ UNCHANGED need

Wake(c) ==
    /\ pc[c] = "sleeping"
    /\ sleep[c] = 0
    /\ pc' = [pc EXCEPT ![c] = "looking"]
    /\ UNCHANGED <<tokens, since, need, sleep>>

\* After a second without a look the bucket is full: no more ticks are counted.
Tick ==
    /\ since' = Least(since + 1, TicksPerSecond)
    /\ sleep' = [c \in Callers |-> IF sleep[c] > 0 THEN sleep[c] - 1 ELSE 0]
    /\ UNCHANGED <<tokens, pc, need>>

Look(c) == Granted(c) \/ Deferred(c)

Next ==
    \/ \E c \in Callers :
        \/ \E n \in Requests : Call(c, n)
        \/ Look(c)
        \/ Wake(c)
    \/ Tick

Spec == Init /\ [][Next]_vars

\* Time passes, and a caller that can go on does.
Fairness ==
    /\ WF_vars(Tick)
    /\ \A c \in Callers : WF_vars(Look(c)) /\ WF_vars(Wake(c))

FairSpec == Spec /\ Fairness

----------------------------------------------------------------------------
(* Properties.                                                             *)

TypeOK ==
    /\ tokens \in 0 .. Burst
    /\ since \in 0 .. TicksPerSecond
    /\ pc \in [Callers -> {"idle", "looking", "sleeping"}]
    /\ need \in [Callers -> Requests]
    /\ sleep \in [Callers -> 0 .. MaxSleep]

Bucket == INSTANCE TokenBucket WITH level <- Refreshed

\* However the callers interleave, sleep and look, they get no more than a
\* bucket that is filled on every tick would give them: adding the time that
\* has passed only now and then, by whoever comes along, neither loses nor
\* invents budget.
ImplementsBucket == Bucket!BucketSpec

\* Nobody is asleep while the budget it waits for is there: the sleep that was
\* computed from the deficit of one moment does not outlast the deficit, also
\* when others take from the bucket or bring it up to date meanwhile.
NeverOversleeps ==
    \A c \in Callers :
        pc[c] = "sleeping" /\ sleep[c] > 0 => Refreshed + sleep[c] * Rate <= need[c]

\* WaitN "blocks until n bytes' worth of bandwidth budget is available"
\* (ratelimit.go:42): some time it is, and a caller that the others have left
\* alone with the bucket returns, whatever they did to it before.
WaitReturns ==
    \A c \in Callers :
        <>[](\A d \in Callers \ {c} : pc[d] = "idle")
            => (pc[c] # "idle" ~> pc[c] = "idle")
=============================================================================
