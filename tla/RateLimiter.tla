---------------------------- MODULE RateLimiter ----------------------------
(***************************************************************************)
(* security/rate_limit.py: threads that check one key of a RateLimiter.    *)
(* check finds the key's bucket under the registry's lock and consumes     *)
(* from it under the bucket's own, so a configure that replaces the bucket *)
(* can come between the two.  Buckets are numbered in the order configure  *)
(* makes them.  Tokens and time are counted in whole units.                *)
(***************************************************************************)
EXTENDS Naturals, FiniteSets

CONSTANTS
    Threads,
    Capacity,       \* capacity of every bucket configured for the key
    Rate,           \* refill_per_sec
    Costs,          \* the tokens a check may ask for
    MaxBuckets,     \* how often the key is configured
    MaxTime         \* how far the clock runs

ASSUME ConstantsAssumption ==
    /\ Capacity \in Nat \ {0}
    /\ Rate \in Nat \ {0}
    /\ Costs \subseteq Nat \ {0}
    /\ MaxBuckets \in Nat
    /\ MaxTime \in Nat

Buckets == 1..MaxBuckets
None == 0           \* no bucket configured, or looked up

VARIABLES
    now,            \* time.monotonic()
    current,        \* self._buckets[key]
    tokens,         \* _tokens of each bucket
    refilled,       \* _last_refill of each bucket
    found,          \* the bucket each thread has looked up and not yet used
    mark,           \* the start of a window somebody watches (history)
    granted         \* the tokens each bucket granted in it (history)

vars == <<now, current, tokens, refilled, found, mark, granted>>

TypeOK ==
    /\ now \in 0..MaxTime
    /\ current \in 0..MaxBuckets
    /\ tokens \in [Buckets -> 0..Capacity]
    /\ refilled \in [Buckets -> 0..now]
    /\ found \in [Threads -> 0..MaxBuckets]
    /\ mark \in 0..now
    /\ granted \in [Buckets -> Nat]

Init ==
    /\ now = 0
    /\ current = None
    /\ tokens = [b \in Buckets |-> 0]
    /\ refilled = [b \in Buckets |-> 0]
    /\ found = [t \in Threads |-> None]
    /\ mark = 0
    /\ granted = [b \in Buckets |-> 0]

Tick ==
    /\ now < MaxTime
    /\ now' = now + 1
    /\ UNCHANGED <<current, tokens, refilled, found, mark, granted>>

\* A new window: any stretch of time may be the one that is watched.
Watch ==
    /\ mark' = now
    /\ granted' = [b \in Buckets |-> 0]
    /\ UNCHANGED <<now, current, tokens, refilled, found>>

-----------------------------------------------------------------------------
Least(a, b) == IF a <= b THEN a ELSE b

\* WRONG: the refill is not capped.
WrongAvailable(b) == tokens[b] + Rate * (now - refilled[b])

\* _refill_locked: what bucket b holds at this moment.
Available(b) == Least(Capacity, tokens[b] + Rate * (now - refilled[b]))

\* configure puts a new, full bucket in the place of the old one.
Configure ==
    /\ current < MaxBuckets
    /\ current' = current + 1
    /\ tokens' = [tokens EXCEPT ![current'] = Capacity]
    /\ refilled' = [refilled EXCEPT ![current'] = now]
    /\ UNCHANGED <<now, found, mark, granted>>

\* check, first half.  (Without a bucket it returns True and ends there.)
Lookup(t) ==
    /\ found[t] = None
    /\ current # None
    /\ found' = [found EXCEPT ![t] = current]
    /\ UNCHANGED <<now, current, tokens, refilled, mark, granted>>

\* check, second half: try_consume on the bucket found, refused or granted.
TryConsume(t, cost) ==
    LET b == found[t]
        enough == Available(b) >= cost IN
    /\ b # None
    /\ found' = [found EXCEPT ![t] = None]
    /\ tokens' = [tokens EXCEPT ![b] = IF enough THEN Available(b) - cost ELSE Available(b)]
    /\ granted' = [granted EXCEPT ![b] = IF enough THEN @ + cost ELSE @]
    /\ refilled' = [refilled EXCEPT ![b] = now]
    /\ UNCHANGED <<now, current, mark>>

Next ==
    \/ Tick \/ Watch \/ Configure
    \/ \E t \in Threads : Lookup(t)
    \/ \E t \in Threads, cost \in Costs : TryConsume(t, cost)

Spec == Init /\ [][Next]_vars

-----------------------------------------------------------------------------
\* Over any window of time a bucket grants at most its capacity and what was
\* refilled in the window, however the checks of several threads interleave
\* and whichever of them came to the bucket after it was replaced.
RateBound ==
    \A b \in Buckets : granted[b] <= Capacity + Rate * (now - mark)
=============================================================================
