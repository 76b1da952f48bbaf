------------------------------- MODULE RateLimit -------------------------------
(***************************************************************************)
(* internal/infra/ratelimit: the limit of one key, that is of one policy,  *)
(* subject and route.  Each request reads its own process's clock once,    *)
(* then runs two Lua scripts in Redis, each atomic: the token bucket, and  *)
(* the sliding window counter.  Both must allow it.  Requests run side by  *)
(* side, so a script may see a stamp older than the last one it saw.       *)
(*                                                                         *)
(* A tick is the time in which Refill tokens come back.  Requests that a   *)
(* Redis error lets through are not admissions: the limiter decided        *)
(* nothing, though a script may have run.                                  *)
(***************************************************************************)
EXTENDS Integers, FiniteSets

CONSTANTS
    Requests,     \* requests in flight at one time
    Burst,        \* the policy: capacity of the bucket,
    Refill,       \*   tokens that come back in a tick,
    WindowLimit,  \*   quota of a window,
    Window,       \*   ticks in a window
    MaxDelay,     \* bound on how old a stamp may be when a script uses it
    MaxTime       \* bound on the clock

\* The policies of the routes refill a bucket within their window, and a call to
\* Redis times out long before a window has passed.
ASSUME RateLimitAssumption ==
    /\ IsFiniteSet(Requests)
    /\ {Burst, Refill, WindowLimit, Window} \subseteq Nat \ {0}
    /\ {MaxDelay, MaxTime} \subseteq Nat
    /\ MaxDelay < Window
    /\ Burst <= Refill * (Window - MaxDelay)

VARIABLES
    now,        \* the clock of the processes and of Redis
    bucket,     \* the hash of the token bucket and when it expires
    counter,    \* the window counters and when they expire
    request,    \* where each request is, and the stamp it took
    admitted,   \* history: admissions, each with its stamp and how many had it before
    setBack     \* history: how far stamps have set the bucket's ts back, in all

vars == <<now, bucket, counter, request, admitted, setBack>>

Time == 0..MaxTime
Windows == 0..(MaxTime \div Window)
WindowOf(t) == t \div Window

Idle == [at |-> "idle", stamp |-> 0, token |-> FALSE]

\* The keys when they are missing.
NoBucket == [tokens |-> 0, ts |-> 0, expires |-> 0]
NoCounter == [n |-> 0, expires |-> 0]

Init ==
    /\ now = 0
    /\ bucket = NoBucket
    /\ counter = [w \in Windows |-> NoCounter]
    /\ request = [r \in Requests |-> Idle]
    /\ admitted = {}
    /\ setBack = 0

Least(a, b) == IF a < b THEN a ELSE b
Greatest(a, b) == IF a > b THEN a ELSE b

\* How many requests with a stamp in S were admitted.
Admissions(S) == Cardinality({a \in admitted : a[1] \in S})

-----------------------------------------------------------------------------
(***************************************************************************)
(* The scripts.                                                            *)
(***************************************************************************)

\* The bucket as tokenBucketScript finds it: full when the hash is gone.
Found(stamp) ==
    IF bucket = NoBucket THEN [tokens |-> Burst, ts |-> stamp]
    ELSE [tokens |-> bucket.tokens, ts |-> bucket.ts]

\* Mutation of Refilled: the tokens are not capped.
RefilledUncapped(found, stamp) == found.tokens + Greatest(0, stamp - found.ts) * Refill

\* What has come back since ts, at most a full bucket.
Refilled(found, stamp) ==
    Least(Burst, found.tokens + Greatest(0, stamp - found.ts) * Refill)

\* tokenBucketScript writes the stamp as ts even when it is older.
TokenBucket(stamp) ==
    LET found == Found(stamp)
        tokens == Refilled(found, stamp)
    IN  /\ bucket' = [tokens |-> IF tokens >= 1 THEN tokens - 1 ELSE tokens, ts |-> stamp,
                      expires |-> now + Window]
        /\ setBack' = setBack + Greatest(0, found.ts - stamp)

HasToken(stamp) == Refilled(Found(stamp), stamp) >= 1

\* GET of a window's counter.
Count(w) == IF w \in Windows THEN counter[w].n ELSE 0

\* Mutation of Estimate: the window before is not weighed in.
EstimateOfWindow(stamp) == Count(WindowOf(stamp)) * Window

\* The estimate of slidingWindowScript, times Window.
Estimate(stamp) ==
    Count(WindowOf(stamp)) * Window
        + Count(WindowOf(stamp) - 1) * (Window - (stamp % Window))

WindowAllows(stamp) == Estimate(stamp) < WindowLimit * Window

\* INCR; PEXPIRE of two windows when the counter is new.
SlidingWindow(stamp) ==
    LET w == WindowOf(stamp) IN
    IF WindowAllows(stamp)
    THEN counter' = [counter EXCEPT ![w] =
                       [n |-> Count(w) + 1,
                        expires |-> IF Count(w) = 0 THEN now + 2 * Window ELSE @.expires]]
    ELSE UNCHANGED counter

-----------------------------------------------------------------------------
(***************************************************************************)
(* Allow and Middleware.                                                   *)
(***************************************************************************)

Answer(r) == request' = [request EXCEPT ![r] = Idle]

\* Allow reads the clock.
Stamp(r) ==
    /\ request[r] = Idle
    /\ request' = [request EXCEPT ![r] = [at |-> "bucket", stamp |-> now, token |-> FALSE]]
    /\ UNCHANGED <<now, bucket, counter, admitted, setBack>>

RunTokenBucket(r) ==
    LET stamp == request[r].stamp IN
    /\ request[r].at = "bucket"
    /\ TokenBucket(stamp)
    /\ request' = [request EXCEPT ![r] =
                     [at |-> "window", stamp |-> stamp, token |-> HasToken(stamp)]]
    /\ UNCHANGED <<now, counter, admitted>>

\* The window counts a request the bucket has refused; a request it refuses has
\* spent its token.
RunSlidingWindow(r) ==
    LET stamp == request[r].stamp IN
    /\ request[r].at = "window"
    /\ SlidingWindow(stamp)
    /\ admitted' = IF request[r].token /\ WindowAllows(stamp)
                   THEN admitted \cup {<<stamp, Admissions({stamp})>>} ELSE admitted
    /\ Answer(r)
    /\ UNCHANGED <<now, bucket, setBack>>

\* Redis fails, before the script or after it: Middleware lets the request through.
FailOpen(r) ==
    /\ \/ request[r].at = "bucket" /\ UNCHANGED <<bucket, counter, setBack>>
       \/ request[r].at = "bucket" /\ TokenBucket(request[r].stamp) /\ UNCHANGED counter
       \/ request[r].at = "window" /\ UNCHANGED <<bucket, counter, setBack>>
       \/ /\ request[r].at = "window"
          /\ SlidingWindow(request[r].stamp)
          /\ UNCHANGED <<bucket, setBack>>
    /\ Answer(r)
    /\ UNCHANGED <<now, admitted>>

\* Redis drops the keys that expire as the clock moves on.
ExpireKeys ==
    /\ bucket' = IF bucket.expires <= now + 1 THEN NoBucket ELSE bucket
    /\ counter' = [w \in Windows |-> IF counter[w].expires <= now + 1 THEN NoCounter
                                     ELSE counter[w]]

\* Time passes, as far as the requests in flight allow.
Tick ==
    /\ now < MaxTime
    /\ \A r \in Requests : request[r] # Idle => now - request[r].stamp < MaxDelay
    /\ now' = now + 1
    /\ ExpireKeys
    /\ UNCHANGED <<request, admitted, setBack>>

RequestStep(r) == Stamp(r) \/ RunTokenBucket(r) \/ RunSlidingWindow(r) \/ FailOpen(r)

Next == Tick \/ \E r \in Requests : RequestStep(r)

Spec == Init /\ [][Next]_vars
-----------------------------------------------------------------------------
(***************************************************************************)
(* Properties.                                                             *)
(***************************************************************************)
TypeOK ==
    /\ now \in Time
    /\ bucket \in [tokens : 0..Burst, ts : Time, expires : 0..(MaxTime + Window)]
    /\ counter \in [Windows -> [n : 0..WindowLimit, expires : 0..(MaxTime + 2 * Window)]]
    /\ request \in [Requests -> [at : {"idle", "bucket", "window"}, stamp : Time,
                                 token : BOOLEAN]]
    /\ admitted \in SUBSET (Time \X Nat)
    /\ setBack \in Nat

InWindow(w) == {t \in Time : WindowOf(t) = w}

\* A request is admitted only while the admissions of its window, and those of the
\* window before weighed by how much of it the last Window ticks still hold, are
\* under the quota; a request answered after its window has ended may miss the
\* window before, never its own (the two scripts, on any interleaving).
QuotaCountsThePast ==
    [][\A a \in admitted' \ admitted :
          LET s == a[1]
              before == IF WindowOf(now) = WindowOf(s)
                        THEN Admissions(InWindow(WindowOf(s) - 1)) ELSE 0
          IN  Admissions(InWindow(WindowOf(s))) * Window
                  + before * (Window - (s % Window)) < WindowLimit * Window]_vars

\* Between any two instants no more requests are admitted than a full bucket and
\* what comes back meanwhile, counting twice the time by which late requests have
\* set the bucket's clock back (tokenBucketScript, with its expiry).
BurstsAreSmoothed ==
    \A s, t \in Time :
        s <= t => Admissions(s..t) <= Burst + Refill * (t - s + setBack)
=============================================================================
