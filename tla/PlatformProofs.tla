---------------------------- MODULE PlatformProofs ----------------------------
(***************************************************************************)
(* Proofs about what the domains stand on: the rate limiter, the startup   *)
(* lock of the workers and the email queue they drain.                     *)
(***************************************************************************)
EXTENDS RateLimit, WorkerLock, Notifications, FiniteSetTheorems, TLAPS

-----------------------------------------------------------------------------
(***************************************************************************)
(* The rate limiter: arithmetic.                                           *)
(***************************************************************************)
LEMMA Constants ==
  /\ Burst \in Nat \ {0} /\ Refill \in Nat \ {0} /\ WindowLimit \in Nat \ {0}
  /\ Window \in Nat \ {0} /\ MaxDelay \in Nat /\ MaxTime \in Nat
  /\ MaxDelay < Window /\ Burst <= Refill * (Window - MaxDelay)
  /\ IsFiniteSet(Requests)
  BY RateLimitAssumption

\* What comes back in a time, in the forms the proofs compute with.
LEMMA RefillGrows ==
  /\ \A a \in Int : Refill * a \in Int
  /\ \A a, b \in Int : Refill * (a + b) = Refill * a + Refill * b
  /\ \A a, b \in Int : a <= b => Refill * a <= Refill * b
  /\ \A a \in Nat : a * Refill = Refill * a /\ Refill * a >= 0
  BY Constants

LEMMA Spans ==
  \A s, t, b, c \in Nat :
      /\ t - s + b \in Int
      /\ s <= t => t - s + b \in Nat /\ t - s + b >= 0
      /\ b <= c => t - s + b <= t - s + c
      /\ \A x \in Nat : x <= t => x - s + b <= t - s + b
  OBVIOUS

\* A window starts where the one before ends.
LEMMA WindowsTile ==
  ASSUME NEW t \in Nat
  PROVE  /\ WindowOf(t) \in Nat
         /\ WindowOf(t) * Window <= t /\ t < WindowOf(t) * Window + Window
         /\ t % Window \in 0..(Window - 1)
  BY Constants DEF WindowOf

LEMMA WindowsOrder ==
  ASSUME NEW v \in Nat, NEW w \in Nat, v * Window < w * Window + Window
  PROVE  v <= w
  BY Constants

LEMMA StampWindow ==
  ASSUME NEW t \in Time
  PROVE  WindowOf(t) \in Windows
  <1>1. /\ WindowOf(t) \in Nat /\ WindowOf(MaxTime) \in Nat
        /\ WindowOf(t) * Window <= t /\ MaxTime < WindowOf(MaxTime) * Window + Window
        /\ t \in Nat /\ t <= MaxTime
    BY WindowsTile, Constants DEF Time
  <1>2. WindowOf(t) * Window < WindowOf(MaxTime) * Window + Window
    <2>1. WindowOf(t) * Window \in Int /\ WindowOf(MaxTime) * Window + Window \in Int
      BY <1>1, Constants
    <2>2. QED
      BY <1>1, <2>1, Constants
  <1>3. WindowOf(t) <= WindowOf(MaxTime)
    BY <1>1, <1>2, WindowsOrder
  <1>4. QED
    BY <1>1, <1>3 DEF Windows, WindowOf

-----------------------------------------------------------------------------
(***************************************************************************)
(* The rate limiter: what is counted.                                      *)
(***************************************************************************)

\* The requests that hold a token the window has yet to decide on, and all the tokens
\* taken with a stamp in S.
HoldersIn(S) ==
    {r \in Requests : request[r].at = "window" /\ request[r].token /\ request[r].stamp \in S}
AdmittedIn(S) == {a \in admitted : a[1] \in S}
Taken(S) == Cardinality(AdmittedIn(S)) + Cardinality(HoldersIn(S))

\* The history: finite, and the admissions of a stamp are numbered from zero.
Numbered ==
    /\ admitted \in SUBSET (Time \X Nat)
    /\ IsFiniteSet(admitted)
    /\ \A a \in admitted : a[2] < Admissions({a[1]})

LEMMA Counts ==
  ASSUME Numbered, NEW S
  PROVE  /\ Admissions(S) = Cardinality(AdmittedIn(S))
         /\ IsFiniteSet(AdmittedIn(S)) /\ Cardinality(AdmittedIn(S)) \in Nat
         /\ IsFiniteSet(HoldersIn(S)) /\ Cardinality(HoldersIn(S)) \in Nat
         /\ Admissions(S) \in Nat /\ Taken(S) \in Nat /\ Admissions(S) <= Taken(S)
  <1>1. IsFiniteSet(AdmittedIn(S)) /\ Cardinality(AdmittedIn(S)) \in Nat
    BY FS_Subset, FS_CardinalityType DEF AdmittedIn, Numbered
  <1>2. IsFiniteSet(HoldersIn(S)) /\ Cardinality(HoldersIn(S)) \in Nat
    BY Constants, FS_Subset, FS_CardinalityType DEF HoldersIn
  <1>3. Admissions(S) = Cardinality(AdmittedIn(S))
    BY DEF Admissions, AdmittedIn
  <1>4. QED
    BY <1>1, <1>2, <1>3 DEF Taken

LEMMA CountsGrow ==
  ASSUME Numbered, NEW S, NEW T, S \subseteq T
  PROVE  Admissions(S) <= Admissions(T) /\ Taken(S) <= Taken(T)
  <1>1. AdmittedIn(S) \subseteq AdmittedIn(T) /\ HoldersIn(S) \subseteq HoldersIn(T)
    BY DEF AdmittedIn, HoldersIn
  <1>2. /\ Cardinality(AdmittedIn(S)) <= Cardinality(AdmittedIn(T))
        /\ Cardinality(HoldersIn(S)) <= Cardinality(HoldersIn(T))
    BY <1>1, Counts, FS_Subset
  <1>3. QED
    BY <1>2, Counts DEF Taken

LEMMA TakenGrows == Numbered => \A S, T : S \subseteq T => Taken(S) <= Taken(T)
  BY CountsGrow

\* An admission is counted once, under its stamp.
LEMMA Admitting ==
  ASSUME Numbered, NEW x \in Time, NEW S,
         admitted' = admitted \cup {<<x, Admissions({x})>>}
  PROVE  /\ Numbered'
         /\ Cardinality(AdmittedIn(S)') = Cardinality(AdmittedIn(S)) + (IF x \in S THEN 1 ELSE 0)
  <1> DEFINE a == <<x, Admissions({x})>>
  <1>1. a \in Time \X Nat /\ a[1] = x /\ a[2] = Admissions({x})
    BY Counts
  <1>2. a \notin admitted
    BY <1>1, Counts DEF Numbered
  <1>3. admitted' = admitted \cup {a}
    OBVIOUS
  <1> HIDE DEF a
  <1>4. ASSUME NEW T
        PROVE  Cardinality(AdmittedIn(T)') =
                  Cardinality(AdmittedIn(T)) + (IF x \in T THEN 1 ELSE 0)
    <2>1. CASE x \in T
      <3>1. AdmittedIn(T)' = AdmittedIn(T) \cup {a}
        BY <1>1, <1>3, <2>1 DEF AdmittedIn
      <3>2. a \notin AdmittedIn(T)
        BY <1>2 DEF AdmittedIn
      <3>3. Cardinality(AdmittedIn(T) \cup {a}) = Cardinality(AdmittedIn(T)) + 1
        BY <3>2, Counts, FS_AddElement
      <3>4. QED
        BY <2>1, <3>1, <3>3
    <2>2. CASE x \notin T
      <3>1. AdmittedIn(T)' = AdmittedIn(T)
        BY <1>1, <1>3, <2>2 DEF AdmittedIn
      <3>2. QED
        BY <2>2, <3>1, Counts
    <2>3. QED
      BY <2>1, <2>2
  <1>5. Numbered'
    <2>1. admitted' \in SUBSET (Time \X Nat) /\ IsFiniteSet(admitted')
      <3>1. admitted' \in SUBSET (Time \X Nat)
        BY <1>1, <1>3 DEF Numbered
      <3>2. IsFiniteSet(admitted \cup {a})
        BY FS_AddElement, Zenon DEF Numbered
      <3>3. QED
        BY <1>3, <3>1, <3>2
    <2>2. ASSUME NEW b \in admitted'
          PROVE  b[2] < Admissions({b[1]})'
      <3>1. /\ Cardinality(AdmittedIn({b[1]})') =
                  Cardinality(AdmittedIn({b[1]})) + (IF x \in {b[1]} THEN 1 ELSE 0)
            /\ Admissions({b[1]})' = Cardinality(AdmittedIn({b[1]})')
            /\ Admissions({b[1]}) = Cardinality(AdmittedIn({b[1]}))
            /\ Admissions({b[1]}) \in Nat
        BY <1>4, Counts DEF Admissions, AdmittedIn
      <3>2. CASE b \in admitted
        <4>1. b[2] \in Nat /\ b[2] < Admissions({b[1]})
          BY <3>2 DEF Numbered
        <4>2. Admissions({b[1]}) <= Admissions({b[1]})'
          BY <3>1
        <4>3. Admissions({b[1]})' \in Nat
          BY <3>1
        <4>4. QED
          BY <3>1, <4>1, <4>2, <4>3
      <3>3. CASE b = a
        BY <1>1, <3>1, <3>3
      <3>4. QED
        BY <1>3, <3>2, <3>3
    <2>3. QED
      BY <2>1, <2>2 DEF Numbered
  <1>6. QED
    BY <1>4, <1>5

\* What is in flight: well typed, and no stamp is older than MaxDelay.
InFlight ==
    /\ now \in Time
    /\ request \in [Requests -> [at : {"idle", "bucket", "window"}, stamp : Time,
                                 token : BOOLEAN]]
    /\ \A r \in Requests :
          request[r].at # "idle" => request[r].stamp <= now /\ now <= request[r].stamp + MaxDelay

\* Only the bucket's script makes anyone hold a token.
LEMMA HoldersMove ==
  ASSUME InFlight, NEW r \in Requests, NEW S
  PROVE  /\ Stamp(r) \/ Answer(r) => HoldersIn(S)' \subseteq HoldersIn(S)
         /\ Answer(r) => HoldersIn(S)' = HoldersIn(S) \ {r}
         /\ RunTokenBucket(r) =>
               HoldersIn(S)' = HoldersIn(S) \cup
                  (IF HasToken(request[r].stamp) /\ request[r].stamp \in S THEN {r} ELSE {})
  <1> USE DEF InFlight
  <1>1. ASSUME Stamp(r)
        PROVE  HoldersIn(S)' \subseteq HoldersIn(S)
    BY <1>1 DEF Stamp, HoldersIn
  <1>2. ASSUME Answer(r)
        PROVE  HoldersIn(S)' = HoldersIn(S) \ {r}
    BY <1>2 DEF Answer, Idle, HoldersIn
  <1>3. ASSUME RunTokenBucket(r)
        PROVE  HoldersIn(S)' = HoldersIn(S) \cup
                  (IF HasToken(request[r].stamp) /\ request[r].stamp \in S THEN {r} ELSE {})
    <2> DEFINE x == request[r].stamp
    <2>1. /\ \A q \in Requests \ {r} : request'[q] = request[q]
          /\ request[r].at = "bucket"
          /\ request'[r].at = "window" /\ request'[r].stamp = x
          /\ request'[r].token = HasToken(x)
      BY <1>3 DEF RunTokenBucket
    <2> HIDE DEF x
    <2>2. request'[r].token <=> HasToken(x)
      BY <2>1
    <2>3. CASE HasToken(x) /\ x \in S
      BY <2>1, <2>2, <2>3 DEF HoldersIn, x
    <2>4. CASE ~(HasToken(x) /\ x \in S)
      BY <2>1, <2>2, <2>4 DEF HoldersIn, x
    <2>5. QED
      BY <2>3, <2>4
  <1>4. QED
    BY <1>1, <1>2, <1>3

\* What a step adds to the tokens taken: none, or at most the one of r, under its stamp.
TakesNone == \A S : Taken(S)' \in 0..Taken(S)
TakesFor(r) ==
    \A S : Taken(S)' \in 0..(Taken(S) +
              (IF HasToken(request[r].stamp) /\ request[r].stamp \in S THEN 1 ELSE 0))

\* Every step but the bucket's takes no token; that one takes at most one, under the
\* stamp of its request.
LEMMA TakenMoves ==
  ASSUME Numbered, InFlight, Next \/ UNCHANGED vars
  PROVE  /\ Numbered'
         /\ \/ /\ TakesNone
               /\ \/ UNCHANGED <<now, bucket, setBack>>
                  \/ now' = now + 1 /\ now < MaxTime /\ ExpireKeys /\ setBack' = setBack
            \/ \E r \in Requests :
                  /\ request[r].at = "bucket"
                  /\ TokenBucket(request[r].stamp) /\ now' = now /\ TakesFor(r)
  <1>h. ASSUME admitted' = admitted
        PROVE  Numbered' /\ \A S : AdmittedIn(S)' = AdmittedIn(S)
    BY <1>h DEF Numbered, Admissions, AdmittedIn
  <1>s. ASSUME admitted' = admitted, NEW S, HoldersIn(S)' \subseteq HoldersIn(S)
        PROVE  Taken(S)' \in 0..Taken(S)
    <2>1. /\ Cardinality(HoldersIn(S)') <= Cardinality(HoldersIn(S))
          /\ Cardinality(HoldersIn(S)') \in Nat
      BY <1>s, Counts, FS_Subset, FS_CardinalityType
    <2>2. AdmittedIn(S)' = AdmittedIn(S) /\ Cardinality(AdmittedIn(S)) \in Nat
      BY <1>s, <1>h, Counts
    <2>3. Cardinality(HoldersIn(S)) \in Nat
      BY Counts
    <2>4. QED
      BY <2>1, <2>2, <2>3 DEF Taken
  <1>1. CASE UNCHANGED vars
    <2>1. admitted' = admitted /\ request' = request /\ UNCHANGED <<now, bucket, setBack>>
      BY <1>1 DEF vars
    <2>2. \A S : HoldersIn(S)' \subseteq HoldersIn(S)
      BY <2>1 DEF HoldersIn
    <2>3. QED
      BY <1>h, <1>s, <2>1, <2>2 DEF TakesNone
  <1>2. CASE Tick
    <2>1. /\ admitted' = admitted /\ request' = request
          /\ now' = now + 1 /\ now < MaxTime /\ ExpireKeys /\ setBack' = setBack
      BY <1>2 DEF Tick
    <2>2. \A S : HoldersIn(S)' \subseteq HoldersIn(S)
      BY <2>1 DEF HoldersIn
    <2>3. QED
      BY <1>h, <1>s, <2>1, <2>2 DEF TakesNone
  <1>3. ASSUME NEW r \in Requests, Stamp(r)
        PROVE  /\ Numbered' /\ UNCHANGED <<now, bucket, setBack>>
               /\ \A S : Taken(S)' \in 0..Taken(S)
    <2>1. admitted' = admitted /\ UNCHANGED <<now, bucket, setBack>>
      BY <1>3 DEF Stamp
    <2>2. \A S : HoldersIn(S)' \subseteq HoldersIn(S)
      BY <1>3, HoldersMove
    <2>3. QED
      BY <1>h, <1>s, <2>1, <2>2
  <1>4. ASSUME NEW r \in Requests, RunTokenBucket(r)
        PROVE  /\ Numbered' /\ now' = now /\ TokenBucket(request[r].stamp)
               /\ request[r].at = "bucket"
               /\ \A S : Taken(S)' \in 0..(Taken(S) +
                     (IF HasToken(request[r].stamp) /\ request[r].stamp \in S THEN 1 ELSE 0))
    <2> DEFINE x == request[r].stamp
    <2>1. admitted' = admitted /\ now' = now /\ TokenBucket(x) /\ request[r].at = "bucket"
      BY <1>4 DEF RunTokenBucket
    <2>2. ASSUME NEW S
          PROVE  Taken(S)' \in 0..(Taken(S) + (IF HasToken(x) /\ x \in S THEN 1 ELSE 0))
      <3>1. HoldersIn(S)' = HoldersIn(S) \cup (IF HasToken(x) /\ x \in S THEN {r} ELSE {})
        BY <1>4, HoldersMove
      <3> HIDE DEF x
      <3>2. CASE HasToken(x) /\ x \in S
        <4>1. r \notin HoldersIn(S) /\ HoldersIn(S)' = HoldersIn(S) \cup {r}
          BY <2>1, <3>1, <3>2 DEF HoldersIn
        <4>2. Cardinality(HoldersIn(S)') = Cardinality(HoldersIn(S)) + 1
          BY <4>1, Counts, FS_AddElement
        <4>3. AdmittedIn(S)' = AdmittedIn(S)
          BY <1>h, <2>1
        <4>4. Cardinality(AdmittedIn(S)) \in Nat /\ Cardinality(HoldersIn(S)) \in Nat
          BY Counts
        <4>5. QED
          BY <3>2, <4>2, <4>3, <4>4 DEF Taken
      <3>3. CASE ~(HasToken(x) /\ x \in S)
        <4>1. Taken(S)' \in 0..Taken(S)
          BY <1>s, <2>1, <3>1, <3>3
        <4>2. QED
          BY <3>3, <4>1, Counts
      <3>4. QED
        BY <3>2, <3>3
    <2>3. QED
      BY <1>h, <2>1, <2>2
  <1>5. ASSUME NEW r \in Requests, RunSlidingWindow(r)
        PROVE  /\ Numbered' /\ UNCHANGED <<now, bucket, setBack>>
               /\ \A S : Taken(S)' \in 0..Taken(S)
    <2> DEFINE x == request[r].stamp
    <2>1. /\ Answer(r) /\ UNCHANGED <<now, bucket, setBack>> /\ request[r].at = "window"
          /\ \/ admitted' = admitted
             \/ request[r].token /\ admitted' = admitted \cup {<<x, Admissions({x})>>}
      BY <1>5 DEF RunSlidingWindow
    <2>2. \A S : HoldersIn(S)' = HoldersIn(S) \ {r} /\ HoldersIn(S)' \subseteq HoldersIn(S)
      BY <2>1, HoldersMove
    <2>x. x \in Time
      BY DEF InFlight
    <2> HIDE DEF x
    <2>3. CASE admitted' = admitted
      BY <1>h, <1>s, <2>1, <2>2, <2>3
    <2>4. CASE request[r].token /\ admitted' = admitted \cup {<<x, Admissions({x})>>}
      <3>1. Numbered'
        BY <2>4, <2>x, Admitting
      <3>2. ASSUME NEW S
            PROVE  Taken(S)' \in 0..Taken(S)
        <4>1. Cardinality(AdmittedIn(S)') =
                 Cardinality(AdmittedIn(S)) + (IF x \in S THEN 1 ELSE 0)
          BY <2>4, <2>x, Admitting
        <4>2. Cardinality(HoldersIn(S)') =
                 Cardinality(HoldersIn(S)) - (IF x \in S THEN 1 ELSE 0)
          <5>1. r \in HoldersIn(S) <=> x \in S
            BY <2>1, <2>4 DEF HoldersIn, x
          <5>2. HoldersIn(S)' = HoldersIn(S) \ {r}
            BY <2>2
          <5>3. CASE x \in S
            BY <5>1, <5>2, <5>3, Counts, FS_RemoveElement
          <5>4. CASE x \notin S
            <6>1. HoldersIn(S)' = HoldersIn(S)
              BY <5>1, <5>2, <5>4
            <6>2. QED
              BY <5>4, <6>1, Counts
          <5>5. QED
            BY <5>3, <5>4
        <4>3. Cardinality(AdmittedIn(S)) \in Nat /\ Cardinality(HoldersIn(S)) \in Nat
          BY Counts
        <4>4. QED
          BY <4>1, <4>2, <4>3 DEF Taken
      <3>3. QED
        BY <2>1, <3>1, <3>2
    <2>5. QED
      BY <2>1, <2>3, <2>4
  <1>6. ASSUME NEW r \in Requests, FailOpen(r)
        PROVE  /\ Numbered' /\ now' = now
               /\ \A S : Taken(S)' \in 0..Taken(S)
               /\ \/ UNCHANGED <<bucket, setBack>>
                  \/ request[r].at = "bucket" /\ TokenBucket(request[r].stamp)
    <2>1. /\ Answer(r) /\ now' = now /\ admitted' = admitted
          /\ \/ UNCHANGED <<bucket, setBack>>
             \/ request[r].at = "bucket" /\ TokenBucket(request[r].stamp)
      BY <1>6 DEF FailOpen
    <2>2. \A S : HoldersIn(S)' \subseteq HoldersIn(S)
      BY <2>1, HoldersMove
    <2>3. QED
      BY <1>h, <1>s, <2>1, <2>2
  <1>7. ASSUME NEW r \in Requests, FailOpen(r),
               request[r].at = "bucket", TokenBucket(request[r].stamp)
        PROVE  \A S : Taken(S)' \in 0..(Taken(S) +
                  (IF HasToken(request[r].stamp) /\ request[r].stamp \in S THEN 1 ELSE 0))
    BY <1>6, <1>7, Counts
  <1>8. QED
    BY <1>1, <1>2, <1>3, <1>4, <1>5, <1>6, <1>7
       DEF Next, RequestStep, TakesNone, TakesFor

-----------------------------------------------------------------------------
(***************************************************************************)
(* The rate limiter: the bucket.                                           *)
(***************************************************************************)

\* The bucket's types, and that it outlives its ts by a window.
BucketSound ==
    /\ bucket \in [tokens : 0..Burst, ts : Time, expires : 0..(MaxTime + Window)]
    /\ setBack \in Nat
    /\ bucket # NoBucket => bucket.ts + Window <= bucket.expires

\* The token the script gives away, if it does.
Given(x) == IF HasToken(x) THEN 1 ELSE 0

\* What the script leaves: a missing bucket is full; another one has gained what comes
\* back in gain ticks, by which its ts and setBack have moved on together.
LEMMA BucketMoves ==
  ASSUME BucketSound, InFlight, NEW x \in Time, x <= now, TokenBucket(x)
  PROVE  /\ BucketSound'
         /\ bucket' # NoBucket /\ bucket'.ts = x /\ bucket'.tokens \in Nat
         /\ bucket'.tokens + Given(x) <= Burst
         /\ setBack' >= setBack
         /\ bucket = NoBucket => setBack' = setBack
         /\ bucket # NoBucket =>
               \E gain \in Nat :
                  /\ x + setBack' = bucket.ts + setBack + gain
                  /\ bucket'.tokens + Given(x) <= bucket.tokens + Refill * gain
  <1> DEFINE found == Found(x)
             tokens == Refilled(found, x)
             gain == Greatest(0, x - found.ts)
  <1> USE Constants
  <1>1. now \in Nat /\ now <= MaxTime /\ x \in Nat /\ x <= MaxTime
    BY DEF InFlight, Time
  <1>2. /\ bucket.tokens \in Nat /\ bucket.tokens <= Burst
        /\ bucket.ts \in Nat /\ bucket.ts <= MaxTime
    BY DEF BucketSound, Time
  <1>3. /\ found.tokens \in Nat /\ found.tokens <= Burst /\ found.ts \in Nat
        /\ bucket = NoBucket => found.tokens = Burst /\ found.ts = x
        /\ bucket # NoBucket => found.tokens = bucket.tokens /\ found.ts = bucket.ts
    BY <1>1, <1>2 DEF Found
  <1> HIDE DEF found
  <1>4. gain \in Nat /\ x - found.ts <= gain /\ (x <= found.ts => gain = 0)
        /\ (x > found.ts => gain = x - found.ts)
    BY <1>1, <1>3 DEF Greatest
  <1>5. /\ tokens \in Nat /\ tokens <= Burst /\ tokens <= found.tokens + Refill * gain
    <2>1. gain * Refill = Refill * gain /\ Refill * gain \in Nat
      BY <1>4, RefillGrows
    <2>2. tokens = Least(Burst, found.tokens + gain * Refill)
      BY DEF Refilled
    <2> HIDE DEF tokens, gain
    <2>3. QED
      BY <1>3, <2>1, <2>2 DEF Least
  <1>6. HasToken(x) <=> tokens >= 1
    BY DEF HasToken, found
  <1>7. /\ bucket' = [tokens |-> IF tokens >= 1 THEN tokens - 1 ELSE tokens, ts |-> x,
                      expires |-> now + Window]
        /\ setBack' = setBack + Greatest(0, found.ts - x)
    BY DEF TokenBucket, found
  <1> HIDE DEF tokens, gain
  <1>8. bucket'.tokens \in Nat /\ bucket'.tokens + Given(x) = tokens
    BY <1>5, <1>6, <1>7 DEF Given
  <1>9. /\ setBack' \in Nat /\ setBack' >= setBack
        /\ x + setBack' = found.ts + setBack + gain
    <2>1. setBack \in Nat
      BY DEF BucketSound
    <2>2. QED
      BY <1>1, <1>3, <1>4, <1>7, <2>1 DEF Greatest
  <1>10. bucket'.ts = x /\ bucket'.expires = now + Window
    BY <1>7
  <1>11. bucket' # NoBucket
    <2>1. now + Window # 0
      BY <1>1
    <2>2. QED
      BY <1>10, <2>1 DEF NoBucket
  <1>12. BucketSound'
    <2>1. bucket'.tokens \in 0..Burst
      BY <1>5, <1>8 DEF Given
    <2>2. now + Window \in 0..(MaxTime + Window)
      BY <1>1
    <2>3. bucket' \in [tokens : 0..Burst, ts : Time, expires : 0..(MaxTime + Window)]
      BY <1>7, <2>1, <2>2
    <2>4. bucket'.ts + Window <= bucket'.expires
      BY <1>1, <1>10
    <2>5. QED
      BY <1>9, <2>3, <2>4 DEF BucketSound
  <1>13. ASSUME bucket = NoBucket
         PROVE  setBack' = setBack
    BY <1>1, <1>3, <1>7, <1>13 DEF Greatest, BucketSound
  <1>14. ASSUME bucket # NoBucket
         PROVE  \E g \in Nat :
                   /\ x + setBack' = bucket.ts + setBack + g
                   /\ bucket'.tokens + Given(x) <= bucket.tokens + Refill * g
    BY <1>3, <1>4, <1>5, <1>8, <1>9, <1>14
  <1>15. QED
    BY <1>5, <1>8, <1>9, <1>10, <1>11, <1>12, <1>13, <1>14

\* The budget behind BurstsAreSmoothed.  What was taken from a stamp on, and what is
\* left in the bucket, came with the full bucket or came back since: up to the
\* bucket's ts, or, once the bucket has expired, to the oldest stamp there may still be.
Paid ==
    \A s \in Time :
        Taken(s..MaxTime) > 0 =>
            IF bucket = NoBucket
            THEN Taken(s..MaxTime) <= Refill * (now - MaxDelay - s + setBack)
            ELSE Taken(s..MaxTime) + bucket.tokens <= Burst + Refill * (bucket.ts - s + setBack)

Smoothed ==
    \A s, t \in Time :
        s <= t => Taken(s..t) <= Burst + Refill * (t - s + setBack)

LEMMA PaidQuietly ==
  ASSUME Numbered, InFlight, BucketSound, Paid, Smoothed,
         TakesNone,
         \/ UNCHANGED <<now, bucket, setBack>>
         \/ now' = now + 1 /\ now < MaxTime /\ ExpireKeys /\ setBack' = setBack
  PROVE  BucketSound' /\ Paid' /\ Smoothed'
  <1> USE Constants
  <1>t. \A S : Taken(S) \in Nat /\ Taken(S)' \in Nat /\ Taken(S)' <= Taken(S)
    BY Counts DEF TakesNone
  <1>k. setBack' = setBack /\ setBack \in Nat
    BY DEF BucketSound
  <1>1. Smoothed'
    <2> SUFFICES ASSUME NEW s \in Time, NEW t \in Time, s <= t
                 PROVE  Taken(s..t)' <= Burst + Refill * (t - s + setBack')
      BY DEF Smoothed
    <2>1. Taken(s..t) <= Burst + Refill * (t - s + setBack)
      BY DEF Smoothed
    <2>2. Refill * (t - s + setBack) \in Int
      BY <1>k, RefillGrows DEF Time
    <2>3. QED
      BY <1>t, <1>k, <2>1, <2>2
  <1>2. CASE UNCHANGED <<now, bucket, setBack>>
    <2>1. BucketSound'
      BY <1>2 DEF BucketSound
    <2>2. Paid'
      <3> SUFFICES ASSUME NEW s \in Time, Taken(s..MaxTime)' > 0
                   PROVE  IF bucket = NoBucket
                          THEN Taken(s..MaxTime)' <= Refill * (now - MaxDelay - s + setBack)
                          ELSE Taken(s..MaxTime)' + bucket.tokens
                                  <= Burst + Refill * (bucket.ts - s + setBack)
        BY <1>2 DEF Paid
      <3>1. Taken(s..MaxTime) > 0
        BY <1>t
      <3>2. /\ Refill * (now - MaxDelay - s + setBack) \in Int
            /\ Refill * (bucket.ts - s + setBack) \in Int /\ bucket.tokens \in Nat
        <4>1. bucket.ts \in Int /\ bucket.tokens \in Nat
          BY DEF BucketSound, Time
        <4>2. QED
          BY <1>k, <4>1, RefillGrows DEF Time, InFlight
      <3>3. QED
        BY <1>t, <3>1, <3>2 DEF Paid
    <2>3. QED
      BY <1>1, <2>1, <2>2
  <1>3. CASE now' = now + 1 /\ now < MaxTime /\ ExpireKeys
    <2>0. now \in Nat
      BY DEF InFlight, Time
    <2>n. now' = now + 1 /\ setBack' = setBack
      BY <1>3, <1>k
    <2>1. CASE bucket' = bucket /\ bucket # NoBucket
      <3>1. BucketSound'
        BY <1>k, <2>1 DEF BucketSound
      <3>2. Paid'
        <4> SUFFICES ASSUME NEW s \in Time, Taken(s..MaxTime)' > 0
                     PROVE  Taken(s..MaxTime)' + bucket.tokens
                                    <= Burst + Refill * (bucket.ts - s + setBack)
          BY <1>k, <2>1 DEF Paid
        <4>1. Taken(s..MaxTime) > 0
          BY <1>t
        <4>2. Refill * (bucket.ts - s + setBack) \in Int /\ bucket.tokens \in Nat
          <5>1. bucket.ts \in Int /\ bucket.tokens \in Nat
            BY DEF BucketSound, Time
          <5>2. QED
            BY <1>k, <5>1, RefillGrows DEF Time
        <4>3. QED
          BY <1>t, <2>1, <4>1, <4>2 DEF Paid
      <3>3. QED
        BY <1>1, <3>1, <3>2
    <2>2. CASE bucket' = NoBucket /\ (bucket = NoBucket \/ bucket.expires <= now + 1)
      <3>1. BucketSound'
        <4>1. NoBucket \in [tokens : 0..Burst, ts : Time, expires : 0..(MaxTime + Window)]
          BY DEF NoBucket, Time
        <4>2. QED
          BY <1>k, <2>2, <4>1 DEF BucketSound
      <3>2. Paid'
        <4> SUFFICES ASSUME NEW s \in Time, Taken(s..MaxTime)' > 0
                     PROVE  Taken(s..MaxTime)' <= Refill * (now' - MaxDelay - s + setBack')
          BY <2>2, Zenon DEF Paid
        <4>1. Taken(s..MaxTime) > 0 /\ s \in Int
          BY <1>t DEF Time
        <4>2. CASE bucket = NoBucket
          <5>1. Taken(s..MaxTime) <= Refill * (now - MaxDelay - s + setBack)
            BY <4>1, <4>2 DEF Paid
          <5>2. /\ Refill * (now - MaxDelay - s + setBack)
                      <= Refill * (now + 1 - MaxDelay - s + setBack)
                /\ Refill * (now - MaxDelay - s + setBack) \in Int
                /\ Refill * (now + 1 - MaxDelay - s + setBack) \in Int
            BY <1>k, <2>0, <4>1, RefillGrows
          <5>3. now' - MaxDelay - s + setBack' = now + 1 - MaxDelay - s + setBack
            BY <1>k, <2>0, <2>n, <4>1
          <5>4. Taken(s..MaxTime)' <= Refill * (now + 1 - MaxDelay - s + setBack)
            BY <1>t, <5>1, <5>2
          <5>5. QED
            BY <5>3, <5>4, Zenon
        <4>3. CASE bucket # NoBucket
          <5>1. Taken(s..MaxTime) + bucket.tokens <= Burst + Refill * (bucket.ts - s + setBack)
            BY <4>1, <4>3 DEF Paid
          <5>2. /\ bucket.ts + Window <= now + 1 /\ bucket.ts \in Nat /\ bucket.tokens \in Nat
            <6>1. bucket.expires \in Int /\ bucket.ts \in Nat /\ bucket.tokens \in Nat
              BY DEF BucketSound, Time
            <6>2. QED
              BY <2>0, <2>2, <4>3, <6>1 DEF BucketSound
          <5> DEFINE a == Window - MaxDelay
                     b == bucket.ts - s + setBack
                     c == now + 1 - MaxDelay - s + setBack
          <5>3. a \in Int /\ b \in Int /\ c \in Int /\ a + b <= c
            BY <1>k, <2>0, <4>1, <5>2
          <5>4. Burst <= Refill * a
            OBVIOUS
          <5>5. Taken(s..MaxTime) + bucket.tokens <= Burst + Refill * b
            BY <5>1
          <5> HIDE DEF a, b, c
          <5>6. /\ Refill * (a + b) = Refill * a + Refill * b
                /\ Refill * (a + b) <= Refill * c
                /\ Refill * a \in Int /\ Refill * b \in Int /\ Refill * c \in Int
            BY <5>3, RefillGrows
          <5>7. Taken(s..MaxTime)' <= Refill * c
            BY <1>t, <5>2, <5>4, <5>5, <5>6
          <5>8. c = now' - MaxDelay - s + setBack'
            BY <1>k, <2>0, <2>n, <4>1 DEF c
          <5>9. QED
            BY <5>7, <5>8, Zenon
        <4>4. QED
          BY <4>2, <4>3
      <3>3. QED
        BY <1>1, <3>1, <3>2
    <2>3. QED
      BY <1>3, <2>1, <2>2 DEF ExpireKeys
  <1>4. QED
    BY <1>2, <1>3

\* The script pays for the token it gives.
LEMMA PaidByBucket ==
  ASSUME Numbered, InFlight, BucketSound, Paid, Smoothed,
         NEW r \in Requests, request[r].at = "bucket", TokenBucket(request[r].stamp), now' = now,
         TakesFor(r), Numbered'
  PROVE  BucketSound' /\ Paid' /\ Smoothed'
  <1> DEFINE x == request[r].stamp
  <1>1. x \in Time /\ x <= now /\ now <= x + MaxDelay
    BY DEF InFlight
  <1>2. /\ TokenBucket(x)
        /\ \A S : Taken(S)' \in 0..(Taken(S) + (IF HasToken(x) /\ x \in S THEN 1 ELSE 0))
    BY DEF TakesFor
  <1> HIDE DEF x
  <1>3. /\ BucketSound'
        /\ bucket' # NoBucket /\ bucket'.ts = x /\ bucket'.tokens \in Nat
        /\ bucket'.tokens + Given(x) <= Burst
        /\ setBack' >= setBack
        /\ bucket = NoBucket => setBack' = setBack
        /\ bucket # NoBucket =>
              \E gain \in Nat :
                 /\ x + setBack' = bucket.ts + setBack + gain
                 /\ bucket'.tokens + Given(x) <= bucket.tokens + Refill * gain
    BY <1>1, <1>2, BucketMoves
  <1>4. /\ setBack \in Nat /\ setBack' \in Nat /\ Given(x) \in {0, 1} /\ x \in Nat /\ now \in Nat
        /\ bucket.tokens \in Nat /\ bucket.ts \in Nat
        /\ Burst \in Nat /\ MaxDelay \in Nat /\ MaxTime \in Nat
    BY <1>1, <1>3, Constants DEF BucketSound, Given, Time, InFlight
  <1>5. ASSUME NEW S
        PROVE  /\ Taken(S) \in Nat /\ Taken(S)' \in Nat /\ Taken(S)' <= Taken(S) + Given(x)
               /\ (Given(x) = 0 \/ x \notin S) => Taken(S)' <= Taken(S)
    <2>1. Taken(S) \in Nat /\ Taken(S)' \in 0..(Taken(S) +
             (IF HasToken(x) /\ x \in S THEN 1 ELSE 0))
      BY <1>2, Counts
    <2>2. QED
      BY <2>1 DEF Given
  <1>6. ASSUME NEW s \in Time, Taken(s..MaxTime)' > 0
        PROVE  Taken(s..MaxTime)' + bucket'.tokens <= Burst + Refill * (x - s + setBack')
    <2> DEFINE n == Taken(s..MaxTime)
               b == x - s + setBack'
    <2>1. s \in Nat /\ b \in Int /\ Refill * b \in Int
      <3>1. s \in Nat
        BY <1>4 DEF Time
      <3>2. b \in Int
        BY <1>4, <3>1
      <3> HIDE DEF b
      <3>3. QED
        BY <3>1, <3>2, RefillGrows
    <2>n. n \in Nat /\ n' \in Nat /\ n' <= n + Given(x) /\ n' > 0
      BY <1>5, <1>6
    <2>m. (Given(x) = 0 \/ x \notin s..MaxTime) => n' <= n
      BY <1>5
    <2>2. CASE ~(n > 0)
      <3>1. x \in s..MaxTime /\ Given(x) = 1 /\ n' <= 1
        <4>1. ~(Given(x) = 0 \/ x \notin s..MaxTime)
          BY <2>n, <2>m, <2>2
        <4>2. n' <= n + Given(x) /\ n = 0 /\ Given(x) = 1 /\ n' \in Nat
          <5>1. Given(x) = 1
            BY <1>4, <4>1
          <5>2. QED
            BY <2>n, <2>2, <5>1
        <4>3. QED
          BY <4>1, <4>2
      <3>2. b >= 0 /\ b \in Nat
        <4>1. s <= x
          BY <1>4, <2>1, <3>1
        <4>2. QED
          BY <1>4, <2>1, <4>1, Spans, Zenon
      <3>3. Refill * b >= 0
        BY <3>2, RefillGrows
      <3> HIDE DEF b, n
      <3>4. n' + bucket'.tokens <= Burst + Refill * b
        BY <1>3, <1>4, <2>1, <2>n, <3>1, <3>3
      <3>5. QED
        BY <3>4 DEF b, n
    <2>3. CASE n > 0 /\ bucket = NoBucket
      <3> DEFINE c == now - MaxDelay - s + setBack
      <3>1. n <= Refill * c
        BY <2>3 DEF Paid
      <3>2. c \in Int /\ c <= b
        BY <1>1, <1>3, <1>4, <2>1, <2>3
      <3> HIDE DEF b, c, n
      <3>3. Refill * c <= Refill * b /\ Refill * c \in Int
        BY <2>1, <3>2, RefillGrows
      <3>4. n' + bucket'.tokens <= Burst + Refill * b
        BY <1>3, <1>4, <2>1, <2>n, <3>1, <3>3
      <3>5. QED
        BY <3>4 DEF b, n
    <2>4. CASE n > 0 /\ bucket # NoBucket
      <3>1. PICK gain \in Nat :
               /\ x + setBack' = bucket.ts + setBack + gain
               /\ bucket'.tokens + Given(x) <= bucket.tokens + Refill * gain
        BY <1>3, <2>4
      <3> DEFINE c == bucket.ts - s + setBack
      <3>2. n + bucket.tokens <= Burst + Refill * c
        BY <2>4 DEF Paid
      <3>3. c \in Int /\ b = c + gain
        BY <1>4, <2>1, <3>1
      <3> HIDE DEF b, c, n
      <3>4. Refill * b = Refill * c + Refill * gain /\ Refill * c \in Int /\ Refill * gain \in Int
        <4>1. gain \in Int /\ Refill * b = Refill * (c + gain)
          BY <3>3
        <4>2. QED
          BY <3>3, <4>1, RefillGrows
      <3>5. n' + bucket'.tokens <= Burst + Refill * b
        BY <1>3, <1>4, <2>n, <3>1, <3>2, <3>4
      <3>6. QED
        BY <3>5 DEF b, n
    <2>5. QED
      BY <2>2, <2>3, <2>4
  <1>7. Paid'
    BY <1>3, <1>6 DEF Paid
  <1>8. ASSUME NEW s \in Time, NEW t \in Time, s <= t
        PROVE  Taken(s..t)' <= Burst + Refill * (t - s + setBack')
    <2>1. s \in Nat /\ t \in Nat /\ t <= MaxTime /\ t - s + setBack' \in Int
      <3>1. s \in Nat /\ t \in Nat /\ t <= MaxTime
        BY <1>4 DEF Time
      <3>2. QED
        BY <1>4, <3>1
    <2>2. CASE Given(x) = 0 \/ x \notin s..t
      <3>1. Taken(s..t)' <= Taken(s..t) /\ Taken(s..t) \in Nat /\ Taken(s..t)' \in Nat
        BY <1>5, <2>2
      <3>2. Taken(s..t) <= Burst + Refill * (t - s + setBack)
        BY <1>8 DEF Smoothed
      <3>3. /\ t - s + setBack \in Int /\ t - s + setBack <= t - s + setBack'
        <4>1. setBack <= setBack'
          BY <1>3
        <4>2. QED
          BY <1>4, <2>1, <4>1, Spans, Zenon
      <3>4. /\ Refill * (t - s + setBack) <= Refill * (t - s + setBack')
            /\ Refill * (t - s + setBack) \in Int /\ Refill * (t - s + setBack') \in Int
        BY <2>1, <3>3, RefillGrows
      <3>5. QED
        BY <1>4, <3>1, <3>2, <3>4
    <2>3. CASE Taken(s..t)' > 0 /\ x \in s..t
      <3>1. s..t \subseteq s..MaxTime
        BY <1>4, <2>1
      <3>2. Taken(s..t)' <= Taken(s..MaxTime)'
        <4>1. (Numbered => \A S, T : S \subseteq T => Taken(S) <= Taken(T))'
          BY TakenGrows, PTL
        <4>2. QED
          BY <3>1, <4>1
      <3>3. Taken(s..t)' \in Nat /\ Taken(s..MaxTime)' \in Nat
        BY <1>5
      <3>4. Taken(s..MaxTime)' + bucket'.tokens <= Burst + Refill * (x - s + setBack')
        BY <1>6, <2>3, <3>2, <3>3
      <3>5. x - s + setBack' \in Int /\ x - s + setBack' <= t - s + setBack'
        <4>1. x <= t
          BY <1>4, <2>1, <2>3
        <4>2. QED
          BY <1>4, <2>1, <4>1, Spans, Zenon
      <3>6. /\ Refill * (x - s + setBack') <= Refill * (t - s + setBack')
            /\ Refill * (x - s + setBack') \in Int /\ Refill * (t - s + setBack') \in Int
        BY <2>1, <3>5, RefillGrows
      <3>7. QED
        BY <1>3, <1>4, <3>2, <3>3, <3>4, <3>6
    <2>4. CASE ~(Taken(s..t)' > 0)
      <3>1. t - s + setBack' \in Nat
        BY <1>4, <1>8, <2>1, Spans, Zenon
      <3>2. Refill * (t - s + setBack') >= 0 /\ Refill * (t - s + setBack') \in Int
        BY <3>1, RefillGrows
      <3>3. Taken(s..t)' \in Nat
        BY <1>5
      <3>4. QED
        BY <1>4, <2>4, <3>2, <3>3
    <2>5. QED
      BY <2>2, <2>3, <2>4
  <1>9. Smoothed'
    BY <1>8 DEF Smoothed
  <1>10. QED
    BY <1>3, <1>7, <1>9

\* A request keeps its stamp until it is answered, and the clock waits for it.
LEMMA InFlightStep ==
  ASSUME InFlight, Next \/ UNCHANGED vars
  PROVE  InFlight'
  <1> USE DEF InFlight
  <1>0. now \in Nat /\ MaxDelay \in Nat
    BY Constants DEF Time
  <1>1. CASE UNCHANGED vars
    BY <1>1 DEF vars
  <1>2. CASE Tick
    <2>1. now' = now + 1 /\ now < MaxTime /\ request' = request
      BY <1>2 DEF Tick
    <2>2. now' \in Time
      BY <1>0, <2>1, Constants DEF Time
    <2>3. ASSUME NEW r \in Requests, request[r].at # "idle"
          PROVE  request[r].stamp <= now' /\ now' <= request[r].stamp + MaxDelay
      <3>1. request[r].stamp \in Nat /\ request[r].stamp <= now
        BY <2>3 DEF Time
      <3>2. now - request[r].stamp < MaxDelay
        BY <1>2, <2>3 DEF Tick, Idle
      <3>3. QED
        BY <1>0, <2>1, <3>1, <3>2
    <2>4. QED
      BY <2>1, <2>2, <2>3
  <1>3. ASSUME NEW r \in Requests, RequestStep(r)
        PROVE  InFlight'
    <2>1. now' = now
      BY <1>3 DEF RequestStep, Stamp, RunTokenBucket, RunSlidingWindow, FailOpen
    <2>2. CASE Stamp(r)
      BY <1>0, <2>1, <2>2 DEF Stamp
    <2>3. CASE RunTokenBucket(r)
      <3>1. HasToken(request[r].stamp) \in BOOLEAN
        BY DEF HasToken
      <3>2. PICK token \in BOOLEAN :
               request' = [request EXCEPT ![r] =
                             [at |-> "window", stamp |-> request[r].stamp, token |-> token]]
        BY <2>3, <3>1, Zenon DEF RunTokenBucket
      <3>3. request[r].at = "bucket"
        BY <2>3 DEF RunTokenBucket
      <3>4. QED
        BY <2>1, <3>2, <3>3
    <2>4. CASE Answer(r)
      <3>1. 0 \in Time
        BY Constants DEF Time
      <3>2. QED
        BY <2>1, <2>4, <3>1 DEF Answer, Idle
    <2>5. QED
      BY <1>3, <2>2, <2>3, <2>4 DEF RequestStep, RunSlidingWindow, FailOpen
  <1>4. QED
    BY <1>1, <1>2, <1>3 DEF Next

-----------------------------------------------------------------------------
(***************************************************************************)
(* The rate limiter: the windows.                                          *)
(***************************************************************************)

\* The counters' types, and that one that counts outlives the window after its own.
CountersSound ==
    /\ counter \in [Windows -> [n : 0..WindowLimit, expires : 0..(MaxTime + 2 * Window)]]
    /\ \A w \in Windows : counter[w].n > 0 => w * Window + 2 * Window <= counter[w].expires

\* A counter knows the admissions of its window for as long as they weigh.
Weighed ==
    \A w \in Windows :
        now < w * Window + 2 * Window => Admissions(InWindow(w)) <= counter[w].n

LEMMA Times ==
  /\ \A a \in Int : a * Window \in Int
  /\ \A a, b \in Int : a <= b => a * Window <= b * Window
  /\ \A a \in Int : (a + 1) * Window = a * Window + Window
  /\ \A a, b \in Nat : a * b \in Nat
  /\ \A a, b, c \in Nat : a <= b => a * c <= b * c
  BY Constants

LEMMA WindowsAreNat == Windows \subseteq Nat
  <1>1. MaxTime \div Window \in Int
    BY Constants
  <1>2. QED
    BY <1>1 DEF Windows

LEMMA CountIsNat ==
  ASSUME CountersSound, NEW w
  PROVE  Count(w) \in Nat
  BY Constants DEF CountersSound, Count

\* The estimate weighs the window itself in full and the one before in part.
LEMMA AllowsBelowLimit ==
  ASSUME CountersSound, NEW x \in Time, WindowAllows(x)
  PROVE  Count(WindowOf(x)) < WindowLimit
  <1> DEFINE a == Count(WindowOf(x))
             b == Count(WindowOf(x) - 1)
             d == Window - (x % Window)
  <1>1. a \in Nat /\ b \in Nat
    BY CountIsNat
  <1>2. d \in Nat
    BY WindowsTile, Constants DEF Time
  <1>3. a * Window + b * d < WindowLimit * Window
    BY DEF WindowAllows, Estimate
  <1> HIDE DEF a, b, d
  <1>4. b * d \in Nat /\ a * Window \in Int /\ WindowLimit * Window \in Int
    BY <1>1, <1>2, Times, Constants
  <1>5. a * Window < WindowLimit * Window
    BY <1>3, <1>4
  <1>6. ASSUME WindowLimit <= a PROVE FALSE
    BY <1>1, <1>4, <1>5, <1>6, Times, Constants
  <1>7. a < WindowLimit
    BY <1>1, <1>6, Constants
  <1>8. QED
    BY <1>7 DEF a

LEMMA CountersMove ==
  ASSUME CountersSound, InFlight, NEW x \in Time, x <= now, SlidingWindow(x)
  PROVE  /\ CountersSound'
         /\ \A v \in Windows :
               counter'[v].n = counter[v].n
                  + (IF v = WindowOf(x) /\ WindowAllows(x) THEN 1 ELSE 0)
  <1> DEFINE w == WindowOf(x)
  <1>1. w \in Windows /\ w \in Nat /\ w * Window <= x
    BY StampWindow, WindowsTile DEF Time
  <1>2. now \in Nat /\ now <= MaxTime /\ x \in Nat /\ Window \in Nat /\ MaxTime \in Nat
    BY Constants DEF InFlight, Time
  <1>n. \A v \in Windows : counter[v].n \in Nat
    BY Constants DEF CountersSound
  <1> HIDE DEF w
  <1>3. CASE ~WindowAllows(x)
    <2>1. counter' = counter
      BY <1>3 DEF SlidingWindow
    <2>2. QED
      BY <1>3, <1>n, <2>1 DEF CountersSound
  <1>4. CASE WindowAllows(x)
    <2> DEFINE e == IF Count(w) = 0 THEN now + 2 * Window ELSE counter[w].expires
               key == [n |-> Count(w) + 1, expires |-> e]
    <2>1. counter' = [counter EXCEPT ![w] = key]
      BY <1>4 DEF SlidingWindow, w
    <2>2. Count(w) = counter[w].n /\ Count(w) \in Nat
      BY <1>1, CountIsNat DEF Count
    <2>3. Count(w) + 1 \in 0..WindowLimit
      BY <1>4, <2>2, AllowsBelowLimit, Constants DEF w
    <2>4. e \in 0..(MaxTime + 2 * Window) /\ w * Window + 2 * Window <= e
      <3>1. CASE Count(w) = 0
        <4>1. w * Window \in Int /\ w * Window <= now
          BY <1>1, <1>2, Times
        <4>2. QED
          BY <1>2, <3>1, <4>1
      <3>2. CASE Count(w) # 0
        <4>1. counter[w].n > 0
          BY <2>2, <3>2
        <4>2. QED
          BY <1>1, <3>2, <4>1 DEF CountersSound
      <3>3. QED
        BY <3>1, <3>2
    <2> HIDE DEF e
    <2>5. key \in [n : 0..WindowLimit, expires : 0..(MaxTime + 2 * Window)]
      BY <2>3, <2>4
    <2>6. key.n = counter[w].n + 1 /\ key.expires = e
      BY <2>2
    <2> HIDE DEF key
    <2>7. \A v \in Windows : counter'[v] = IF v = w THEN key ELSE counter[v]
      BY <2>1 DEF CountersSound
    <2>8. counter' \in [Windows -> [n : 0..WindowLimit, expires : 0..(MaxTime + 2 * Window)]]
      BY <2>1, <2>5 DEF CountersSound
    <2>9. \A v \in Windows : counter'[v].n > 0 => v * Window + 2 * Window <= counter'[v].expires
      BY <2>4, <2>6, <2>7 DEF CountersSound
    <2>10. CountersSound'
      BY <2>8, <2>9 DEF CountersSound
    <2>11. ASSUME NEW v \in Windows
           PROVE  counter'[v].n = counter[v].n
                     + (IF v = WindowOf(x) /\ WindowAllows(x) THEN 1 ELSE 0)
      BY <1>4, <1>n, <2>6, <2>7 DEF w
    <2>12. QED
      BY <2>10, <2>11
  <1>5. QED
    BY <1>3, <1>4

LEMMA AdmissionsMove ==
  ASSUME Next \/ UNCHANGED vars
  PROVE  \/ UNCHANGED <<now, counter, admitted>>
         \/ now' = now + 1 /\ ExpireKeys /\ admitted' = admitted
         \/ \E r \in Requests :
               LET x == request[r].stamp
               IN  /\ request[r].at = "window" /\ SlidingWindow(x) /\ now' = now
                   /\ \/ admitted' = admitted
                      \/ WindowAllows(x) /\ admitted' = admitted \cup {<<x, Admissions({x})>>}
  BY DEF vars, Next, Tick, RequestStep, Stamp, RunTokenBucket, RunSlidingWindow, FailOpen

LEMMA WindowsStep ==
  ASSUME Numbered, InFlight, CountersSound, Weighed, Next \/ UNCHANGED vars
  PROVE  CountersSound' /\ Weighed'
  <1>0. /\ now \in Nat /\ Windows \subseteq Nat
        /\ \A v \in Windows : counter[v].n \in Nat /\ v * Window \in Int
        /\ \A S : Admissions(S) \in Nat
    <2>1. \A v \in Windows : counter[v].n \in Nat
      BY Constants DEF CountersSound
    <2>2. \A v \in Windows : v * Window \in Int
      BY WindowsAreNat, Times
    <2>3. QED
      BY <2>1, <2>2, WindowsAreNat, Counts DEF InFlight, Time
  <1>h. ASSUME admitted' = admitted, NEW S
        PROVE  Admissions(S)' = Admissions(S)
    BY <1>h DEF Admissions
  <1>1. CASE UNCHANGED <<now, counter, admitted>>
    <2>1. \A v \in Windows : Admissions(InWindow(v))' = Admissions(InWindow(v))
      BY <1>1, <1>h
    <2>2. QED
      BY <1>1, <2>1 DEF CountersSound, Weighed
  <1>2. CASE now' = now + 1 /\ ExpireKeys /\ admitted' = admitted
    <2>1. ASSUME NEW v \in Windows
          PROVE  \/ counter'[v] = counter[v]
                 \/ counter'[v] = NoCounter /\ counter[v].expires <= now + 1
      BY <1>2 DEF ExpireKeys
    <2>n. NoCounter.n = 0 /\ NoCounter \in [n : 0..WindowLimit, expires : 0..(MaxTime + 2 * Window)]
      BY Constants DEF NoCounter
    <2>2. counter' \in [Windows -> [n : 0..WindowLimit, expires : 0..(MaxTime + 2 * Window)]]
      BY <1>2, <2>n DEF ExpireKeys, CountersSound
    <2>3. \A v \in Windows : counter'[v].n > 0 => v * Window + 2 * Window <= counter'[v].expires
      BY <2>1, <2>n DEF CountersSound
    <2>4. ASSUME NEW v \in Windows, now' < v * Window + 2 * Window
          PROVE  Admissions(InWindow(v))' <= counter'[v].n
      <3>1. Admissions(InWindow(v))' = Admissions(InWindow(v))
        BY <1>2, <1>h
      <3>2. now < v * Window + 2 * Window /\ now + 1 < v * Window + 2 * Window
        BY <1>0, <1>2, <2>4, Constants
      <3>3. Admissions(InWindow(v)) <= counter[v].n
        BY <3>2 DEF Weighed
      <3>4. CASE counter'[v] = counter[v]
        BY <3>1, <3>3, <3>4
      <3>5. CASE counter'[v] = NoCounter /\ counter[v].expires <= now + 1
        <4>1. ~(counter[v].n > 0)
          <5>1. SUFFICES ASSUME counter[v].n > 0 PROVE FALSE
            OBVIOUS
          <5>2. v * Window + 2 * Window <= counter[v].expires /\ counter[v].expires \in Int
            BY <5>1, Constants DEF CountersSound
          <5>3. v * Window + 2 * Window \in Int
            BY <1>0, Constants
          <5>4. QED
            BY <1>0, <3>2, <3>5, <5>2, <5>3
        <4>2. QED
          BY <1>0, <2>n, <3>1, <3>3, <3>5, <4>1
      <3>6. QED
        BY <2>1, <3>4, <3>5
    <2>5. QED
      BY <2>2, <2>3, <2>4 DEF CountersSound, Weighed
  <1>3. ASSUME NEW r \in Requests, NEW x, x = request[r].stamp,
               request[r].at = "window", SlidingWindow(x), now' = now,
               \/ admitted' = admitted
               \/ WindowAllows(x) /\ admitted' = admitted \cup {<<x, Admissions({x})>>}
        PROVE  CountersSound' /\ Weighed'
    <2>1. x \in Time /\ x <= now
      BY <1>3 DEF InFlight
    <2>2. /\ CountersSound'
          /\ \A v \in Windows :
                counter'[v].n = counter[v].n
                   + (IF v = WindowOf(x) /\ WindowAllows(x) THEN 1 ELSE 0)
      BY <1>3, <2>1, CountersMove
    <2>3. ASSUME NEW v \in Windows, now' < v * Window + 2 * Window
          PROVE  Admissions(InWindow(v))' <= counter'[v].n
      <3>1. Admissions(InWindow(v)) <= counter[v].n
        BY <1>3, <2>3 DEF Weighed
      <3>2. CASE admitted' = admitted
        <4>1. Admissions(InWindow(v))' = Admissions(InWindow(v))
          BY <1>h, <3>2
        <4>2. counter'[v].n = counter[v].n \/ counter'[v].n = counter[v].n + 1
          BY <1>0, <2>2
        <4>3. QED
          BY <1>0, <3>1, <4>1, <4>2
      <3>3. CASE WindowAllows(x) /\ admitted' = admitted \cup {<<x, Admissions({x})>>}
        <4>1. /\ Cardinality(AdmittedIn(InWindow(v))') =
                    Cardinality(AdmittedIn(InWindow(v))) + (IF x \in InWindow(v) THEN 1 ELSE 0)
              /\ Admissions(InWindow(v))' = Cardinality(AdmittedIn(InWindow(v))')
              /\ Admissions(InWindow(v)) = Cardinality(AdmittedIn(InWindow(v)))
          BY <2>1, <3>3, Admitting DEF Admissions, AdmittedIn
        <4>2. x \in InWindow(v) <=> v = WindowOf(x)
          BY <2>1 DEF InWindow
        <4>3. Admissions(InWindow(v)) \in Nat /\ counter[v].n \in Nat
          BY <1>0
        <4>4. CASE v = WindowOf(x)
          <5>1. /\ Admissions(InWindow(v))' = Admissions(InWindow(v)) + 1
                /\ counter'[v].n = counter[v].n + 1
            BY <2>2, <3>3, <4>1, <4>2, <4>4
          <5>2. QED
            BY <3>1, <4>3, <5>1
        <4>5. CASE v # WindowOf(x)
          <5>1. /\ Admissions(InWindow(v))' = Admissions(InWindow(v))
                /\ counter'[v].n = counter[v].n
            BY <2>2, <4>1, <4>2, <4>3, <4>5
          <5>2. QED
            BY <3>1, <5>1
        <4>6. QED
          BY <4>4, <4>5
      <3>4. QED
        BY <1>3, <3>2, <3>3
    <2>4. QED
      BY <2>2, <2>3 DEF Weighed
  <1>4. QED
    BY <1>1, <1>2, <1>3, AdmissionsMove

\* When a request is admitted, its window and, while it is still the current one, the
\* window before are weighed with counters that know every admission.
LEMMA QuotaStep ==
  ASSUME Numbered, InFlight, CountersSound, Weighed, Next \/ UNCHANGED vars,
         NEW a \in admitted' \ admitted
  PROVE  LET s == a[1]
             before == IF WindowOf(now) = WindowOf(s)
                       THEN Admissions(InWindow(WindowOf(s) - 1)) ELSE 0
         IN  Admissions(InWindow(WindowOf(s))) * Window
                 + before * (Window - (s % Window)) < WindowLimit * Window
  <1>1. PICK r \in Requests :
           LET x == request[r].stamp
           IN  /\ request[r].at = "window" /\ WindowAllows(x)
               /\ admitted' = admitted \cup {<<x, Admissions({x})>>}
    BY AdmissionsMove
  <1> DEFINE x == request[r].stamp
             w == WindowOf(x)
             here == Admissions(InWindow(w))
             before == IF WindowOf(now) = w THEN Admissions(InWindow(w - 1)) ELSE 0
             d == Window - (x % Window)
  <1>2. a[1] = x
    BY <1>1
  <1>3. x \in Time /\ x <= now /\ now <= x + MaxDelay /\ x \in Nat /\ now \in Nat
    BY <1>1 DEF InFlight, Time
  <1>4. /\ w \in Windows /\ w \in Nat /\ x < w * Window + Window
        /\ d \in Nat /\ w * Window \in Int
        /\ WindowOf(now) \in Nat /\ now < WindowOf(now) * Window + Window
    <2>1. w \in Windows /\ w \in Nat /\ x < w * Window + Window /\ x % Window \in 0..(Window - 1)
      BY <1>3, StampWindow, WindowsTile
    <2>2. d \in Nat
      BY <2>1, Constants
    <2>3. WindowOf(now) \in Nat /\ now < WindowOf(now) * Window + Window
      BY <1>3, WindowsTile
    <2>4. QED
      BY <2>1, <2>2, <2>3, Times
  <1>5. Count(w) * Window + Count(w - 1) * d < WindowLimit * Window
    BY <1>1 DEF WindowAllows, Estimate
  <1>6. Count(w) \in Nat /\ Count(w - 1) \in Nat /\ here \in Nat /\ before \in Nat
    BY CountIsNat, Counts
  <1> HIDE DEF x, d
  <1>7. here <= Count(w)
    <2>1. now < w * Window + 2 * Window
      BY <1>3, <1>4, Constants
    <2>2. QED
      BY <1>4, <2>1 DEF Weighed, Count
  <1>8. before <= Count(w - 1)
    <2>1. CASE WindowOf(now) # w
      BY <1>6, <2>1
    <2>2. CASE WindowOf(now) = w /\ w = 0
      <3>1. InWindow(w - 1) = {}
        BY <2>2, WindowsTile DEF InWindow, Time
      <3>2. Admissions(InWindow(w - 1)) = 0
        <4>1. {b \in admitted : b[1] \in {}} = {}
          OBVIOUS
        <4>2. QED
          BY <3>1, <4>1, FS_EmptySet DEF Admissions
      <3>3. QED
        BY <1>6, <2>2, <3>2
    <2>3. CASE WindowOf(now) = w /\ w # 0
      <3> DEFINE v == w - 1
      <3>1. v \in Windows /\ v \in Nat /\ w = v + 1
        <4>1. MaxTime \div Window \in Int
          BY Constants
        <4>2. QED
          BY <1>4, <2>3, <4>1 DEF Windows
      <3> HIDE DEF v, w
      <3>2. w * Window = v * Window + Window /\ v * Window \in Int
        BY <3>1, Times
      <3>3. now < v * Window + 2 * Window
        <4>1. now < w * Window + Window
          BY <1>4, <2>3
        <4>2. QED
          BY <1>3, <3>2, <4>1, Constants
      <3>4. Admissions(InWindow(v)) <= Count(v)
        BY <3>1, <3>3 DEF Weighed, Count
      <3>5. v = w - 1
        BY DEF v
      <3>6. QED
        BY <2>3, <3>4, <3>5
    <2>4. QED
      BY <2>1, <2>2, <2>3
  <1>9. here * Window + before * d < WindowLimit * Window
    <2> DEFINE m == Count(w)
               n == Count(w - 1)
    <2>1. m \in Nat /\ n \in Nat /\ here <= m /\ before <= n
          /\ m * Window + n * d < WindowLimit * Window
      BY <1>5, <1>6, <1>7, <1>8
    <2> HIDE DEF m, n, here, before
    <2>2. here * Window <= m * Window /\ before * d <= n * d
      <3>1. here \in Nat /\ before \in Nat /\ d \in Nat /\ Window \in Nat
        BY <1>4, <1>6, Constants
      <3>2. QED
        BY <2>1, <3>1, Times, Zenon
    <2>3. /\ here * Window \in Nat /\ m * Window \in Nat
          /\ before * d \in Nat /\ n * d \in Nat /\ WindowLimit * Window \in Nat
      BY <1>4, <1>6, <2>1, Times, Constants
    <2>4. QED
      BY <2>1, <2>2, <2>3
  <1>10. QED
    BY <1>2, <1>9 DEF d

-----------------------------------------------------------------------------
(***************************************************************************)
(* The rate limiter: its theorems.                                         *)
(***************************************************************************)
RateInv ==
    /\ Numbered /\ InFlight
    /\ BucketSound /\ Paid /\ Smoothed
    /\ CountersSound /\ Weighed

LEMMA InitRate == Init => RateInv
  <1> SUFFICES ASSUME Init PROVE RateInv
    OBVIOUS
  <1>1. admitted = {} /\ setBack = 0 /\ now = 0 /\ bucket = NoBucket
        /\ counter = [w \in Windows |-> NoCounter] /\ request = [r \in Requests |-> Idle]
    BY DEF Init
  <1>t. 0 \in Time /\ \A s \in Time : s \in Nat
    BY Constants DEF Time
  <1>2. Numbered
    BY <1>1, FS_EmptySet DEF Numbered
  <1>3. InFlight
    BY <1>1, <1>t DEF InFlight, Idle
  <1>4. BucketSound
    <2>1. NoBucket \in [tokens : 0..Burst, ts : Time, expires : 0..(MaxTime + Window)]
      BY <1>t, Constants DEF NoBucket
    <2>2. QED
      BY <1>1, <2>1 DEF BucketSound
  <1>5. \A S : Taken(S) = 0 /\ Admissions(S) = 0
    <2> TAKE S
    <2>1. AdmittedIn(S) = {} /\ HoldersIn(S) = {}
      BY <1>1 DEF AdmittedIn, HoldersIn, Idle
    <2>2. QED
      BY <1>2, <2>1, Counts, FS_EmptySet DEF Taken
  <1>6. Paid
    BY <1>5 DEF Paid
  <1>7. ASSUME NEW s \in Time, NEW t \in Time, s <= t
        PROVE  Taken(s..t) <= Burst + Refill * (t - s + setBack)
    <2>1. t - s + setBack \in Nat
      BY <1>1, <1>7, <1>t
    <2>2. Refill * (t - s + setBack) >= 0 /\ Refill * (t - s + setBack) \in Int
      BY <2>1, RefillGrows
    <2>3. QED
      BY <1>5, <2>2, Constants
  <1>8. CountersSound
    <2>1. NoCounter \in [n : 0..WindowLimit, expires : 0..(MaxTime + 2 * Window)]
          /\ NoCounter.n = 0
      BY Constants DEF NoCounter
    <2>2. QED
      BY <1>1, <2>1 DEF CountersSound
  <1>9. Weighed
    BY <1>1, <1>5 DEF Weighed, NoCounter
  <1>10. QED
    BY <1>2, <1>3, <1>4, <1>6, <1>7, <1>8, <1>9 DEF RateInv, Smoothed

\* What is counted, paid and weighed stays so through every step.
THEOREM RateInvariant == Spec => []RateInv
  <1>1. RateInv /\ [Next]_vars => RateInv'
    <2> SUFFICES ASSUME RateInv, Next \/ UNCHANGED vars PROVE RateInv'
      OBVIOUS
    <2> USE DEF RateInv
    <2>1. InFlight'
      BY InFlightStep
    <2>2. CountersSound' /\ Weighed'
      BY WindowsStep
    <2>3. Numbered' /\ BucketSound' /\ Paid' /\ Smoothed'
      BY TakenMoves, PaidQuietly, PaidByBucket
    <2>4. QED
      BY <2>1, <2>2, <2>3
  <1>2. QED
    BY <1>1, InitRate, PTL DEF Spec

\* Every variable has its type: no counter exceeds the quota and no bucket its
\* capacity (the two scripts).
THEOREM RateTypeCorrect == Spec => []TypeOK
  <1>1. RateInv => TypeOK
    BY DEF RateInv, Numbered, InFlight, BucketSound, CountersSound, TypeOK
  <1>2. QED
    BY <1>1, RateInvariant, PTL

\* Between two instants no more is admitted than a full bucket and what comes back
\* meanwhile, but for the time late stamps set the bucket's clock back.
THEOREM Bursts == Spec => []BurstsAreSmoothed
  <1>1. RateInv => BurstsAreSmoothed
    <2> SUFFICES ASSUME RateInv, NEW s \in Time, NEW t \in Time, s <= t
                 PROVE  Admissions(s..t) <= Burst + Refill * (t - s + setBack)
      BY DEF BurstsAreSmoothed
    <2>1. Taken(s..t) <= Burst + Refill * (t - s + setBack)
      BY DEF RateInv, Smoothed
    <2>2. Admissions(s..t) <= Taken(s..t) /\ Admissions(s..t) \in Nat /\ Taken(s..t) \in Nat
      BY Counts DEF RateInv
    <2>3. Refill * (t - s + setBack) \in Int
      <3>1. t - s + setBack \in Int
        BY DEF RateInv, BucketSound, Time
      <3>2. QED
        BY <3>1, RefillGrows
    <2>4. QED
      BY <2>1, <2>2, <2>3, Constants
  <1>2. QED
    BY <1>1, RateInvariant, PTL

\* No request is admitted over the quota, weighed with the window before.
THEOREM Quota == Spec => QuotaCountsThePast
  <1>1. ASSUME RateInv, [Next]_vars
        PROVE  \A a \in admitted' \ admitted :
                  LET s == a[1]
                      before == IF WindowOf(now) = WindowOf(s)
                                THEN Admissions(InWindow(WindowOf(s) - 1)) ELSE 0
                  IN  Admissions(InWindow(WindowOf(s))) * Window
                          + before * (Window - (s % Window)) < WindowLimit * Window
    BY <1>1, QuotaStep DEF RateInv
  <1>2. RateInv /\ [Next]_vars =>
           [\A a \in admitted' \ admitted :
                  LET s == a[1]
                      before == IF WindowOf(now) = WindowOf(s)
                                THEN Admissions(InWindow(WindowOf(s) - 1)) ELSE 0
                  IN  Admissions(InWindow(WindowOf(s))) * Window
                          + before * (Window - (s % Window)) < WindowLimit * Window]_vars
    BY <1>1
  <1>3. QED
    BY <1>2, RateInvariant, PTL DEF Spec, QuotaCountsThePast

-----------------------------------------------------------------------------
(***************************************************************************)
(* The startup lock excludes, for any number of workers, any TTL and any   *)
(* number of faults.                                                       *)
(*                                                                         *)
(* The invariant behind it: a worker that has been inside for less than    *)
(* the TTL still owns the key, and the key has exactly the rest of the TTL *)
(* to live.                                                                *)
(***************************************************************************)
\* A young holder owns the key, and the key outlives its youth.
YoungHolds ==
    \A w \in Processes :
        at[w] = "inside" /\ clock[w] < TTL => owner = w /\ left + clock[w] = TTL

\* Nobody is inside for longer than the clock counts.
AgeBounded == \A w \in Processes : at[w] = "inside" => clock[w] <= TTL

LockInv == LockTypeOK /\ YoungHolds /\ AgeBounded

\* Initially nobody is inside and there is no key.
LEMMA InitLock == LockInit => LockInv
BY WorkerLockAssumption DEF LockInit, LockInv, LockTypeOK, YoungHolds, AgeBounded,
     WorkerLockAssumption

\* A tick ages the worker inside and its key alike.
LEMMA LockTicks == LockInv /\ TimePasses => LockInv'
<1> SUFFICES ASSUME LockInv, TimePasses PROVE LockInv'
  OBVIOUS
<1> USE WorkerLockAssumption DEF WorkerLockAssumption, LockInv, TimePasses
<1>1. \A w \in Processes : clock'[w] = Age(w) /\ at'[w] = at[w]
  BY DEF LockTypeOK
<1>2. \A w \in Processes : clock[w] \in Nat
  BY DEF LockTypeOK
<1>3. LockTypeOK'
  <2>1. \A w \in Processes : Age(w) \in 0..(IF TTL > Wait THEN TTL ELSE Wait)
    <3> SUFFICES ASSUME NEW w \in Processes
                 PROVE Age(w) \in 0..(IF TTL > Wait THEN TTL ELSE Wait)
      OBVIOUS
    <3>1. clock[w] \in 0..(IF TTL > Wait THEN TTL ELSE Wait)
      BY DEF LockTypeOK
    <3>2. at[w] = "waiting" => clock[w] < Wait
      BY DEF MayWait
    <3> QED
      BY <3>1, <3>2 DEF Age
  <2>2. clock' \in [Processes -> 0..(IF TTL > Wait THEN TTL ELSE Wait)]
    BY <2>1
  <2>3. \A w \in Processes : at'[w] = "waiting" => clock'[w] <= Wait
    BY <1>1, <1>2 DEF Age, MayWait
  <2>4. left' \in 0..TTL /\ (owner' = NoOwner <=> left' = 0)
    BY DEF Countdown, LockTypeOK
  <2>5. owner' \in Processes \cup {NoOwner, Gone}
    BY DEF Countdown, LockTypeOK
  <2> QED
    BY <2>2, <2>3, <2>4, <2>5 DEF LockTypeOK
<1>4. YoungHolds'
  <2> SUFFICES ASSUME NEW w \in Processes, at'[w] = "inside", clock'[w] < TTL
               PROVE owner' = w /\ left' + clock'[w] = TTL
    BY DEF YoungHolds
  <2>1. at[w] = "inside" /\ clock[w] < TTL /\ clock'[w] = clock[w] + 1
    BY <1>1, <1>2 DEF Age, AgeBounded
  <2>2. owner = w /\ left + clock[w] = TTL
    BY <2>1 DEF YoungHolds
  <2>3. left > 1
    BY <1>2, <2>1, <2>2 DEF LockTypeOK
  <2> QED
    BY <1>2, <2>1, <2>2, <2>3 DEF Countdown, LockTypeOK
<1>5. AgeBounded'
  BY <1>1, <1>2 DEF AgeBounded, Age
<1> QED
  BY <1>3, <1>4, <1>5

\* A worker enters only when there is no key: nobody young is inside.
LEMMA Enter ==
    ASSUME LockInv, NEW w \in Processes,
           Acquire(w) \/ AcquireUnheard(w)
    PROVE  LockInv'
<1> USE WorkerLockAssumption DEF WorkerLockAssumption, LockInv
<1>1. owner = NoOwner /\ left' = TTL
  BY DEF Acquire, AcquireUnheard, SetNX
<1>2. \A v \in Processes : ~(at[v] = "inside" /\ clock[v] < TTL)
  BY <1>1 DEF YoungHolds
<1>3. LockTypeOK'
  BY <1>1 DEF LockTypeOK, Acquire, AcquireUnheard, SetNX, Goto, Fault
<1>4. YoungHolds'
  BY <1>1, <1>2 DEF YoungHolds, LockTypeOK, Acquire, AcquireUnheard, SetNX, Goto
<1>5. AgeBounded'
  BY DEF AgeBounded, LockTypeOK, Acquire, AcquireUnheard, Goto
<1> QED
  BY <1>3, <1>4, <1>5

\* A worker that goes elsewhere takes at most its own key with it.
LEMMA Leave ==
    ASSUME LockInv, NEW w \in Processes,
           Start(w) \/ TimeOut(w) \/ Release(w)
           \/ ReleaseFails(w) \/ Shutdown(w) \/ Kill(w)
    PROVE  LockInv'
<1> USE WorkerLockAssumption DEF WorkerLockAssumption, LockInv
<1>1. PICK place \in {"off", "waiting", "running"} : Goto(w, place)
  BY DEF Start, TimeOut, Release, ReleaseFails, Shutdown, Kill, Die
<1>2. \/ UNCHANGED <<owner, left>>
      \/ owner = w /\ owner' = Gone /\ UNCHANGED left
      \/ owner = w /\ owner' = NoOwner /\ left' = 0
  BY DEF Start, TimeOut, Release, ReleaseFails, Shutdown, Kill, Die, Delete
<1>3. faults' \in 0..MaxFaults
  BY DEF Start, TimeOut, Release, ReleaseFails, Shutdown, Kill, Fault, LockTypeOK
<1>4. LockTypeOK'
  BY <1>1, <1>2, <1>3 DEF LockTypeOK, Goto
<1>5. \A v \in Processes : at'[v] = "inside" => v # w /\ at[v] = "inside" /\ clock'[v] = clock[v]
  BY <1>1 DEF Goto, LockTypeOK
<1>6. YoungHolds'
  BY <1>2, <1>5 DEF YoungHolds
<1>7. AgeBounded'
  BY <1>5 DEF AgeBounded
<1> QED
  BY <1>4, <1>6, <1>7

\* Every step keeps the invariant.
LEMMA LockKept == LockInv /\ [LockNext]_lockVars => LockInv'
<1> SUFFICES ASSUME LockInv, [LockNext]_lockVars PROVE LockInv'
  OBVIOUS
<1>1. CASE TimePasses
  BY <1>1, LockTicks
<1>2. CASE \E w \in Processes : LockStep(w)
  <2> PICK w \in Processes : LockStep(w)
    BY <1>2
  <2> QED
    BY Enter, Leave DEF LockStep
<1>3. CASE UNCHANGED lockVars
  BY <1>3 DEF lockVars, LockInv, LockTypeOK, YoungHolds, AgeBounded
<1> QED
  BY <1>1, <1>2, <1>3 DEF LockNext

LEMMA LockInvariant == LockSpec => []LockInv
BY InitLock, LockKept, PTL DEF LockSpec

\* The types, the deadline of a waiting start among them.
THEOREM LockTypeCorrect == LockSpec => []LockTypeOK
<1>1. LockInv => LockTypeOK
  BY DEF LockInv
<1> QED
  BY <1>1, LockInvariant, PTL

\* Two startups overlap only if one of them has outlived its lock (Acquire,
\* releaseScript): two young ones would both own the key.
THEOREM Exclusive == LockSpec => []StartupExclusive
<1>1. LockInv => StartupExclusive
  <2> SUFFICES ASSUME LockInv, NEW v \in Processes, NEW w \in Processes, v # w,
                      at[v] = "inside", at[w] = "inside", clock[v] # TTL
               PROVE clock[w] = TTL
    BY DEF StartupExclusive
  <2>1. \A u \in {v, w} : clock[u] \in Nat /\ clock[u] <= TTL
    BY WorkerLockAssumption DEF LockInv, LockTypeOK, AgeBounded, WorkerLockAssumption
  <2>2. owner = v
    BY <2>1, WorkerLockAssumption DEF LockInv, YoungHolds, WorkerLockAssumption
  <2> QED
    BY <2>1, <2>2, WorkerLockAssumption DEF LockInv, YoungHolds, WorkerLockAssumption
<1> QED
  BY <1>1, LockInvariant, PTL

\* A key that is set always has time left to run out: no death of a process leaves a
\* lock that stands for ever (Acquire sets the TTL with the key).
THEOREM KeyRunsOut == LockSpec => [](owner # NoOwner => left \in 1..TTL)
<1>1. LockInv => (owner # NoOwner => left \in 1..TTL)
  BY WorkerLockAssumption DEF LockInv, LockTypeOK, WorkerLockAssumption
<1> QED
  BY <1>1, LockInvariant, PTL

-----------------------------------------------------------------------------
(***************************************************************************)
(* The email queue, which the same workers drain: QueueInv is inductive,   *)
(* for every set of emails and of workers, every batch size and every      *)
(* number of crashes.                                                      *)
(***************************************************************************)
\* The queue starts empty and nobody holds a claim.
LEMMA InitQueue == QueueInit => QueueInv
BY NotificationsAssumption DEF QueueInit, QueueInv, QueueTypeOK, LeaseExclusive,
     DeliveredWasSent, ClaimsMatchRows, SendersKnow, Holds, Status, Lease, Outcome

\* A claim takes rows nobody holds: a claimable row is queued, and so in no batch,
\* or its lease has run out, and so every claim of it is overdue.
LEMMA ClaimKeeps ==
    ASSUME QueueInv, NEW w \in Workers, NEW S \in SUBSET Emails,
           Claim(w, S),
           awake' \in SUBSET Workers
    PROVE  QueueInv'
<1> USE NotificationsAssumption DEF QueueInv, NotificationsAssumption
<1>1. \A v \in Workers, e \in S : ~Holds(v, e)
  BY DEF Claim, ClaimPendingEmailNotifications, Claimable, ClaimsMatchRows, Holds,
       QueueTypeOK
<1>2. QueueTypeOK'
  BY DEF QueueTypeOK, Claim, ClaimPendingEmailNotifications, Status, Lease
<1>3. LeaseExclusive'
  BY <1>1 DEF LeaseExclusive, Claim, ClaimPendingEmailNotifications, Holds, QueueTypeOK
<1>4. DeliveredWasSent'
  BY DEF DeliveredWasSent, Claim, ClaimPendingEmailNotifications, QueueTypeOK
<1>5. ClaimsMatchRows'
  BY <1>1 DEF ClaimsMatchRows, Claim, ClaimPendingEmailNotifications, Holds, QueueTypeOK
<1>6. SendersKnow'
  BY DEF SendersKnow, Claim, ClaimPendingEmailNotifications, QueueTypeOK
<1> QED BY <1>2, <1>3, <1>4, <1>5, <1>6

\* A mark closes the worker's claim, and moves the row only out of processing.
LEMMA MarkKeeps ==
    ASSUME QueueInv, NEW w \in Workers,
           MarkDelivered(w) \/ MarkFailed(w)
    PROVE  QueueInv'
<1> USE NotificationsAssumption DEF QueueInv, NotificationsAssumption
<1>1. /\ sending[w] \in batch[w] /\ sending[w] \in Emails
      /\ Finish(w)
      /\ \A e \in Emails \ {sending[w]} : status'[e] = status[e] /\ lease'[e] = lease[e]
      /\ \/ status'[sending[w]] = status[sending[w]] /\ lease'[sending[w]] = lease[sending[w]]
         \/ status'[sending[w]] \in {"delivered", "failed"}
      /\ UNCHANGED <<outcome, sent, signals, crashes>>
  BY DEF MarkDelivered, MarkEmailNotificationDelivered, MarkFailed,
       MarkEmailNotificationFailed, QueueTypeOK, rows
<1>2. QueueTypeOK'
  <2>1. status' \in [Emails -> Status] /\ lease' \in [Emails -> Lease]
       /\ due' \in SUBSET Emails
    BY DEF MarkDelivered, MarkEmailNotificationDelivered, MarkFailed,
         MarkEmailNotificationFailed, QueueTypeOK, rows, Status, Lease
  <2>2. batch' \in [Workers -> SUBSET Emails] /\ overdue' \in SUBSET (Workers \X Emails)
    BY <1>1 DEF Finish, QueueTypeOK
  <2>3. \A claim \in overdue' : claim[2] \in batch'[claim[1]]
    BY <1>1 DEF Finish, QueueTypeOK
  <2>4. /\ sending' \in [Workers -> Emails \cup {NoEmail}]
        /\ \A v \in Workers : sending'[v] \in batch'[v] \cup {NoEmail}
    BY <1>1 DEF Finish, QueueTypeOK
  <2> QED BY <1>1, <2>1, <2>2, <2>3, <2>4 DEF QueueTypeOK, signals
<1>3. \A v \in Workers, e \in Emails :
         e \in batch'[v] => e \in batch[v] /\ (Holds(v, e)' => Holds(v, e))
  BY <1>1 DEF Finish, Holds, QueueTypeOK
<1>4. LeaseExclusive'
  BY <1>3 DEF LeaseExclusive, Holds
<1>5. DeliveredWasSent'
  BY <1>1 DEF DeliveredWasSent, SendersKnow, MarkDelivered,
       MarkEmailNotificationDelivered, MarkFailed, MarkEmailNotificationFailed,
       QueueTypeOK, rows
<1>6. ClaimsMatchRows'
  <2> SUFFICES ASSUME NEW v \in Workers, NEW e \in Emails, e \in batch'[v]
               PROVE  /\ status'[e] \in {"processing", "delivered", "failed"}
                      /\ Holds(v, e)' /\ status'[e] = "processing" => lease'[e] = "held"
    BY DEF ClaimsMatchRows, Holds
  <2>1. /\ e \in batch[v] /\ (Holds(v, e)' => Holds(v, e))
        /\ status[e] \in {"processing", "delivered", "failed"}
        /\ Holds(v, e) /\ status[e] = "processing" => lease[e] = "held"
    BY <1>3 DEF ClaimsMatchRows
  <2> QED BY <1>1, <2>1
<1>7. SendersKnow'
  BY <1>1 DEF SendersKnow, Finish, QueueTypeOK
<1> QED BY <1>2, <1>4, <1>5, <1>6, <1>7

\* Every other step leaves the claims as they are or ends some of them.
LEMMA QueueStep == QueueInv /\ [QueueNext]_queueVars => QueueInv'
<1> SUFFICES ASSUME QueueInv, [QueueNext]_queueVars PROVE QueueInv'
  OBVIOUS
<1> USE NotificationsAssumption DEF QueueInv, NotificationsAssumption
<1>1. CASE UNCHANGED queueVars
  BY <1>1 DEF queueVars, QueueTypeOK, LeaseExclusive, DeliveredWasSent,
       ClaimsMatchRows, SendersKnow, Holds
<1>2. ASSUME NEW e \in Emails, Enqueue(e) PROVE QueueInv'
  BY <1>2 DEF Enqueue, CreateEmailNotification, work, QueueTypeOK, LeaseExclusive,
       DeliveredWasSent, ClaimsMatchRows, SendersKnow, Holds, Status
<1>3. ASSUME NEW w \in Workers, NEW S \in SUBSET Emails, Ticker(w, S) \/ Wake(w, S)
      PROVE  QueueInv'
  BY <1>3, ClaimKeeps DEF Ticker, Wake, QueueTypeOK
<1>4. ASSUME NEW w \in Workers, WakeIdle(w) \/ Listen(w) \/ Disconnect(w)
      PROVE QueueInv'
  BY <1>4 DEF WakeIdle, Listen, Disconnect, rows, work, QueueTypeOK, LeaseExclusive,
       DeliveredWasSent, ClaimsMatchRows, SendersKnow, Holds
<1>5. ASSUME NEW w \in Workers, NEW e \in Emails, Send(w, e) PROVE QueueInv'
  <2>1. QueueTypeOK'
    BY <1>5 DEF Send, rows, signals, QueueTypeOK, Outcome
  <2>2. LeaseExclusive' /\ DeliveredWasSent' /\ ClaimsMatchRows'
    BY <1>5 DEF Send, rows, QueueTypeOK, LeaseExclusive, DeliveredWasSent,
         ClaimsMatchRows, Holds
  <2>3. SendersKnow'
    BY <1>5 DEF Send, QueueTypeOK, SendersKnow
  <2> QED BY <2>1, <2>2, <2>3
<1>6. ASSUME NEW w \in Workers, MarkDelivered(w) \/ MarkFailed(w) PROVE QueueInv'
  BY <1>6, MarkKeeps
<1>7. ASSUME NEW w \in Workers, Crash(w) PROVE QueueInv'
  <2>1. QueueTypeOK'
    BY <1>7 DEF Crash, rows, QueueTypeOK
  <2>2. LeaseExclusive' /\ DeliveredWasSent'
       /\ ClaimsMatchRows' /\ SendersKnow'
    BY <1>7 DEF Crash, rows, QueueTypeOK, LeaseExclusive, DeliveredWasSent,
         ClaimsMatchRows, SendersKnow, Holds
  <2> QED BY <2>1, <2>2
<1>8. ASSUME NEW e \in Emails, LeaseExpires(e) PROVE QueueInv'
  <2>1. \A v \in Workers, f \in Emails : Holds(v, f)' => Holds(v, f) /\ f # e
    BY <1>8 DEF LeaseExpires, Holds, QueueTypeOK
  <2>2. QueueTypeOK'
    BY <1>8 DEF LeaseExpires, signals, QueueTypeOK, Lease
  <2>3. LeaseExclusive' /\ ClaimsMatchRows'
    BY <1>8, <2>1 DEF LeaseExpires, QueueTypeOK, LeaseExclusive, ClaimsMatchRows
  <2>4. DeliveredWasSent' /\ SendersKnow'
    BY <1>8 DEF LeaseExpires, DeliveredWasSent, SendersKnow
  <2> QED BY <2>2, <2>3, <2>4
<1>9. ASSUME NEW e \in Emails, BackoffEnds(e) PROVE QueueInv'
  BY <1>9 DEF BackoffEnds, work, signals, QueueTypeOK, LeaseExclusive,
       DeliveredWasSent, ClaimsMatchRows, SendersKnow, Holds
<1> QED BY <1>1, <1>2, <1>3, <1>4, <1>5, <1>6, <1>7, <1>8, <1>9 DEF QueueNext, DeliveryStep

\* QueueInv holds in every state the queue reaches.
THEOREM QueueInvariance == QueueSpec => []QueueInv
BY InitQueue, QueueStep, PTL DEF QueueSpec

\* Every reachable state of the queue is well typed, and no worker sends an email
\* that is not in its batch.
THEOREM QueueTypeCorrect == QueueSpec => []QueueTypeOK
BY QueueInvariance, PTL DEF QueueInv

\* No two live claims of an email: at most one worker whose lease has not run out
\* has it in hand (ClaimPendingEmailNotifications and the two marks).
THEOREM LeasesExclude == QueueSpec => []LeaseExclusive
BY QueueInvariance, PTL DEF QueueInv

\* What is recorded as delivered was sent.
THEOREM DeliveredMeansSent == QueueSpec => []DeliveredWasSent
BY QueueInvariance, PTL DEF QueueInv

\* A delivered email is never marked otherwise nor claimed again.
THEOREM DeliveredForGood == QueueSpec => DeliveredIsFinal
<1>1. ASSUME QueueInv, [QueueNext]_queueVars, NEW e \in Emails, status[e] = "delivered"
      PROVE  /\ status'[e] = "delivered"
             /\ \A w \in Workers : e \in batch'[w] => e \in batch[w]
  <2> USE <1>1 DEF QueueInv, QueueTypeOK
  <2>1. CASE UNCHANGED queueVars
    BY <2>1 DEF queueVars
  <2>2. ASSUME NEW f \in Emails, Enqueue(f) \/ LeaseExpires(f)
               \/ BackoffEnds(f)
        PROVE  status'[e] = "delivered" /\ batch' = batch
    BY <2>2 DEF Enqueue, CreateEmailNotification, LeaseExpires, BackoffEnds, work
  <2>3. ASSUME NEW w \in Workers, NEW S \in SUBSET Emails, Ticker(w, S) \/ Wake(w, S)
        PROVE  status'[e] = "delivered" /\ \A v \in Workers : e \in batch'[v] => e \in batch[v]
    BY <2>3 DEF Ticker, Wake, Claim, ClaimPendingEmailNotifications, Claimable
  <2>4. ASSUME NEW w \in Workers,
               WakeIdle(w) \/ Listen(w)
               \/ Disconnect(w) \/ \E f \in Emails : Send(w, f)
        PROVE  status'[e] = "delivered" /\ batch' = batch
    BY <2>4 DEF WakeIdle, Listen, Disconnect, Send, rows, work
  <2>5. ASSUME NEW w \in Workers, MarkDelivered(w) \/ MarkFailed(w)
        PROVE  status'[e] = "delivered" /\ \A v \in Workers : e \in batch'[v] => e \in batch[v]
    BY <2>5 DEF MarkDelivered, MarkEmailNotificationDelivered, MarkFailed,
         MarkEmailNotificationFailed, Finish, rows
  <2>6. ASSUME NEW w \in Workers, Crash(w)
        PROVE  status'[e] = "delivered" /\ \A v \in Workers : e \in batch'[v] => e \in batch[v]
    BY <2>6 DEF Crash, rows
  <2> QED BY <2>1, <2>2, <2>3, <2>4, <2>5, <2>6 DEF QueueNext, DeliveryStep
<1>2. QueueInv /\ [QueueNext]_queueVars =>
        [\A e \in Emails : status[e] = "delivered" =>
             /\ status'[e] = "delivered"
             /\ \A w \in Workers : e \in batch'[w] => e \in batch[w]]_queueVars
  BY <1>1
<1> QED BY <1>2, QueueInvariance, PTL DEF QueueSpec, DeliveredIsFinal
=============================================================================
