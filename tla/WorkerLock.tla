------------------------------ MODULE WorkerLock ------------------------------
(***************************************************************************)
(* internal/infra/lock and its one user, initialize of cmd/worker: workers *)
(* that start take a Redis lock with a TTL, one after the other, and let   *)
(* go of it when their startup is done.                                    *)
(*                                                                         *)
(* Every process has a fresh owner token, so the token of a process that   *)
(* is gone belongs to nobody.  Refresh is never called: a worker that      *)
(* stalls inside for the whole TTL loses the lock without knowing it.      *)
(***************************************************************************)
EXTENDS Integers

CONSTANTS
    Processes,  \* the worker processes, each started again and again
    TTL,        \* startupLockTTL, in ticks
    Wait,       \* how long a start waits: startupTimeout, in ticks
    MaxFaults,  \* bound on the crashes and the calls to Redis that fail
    NoOwner,    \* no key
    Gone        \* the token of a process that is no more

ASSUME WorkerLockAssumption ==
    /\ {TTL, Wait} \subseteq Nat \ {0}
    /\ MaxFaults \in Nat
    /\ NoOwner # Gone
    /\ {NoOwner, Gone} \cap Processes = {}

VARIABLES
    at,      \* where each worker is
    clock,   \* ticks it has waited, or been inside up to the TTL
    owner,   \* the value of the lock's key
    left,    \* and its TTL
    faults   \* faults so far

lockVars == <<at, clock, owner, left, faults>>

LockInit ==
    /\ at = [w \in Processes |-> "off"]
    /\ clock = [w \in Processes |-> 0]
    /\ owner = NoOwner
    /\ left = 0
    /\ faults = 0

Goto(w, place) == at' = [at EXCEPT ![w] = place] /\ clock' = [clock EXCEPT ![w] = 0]

\* The process ends, and with it the only copy of its token.
Die(w) ==
    /\ Goto(w, "off")
    /\ owner' = IF owner = w THEN Gone ELSE owner
    /\ UNCHANGED left

Fault == faults < MaxFaults /\ faults' = faults + 1

-----------------------------------------------------------------------------
(***************************************************************************)
(* The commands of the lock.                                               *)
(***************************************************************************)

\* SET NX with the TTL.
SetNX(w) ==
    /\ owner = NoOwner
    /\ owner' = w
    /\ left' = TTL

\* Mutation of Delete: the owner is not compared.
DeleteAny(w) == owner' = NoOwner /\ left' = 0

\* releaseScript: only a lock that is still ours.
Delete(w) ==
    /\ owner' = IF owner = w THEN NoOwner ELSE owner
    /\ left' = IF owner = w THEN 0 ELSE left

\* Mutation of Countdown: the key has no TTL.
CountdownNever == UNCHANGED <<owner, left>>

\* The key expires.
Countdown ==
    /\ left' = IF left > 0 THEN left - 1 ELSE 0
    /\ owner' = IF left > 1 THEN owner ELSE NoOwner

-----------------------------------------------------------------------------
(***************************************************************************)
(* initialize.                                                             *)
(***************************************************************************)

Start(w) ==
    /\ at[w] = "off"
    /\ Goto(w, "waiting")
    /\ UNCHANGED <<owner, left, faults>>

\* Acquire; while the lock is held the worker tries again every half second.
Acquire(w) ==
    /\ at[w] = "waiting"
    /\ SetNX(w)
    /\ Goto(w, "inside")
    /\ UNCHANGED faults

\* The lock is taken and the answer is lost: the call fails, or the client repeats it
\* and the worker waits for itself.
AcquireUnheard(w) ==
    /\ at[w] = "waiting"
    /\ Fault
    /\ left' = TTL
    /\ owner = NoOwner
    /\ \/ owner' = w /\ UNCHANGED <<at, clock>>
       \/ owner' = Gone /\ Goto(w, "off")

\* The context of the startup ends.
TimeOut(w) ==
    /\ at[w] = "waiting"
    /\ clock[w] = Wait
    /\ Die(w)
    /\ UNCHANGED faults

Release(w) ==
    /\ at[w] = "inside"
    /\ Delete(w)
    /\ Goto(w, "running")
    /\ UNCHANGED faults

\* Release fails, and the startup with it; the key may be gone all the same.
ReleaseFails(w) ==
    /\ at[w] = "inside"
    /\ Fault
    /\ \/ Die(w)
       \/ Delete(w) /\ Goto(w, "off")

\* SIGTERM to a worker that runs.
Shutdown(w) ==
    /\ at[w] = "running"
    /\ Die(w)
    /\ UNCHANGED faults

Kill(w) ==
    /\ at[w] # "off"
    /\ Fault
    /\ Die(w)

\* Nobody waits past the deadline.
MayWait == \A w \in Processes : at[w] = "waiting" => clock[w] < Wait

Age(w) ==
    CASE at[w] = "waiting" -> clock[w] + 1
      [] at[w] = "inside" /\ clock[w] < TTL -> clock[w] + 1
      [] OTHER -> clock[w]

TimePasses ==
    /\ MayWait
    /\ clock' = [w \in Processes |-> Age(w)]
    /\ Countdown
    /\ UNCHANGED <<at, faults>>

LockStep(w) ==
    \/ Start(w) \/ Acquire(w) \/ AcquireUnheard(w) \/ TimeOut(w)
    \/ Release(w) \/ ReleaseFails(w) \/ Shutdown(w) \/ Kill(w)

LockNext == TimePasses \/ \E w \in Processes : LockStep(w)

LockSpec == LockInit /\ [][LockNext]_lockVars

\* Time goes on, a startup that holds the lock ends and one that waits too long gives
\* up.  A start tries at once and then every half second, so one that meets the free
\* lock again and again takes it.  Nobody has to start a worker.
LockFairness ==
    /\ WF_lockVars(TimePasses)
    /\ \A w \in Processes :
          WF_lockVars(TimeOut(w)) /\ WF_lockVars(Release(w)) /\ SF_lockVars(Acquire(w))

FairLockSpec == LockSpec /\ LockFairness
-----------------------------------------------------------------------------
(***************************************************************************)
(* Properties.                                                             *)
(***************************************************************************)
LockTypeOK ==
    /\ at \in [Processes -> {"off", "waiting", "inside", "running"}]
    /\ clock \in [Processes -> 0..(IF TTL > Wait THEN TTL ELSE Wait)]
    /\ \A w \in Processes : at[w] = "waiting" => clock[w] <= Wait
    /\ owner \in Processes \cup {NoOwner, Gone}
    /\ left \in 0..TTL
    /\ owner = NoOwner <=> left = 0
    /\ faults \in 0..MaxFaults

\* Two workers are in their startup at once only if one of them has been in it for
\* the whole TTL: a late release, a crash or a lost answer never lets a third one in
\* early (Acquire, releaseScript).
StartupExclusive ==
    \A v, w \in Processes :
        v # w /\ at[v] = "inside" /\ at[w] = "inside" => clock[v] = TTL \/ clock[w] = TTL

\* Whatever process died with the lock in its hands, workers that keep being started
\* do not all give up for ever: again and again one of them gets in (initialize, the
\* TTL).  Which one is left to chance.
StartsGoOn ==
    []<>(\E w \in Processes : at[w] = "waiting") => []<>(\E w \in Processes : at[w] = "inside")
=============================================================================
