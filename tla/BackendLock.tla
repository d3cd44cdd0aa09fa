------------------------------ MODULE BackendLock ------------------------------
(***************************************************************************)
(* One lock of lib/backend/lock.go: an item with a TTL that AcquireLock    *)
(* creates, the refresher goroutine of RunWhileLocked renews, and Release  *)
(* removes, each in several calls to the backend. Calls of RunWhileLocked  *)
(* run on any number of servers.                                           *)
(*                                                                         *)
(* Time is relative: a lock has the time it has left, a goroutine the time *)
(* it is behind. No goroutine falls behind by more than MaxDelay.          *)
(***************************************************************************)
EXTENDS Naturals

CONSTANTS
    Calls,      \* calls of RunWhileLocked, each with a random id of its own
    TTL,
    MaxDelay,   \* bound on scheduling and on a round of calls to the backend
    None

ASSUME TTLPositive == TTL \in Nat \ {0}
ASSUME MaxDelayNat == MaxDelay \in Nat
ASSUME NoneFresh == None \notin [owner : Calls, left : Nat]

VARIABLES
    lock,       \* the item in the backend: owner and time left; None if there is none
    pc,         \* where RunWhileLocked is
    wait,       \* how far behind it is
    refresher,  \* where its refresher is
    timer,      \* time until the refresher wakes up
    late,       \* how far behind its timer the refresher is
    base,       \* how far behind it was when it computed the new expiry
    canceled,   \* calls whose function has been told to stop
    failed,     \* history: calls whose refresh failed while the function ran
    slow        \* history: somebody has fallen behind by more than Tolerance

vars == <<lock, pc, wait, refresher, timer, late, base, canceled, failed, slow>>

RefreshInterval_Full == TTL

\* RunWhileLockedConfig.CheckAndSetDefaults
RefreshInterval == TTL \div 2

Init ==
    /\ lock = None
    /\ pc = [p \in Calls |-> "idle"]
    /\ wait = [p \in Calls |-> 0]
    /\ refresher = [p \in Calls |-> "off"]
    /\ timer = [p \in Calls |-> 0]
    /\ late = [p \in Calls |-> 0]
    /\ base = [p \in Calls |-> 0]
    /\ canceled = {}
    /\ failed = {}
    /\ slow = FALSE

Owns(p) == lock # None /\ lock.owner = p

Item_Late(p, t) == [owner |-> p, left |-> TTL + t]

\* The item p writes when it has computed the expiry t ago.
Item(p, t) == IF t < TTL THEN [owner |-> p, left |-> TTL - t] ELSE None

-------------------------------------------------------------------------------
(* Time *)

Waiting(p) == pc[p] \in {"creating", "releasing", "deleting"}
Due(p) == refresher[p] \in {"timer", "swap"} /\ timer[p] = 0

\* The delay that RunWhileLocked tolerates when it refreshes after half of the TTL:
\* less than a sixth of the TTL.
Tolerance == (TTL - 1) \div 6

\* Everybody who has something to do is in time to do it after this tick.
Tick ==
    /\ \A p \in Calls : Waiting(p) => wait[p] < MaxDelay
    /\ \A p \in Calls : Due(p) => late[p] < MaxDelay
    /\ lock' = IF lock = None \/ lock.left = 1 THEN None
               ELSE [lock EXCEPT !.left = @ - 1]
    /\ wait' = [p \in Calls |-> IF Waiting(p) THEN wait[p] + 1 ELSE wait[p]]
    /\ timer' = [p \in Calls |-> IF timer[p] > 0 THEN timer[p] - 1 ELSE 0]
    /\ late' = [p \in Calls |-> IF Due(p) THEN late[p] + 1 ELSE late[p]]
    /\ slow' = (slow \/ \E p \in Calls : wait'[p] > Tolerance \/ late'[p] > Tolerance)
    /\ UNCHANGED <<pc, refresher, base, canceled, failed>>

-------------------------------------------------------------------------------
(* AcquireLock and the function *)

\* AcquireLock has computed the expiry of the item it is about to create.
Acquire(p) ==
    /\ pc[p] = "idle"
    /\ pc' = [pc EXCEPT ![p] = "creating"]
    /\ wait' = [wait EXCEPT ![p] = 0]
    /\ UNCHANGED <<lock, refresher, timer, late, base, canceled, failed, slow>>

\* Backend.Create is atomic; the refresher starts its timer.
Create(p) ==
    /\ pc[p] = "creating"
    /\ lock = None
    /\ lock' = Item(p, wait[p])
    /\ pc' = [pc EXCEPT ![p] = "running"]
    /\ refresher' = [refresher EXCEPT ![p] = "timer"]
    /\ timer' = [timer EXCEPT ![p] = RefreshInterval]
    /\ UNCHANGED <<wait, late, base, canceled, failed, slow>>

\* Somebody else holds the lock: try again after RetryInterval.
CreateExists(p) ==
    /\ pc[p] = "creating"
    /\ lock # None
    /\ pc' = [pc EXCEPT ![p] = "idle"]
    /\ wait' = [wait EXCEPT ![p] = 0]
    /\ UNCHANGED <<lock, refresher, timer, late, base, canceled, failed, slow>>

\* The backend fails, whether it has created the item or not, or the caller
\* cancels the context while waiting.
AcquireFails(p) ==
    /\ pc[p] \in {"idle", "creating"}
    /\ pc' = [pc EXCEPT ![p] = "done"]
    /\ lock' \in {lock} \cup (IF pc[p] = "creating" /\ lock = None
                              THEN {Item(p, wait[p])} ELSE {})
    /\ UNCHANGED <<wait, refresher, timer, late, base, canceled, failed, slow>>

\* fn returns, told to stop or not; stopRefresh is closed.
FnReturns(p) ==
    /\ pc[p] = "running"
    /\ pc' = [pc EXCEPT ![p] = "releasing"]
    /\ wait' = [wait EXCEPT ![p] = 0]
    /\ UNCHANGED <<lock, refresher, timer, late, base, canceled, failed, slow>>

\* The server stops: both goroutines are gone, the item stays.
Crash(p) ==
    /\ pc[p] \in {"running", "releasing", "deleting"}
    /\ pc' = [pc EXCEPT ![p] = "done"]
    /\ refresher' = [refresher EXCEPT ![p] = "off"]
    /\ timer' = [timer EXCEPT ![p] = 0]
    /\ late' = [late EXCEPT ![p] = 0]
    /\ UNCHANGED <<lock, wait, base, canceled, failed, slow>>

-------------------------------------------------------------------------------
(* Release *)

ReleaseGet(p) ==
    /\ pc[p] = "releasing"
    /\ pc' = [pc EXCEPT ![p] = IF Owns(p) THEN "deleting" ELSE "done"]
    /\ UNCHANGED <<lock, wait, refresher, timer, late, base, canceled, failed, slow>>

\* Backend.Delete asks for the key, not for the owner.
ReleaseDelete(p) ==
    /\ pc[p] = "deleting"
    /\ lock' = None
    /\ pc' = [pc EXCEPT ![p] = "done"]
    /\ UNCHANGED <<wait, refresher, timer, late, base, canceled, failed, slow>>

\* A call fails or runs into ReleaseCtxTimeout: the item stays until it expires.
ReleaseFails(p) ==
    /\ pc[p] \in {"releasing", "deleting"}
    /\ pc' = [pc EXCEPT ![p] = "done"]
    /\ UNCHANGED <<lock, wait, refresher, timer, late, base, canceled, failed, slow>>

-------------------------------------------------------------------------------
(* The refresher *)

StopRefresher(p) ==
    /\ refresher' = [refresher EXCEPT ![p] = "off"]
    /\ timer' = [timer EXCEPT ![p] = 0]
    /\ late' = [late EXCEPT ![p] = 0]

Failed(p) == failed' = IF pc[p] = "running" THEN failed \cup {p} ELSE failed

Lose_GoOn(p) == StopRefresher(p) /\ Failed(p) /\ UNCHANGED canceled

\* resetTTL fails: fn is told to stop, and nobody renews the lock any more.
Lose(p) ==
    /\ StopRefresher(p)
    /\ canceled' = canceled \cup {p}
    /\ Failed(p)

\* stopRefresh is closed. A timer that has fired as well may win the select.
RefresherStops(p) ==
    /\ refresher[p] = "timer"
    /\ pc[p] \in {"releasing", "deleting", "done"}
    /\ StopRefresher(p)
    /\ UNCHANGED <<lock, pc, wait, base, canceled, failed, slow>>

\* resetTTL reads the item, and computes its new expiry.
ResetTTLGet(p) ==
    /\ refresher[p] = "timer" /\ timer[p] = 0
    /\ \/ /\ Owns(p)
          /\ refresher' = [refresher EXCEPT ![p] = "swap"]
          /\ base' = [base EXCEPT ![p] = late[p]]
          /\ UNCHANGED <<timer, late, canceled, failed>>
       \/ /\ ~Owns(p)
          /\ Lose(p)
          /\ UNCHANGED base
    /\ UNCHANGED <<lock, pc, wait, slow>>

SwapAllowed_Put(p) == TRUE

\* Backend.CompareAndSwap compares values: the id of the owner.
SwapAllowed(p) == Owns(p)

ResetTTLSwap(p) ==
    /\ refresher[p] = "swap"
    /\ \/ /\ SwapAllowed(p)
          /\ lock' = Item(p, late[p] - base[p])
          /\ refresher' = [refresher EXCEPT ![p] = "timer"]
          /\ timer' = [timer EXCEPT ![p] = RefreshInterval]
          /\ late' = [late EXCEPT ![p] = 0]
          /\ UNCHANGED <<canceled, failed>>
       \/ /\ ~SwapAllowed(p)
          /\ Lose(p)
          /\ UNCHANGED lock
    /\ UNCHANGED <<pc, wait, base, slow>>

\* The backend fails, or the context of the caller is done.
ResetTTLFails(p) ==
    /\ Due(p)
    /\ lock' \in {lock} \cup (IF refresher[p] = "swap" /\ SwapAllowed(p)
                              THEN {Item(p, late[p] - base[p])} ELSE {})
    /\ Lose(p)
    /\ UNCHANGED <<pc, wait, base, slow>>

-------------------------------------------------------------------------------

Refresh(p) == ResetTTLGet(p) \/ ResetTTLSwap(p)

RunWhileLocked(p) ==
    \/ Acquire(p) \/ Create(p) \/ CreateExists(p) \/ AcquireFails(p)
    \/ FnReturns(p) \/ Crash(p)
    \/ ReleaseGet(p) \/ ReleaseDelete(p) \/ ReleaseFails(p)
    \/ RefresherStops(p) \/ Refresh(p) \/ ResetTTLFails(p)

Next == Tick \/ \E p \in Calls : RunWhileLocked(p)

Spec == Init /\ [][Next]_vars

\* Time passes, and goroutines are scheduled. Functions need not return.
Fairness ==
    /\ WF_vars(Tick)
    /\ \A p \in Calls :
          WF_vars(Refresh(p)) /\ WF_vars(ReleaseGet(p) \/ ReleaseDelete(p))
              /\ WF_vars(Create(p) \/ CreateExists(p))

FairSpec == Spec /\ Fairness

-------------------------------------------------------------------------------
(* Properties *)

\* Items, timers and delays keep their types; no lock outlives its TTL.
TypeOK ==
    /\ lock \in [owner : Calls, left : 1 .. TTL] \cup {None}
    /\ pc \in [Calls -> {"idle", "creating", "running", "releasing", "deleting", "done"}]
    /\ wait \in [Calls -> 0 .. MaxDelay]
    /\ refresher \in [Calls -> {"off", "timer", "swap"}]
    /\ timer \in [Calls -> 0 .. TTL]
    /\ late \in [Calls -> 0 .. MaxDelay]
    /\ base \in [Calls -> 0 .. MaxDelay]
    /\ canceled \subseteq Calls
    /\ failed \subseteq Calls
    /\ slow \in BOOLEAN

\* A function that believes it runs under the lock.
Active(p) == pc[p] = "running" /\ p \notin canceled

\* As long as nobody has fallen behind by a sixth of the TTL, and no refresh of a
\* function that runs has failed, at most one function runs under the lock and it
\* holds it, and a Release that is about to delete the key deletes its own lock.
MutualExclusion ==
    ~slow /\ failed = {} => /\ \A p, q \in Calls : Active(p) /\ Active(q) => p = q
                            /\ \A p \in Calls : Active(p) \/ pc[p] = "deleting" => Owns(p)

\* However late everybody is, a lock that is held never passes to another owner
\* directly: resetTTL does not take back a lock that was lost.
NoTakeover ==
    [][lock # None /\ lock' # None => lock'.owner = lock.owner]_lock

\* A function whose lock was lost is told to stop, or returns by itself.
LossNoticed == \A p \in Calls : (Active(p) /\ ~Owns(p)) ~> ~Active(p)
================================================================================
