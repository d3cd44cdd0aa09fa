--------------------------- MODULE BackendLockProofs ---------------------------
(***************************************************************************)
(* For every number of calls, every TTL and every delay: the variables     *)
(* keep their types, a held lock is never taken over, and functions        *)
(* exclude each other until somebody is late.                              *)
(***************************************************************************)
EXTENDS BackendLock, TLAPS

\* What the types need to be inductive: a refresher that swaps has computed the
\* expiry before, and one whose timer runs is not late.
TypeInv ==
    /\ TypeOK
    /\ \A p \in Calls : timer[p] <= RefreshInterval
    /\ \A p \in Calls : timer[p] > 0 => late[p] = 0
    /\ \A p \in Calls : refresher[p] = "swap" => timer[p] = 0 /\ base[p] <= late[p]
    /\ \A p \in Calls : refresher[p] = "off" => timer[p] = 0 /\ late[p] = 0
    /\ \A p \in Calls : pc[p] \in {"idle", "creating"} => refresher[p] = "off"

\* Until somebody is slow, all are within the tolerance.
InTime == ~slow => \A p \in Calls : wait[p] <= Tolerance /\ late[p] <= Tolerance

\* How long a lock lasts at least. A renewed lock has lost at most one delay;
\* then the timer runs, and then the refresher is late. Once the function has
\* returned, nothing but the delay of Release counts.
Lasting(p) ==
    /\ pc[p] = "running" =>
          /\ refresher[p] # "off"
          /\ Owns(p)
          /\ lock.left + RefreshInterval + Tolerance + late[p] >= TTL + timer[p]
    /\ pc[p] \in {"releasing", "deleting"} =>
          /\ Owns(p)
          /\ lock.left + RefreshInterval + 2 * Tolerance + wait[p] >= TTL

Held == ~slow /\ failed = {} => \A p \in Calls : Lasting(p)

\* The refresh interval is at most half of the TTL.
LEMMA HalfTTL == RefreshInterval \in Nat /\ 2 * RefreshInterval <= TTL
BY TTLPositive DEF RefreshInterval

\* The slack that the tolerance leaves.
LEMMA Slack ==
    Tolerance \in Nat /\ RefreshInterval + 3 * Tolerance < TTL /\ Tolerance < TTL
<1>1. Tolerance \in Nat /\ 6 * Tolerance < TTL
  BY TTLPositive DEF Tolerance
<1> QED BY <1>1, HalfTTL, TTLPositive

\* An item is well-formed, and has lost what has passed since its expiry was computed.
LEMMA ItemLemma ==
    ASSUME NEW p \in Calls, NEW t \in Nat
    PROVE  /\ Item(p, t) \in [owner : Calls, left : 1 .. TTL] \cup {None}
           /\ Item(p, t) # None => Item(p, t).owner = p
           /\ t < TTL => /\ Item(p, t) # None
                         /\ Item(p, t).left = TTL - t
<1>1. CASE t < TTL
  <2>1. TTL - t \in 1 .. TTL
    BY <1>1, TTLPositive
  <2>2. Item(p, t) = [owner |-> p, left |-> TTL - t]
    BY <1>1 DEF Item
  <2>3. Item(p, t) \in [owner : Calls, left : 1 .. TTL]
    BY <2>1, <2>2
  <2>4. Item(p, t) # None
    BY <2>1, <2>2, NoneFresh
  <2> QED BY <1>1, <2>1, <2>2, <2>3, <2>4
<1>2. CASE ~(t < TTL)
  BY <1>2 DEF Item
<1> QED BY <1>1, <1>2

\* Nothing is held at first.
LEMMA InitInv == Init => TypeInv /\ InTime /\ Held
<1> SUFFICES ASSUME Init PROVE TypeInv /\ InTime /\ Held
  OBVIOUS
<1>1. TypeInv
  <2>1. slow \in BOOLEAN
    BY Zenon DEF Init
  <2> QED BY <2>1, HalfTTL, TTLPositive, MaxDelayNat DEF Init, TypeInv, TypeOK
<1>2. InTime
  <2>1. \A p \in Calls : wait[p] = 0 /\ late[p] = 0
    BY DEF Init
  <2>2. 0 <= Tolerance
    BY Slack
  <2> QED BY <2>1, <2>2 DEF InTime
<1>3. Held
  BY DEF Init, Held, Lasting
<1> QED BY <1>1, <1>2, <1>3

\* Every step keeps the types.
LEMMA TypeStep == TypeInv /\ [Next]_vars => TypeInv'
<1> SUFFICES ASSUME TypeInv, [Next]_vars PROVE TypeInv'
    OBVIOUS
<1> USE HalfTTL, TTLPositive, MaxDelayNat DEF TypeInv, TypeOK
<1>1. CASE Tick
  <2>1. lock' \in [owner : Calls, left : 1 .. TTL] \cup {None}
    BY <1>1 DEF Tick
  <2>2. wait' \in [Calls -> 0 .. MaxDelay]
    BY <1>1 DEF Tick
  <2>3. late' \in [Calls -> 0 .. MaxDelay]
    BY <1>1 DEF Tick
  <2>4. timer' \in [Calls -> 0 .. TTL]
    BY <1>1 DEF Tick
  <2>5. \A p \in Calls : timer'[p] <= RefreshInterval
    BY <1>1 DEF Tick
  <2>6. \A p \in Calls : timer'[p] > 0 => late'[p] = 0
    BY <1>1 DEF Tick, Due
  <2>7. \A p \in Calls : refresher'[p] = "swap" => timer'[p] = 0 /\ base'[p] <= late'[p]
    BY <1>1 DEF Tick, Due
  <2>8. \A p \in Calls : refresher'[p] = "off" => timer'[p] = 0 /\ late'[p] = 0
    BY <1>1 DEF Tick, Due
  <2> QED BY <1>1, <2>1, <2>2, <2>3, <2>4, <2>5, <2>6, <2>7, <2>8 DEF Tick
<1>2. ASSUME NEW p \in Calls, RunWhileLocked(p) PROVE TypeInv'
  <2>1. CASE Acquire(p) \/ CreateExists(p) \/ FnReturns(p)
    BY <2>1 DEF Acquire, CreateExists, FnReturns
  <2>2. CASE Create(p)
    <3>1. Item(p, wait[p]) \in [owner : Calls, left : 1 .. TTL] \cup {None}
      BY ItemLemma
    <3>2. lock' \in [owner : Calls, left : 1 .. TTL] \cup {None}
      BY <2>2, <3>1 DEF Create
    <3>3. late[p] \in Nat /\ RefreshInterval \in 0 .. TTL
      OBVIOUS
    <3>4. timer' \in [Calls -> 0 .. TTL] /\ timer'[p] = RefreshInterval
      BY <2>2, <3>3 DEF Create
    <3> QED BY <2>2, <3>2, <3>4 DEF Create
  <2>3. CASE AcquireFails(p)
    <3>1. Item(p, wait[p]) \in [owner : Calls, left : 1 .. TTL] \cup {None}
      BY ItemLemma
    <3>2. lock' \in [owner : Calls, left : 1 .. TTL] \cup {None}
      BY <2>3, <3>1 DEF AcquireFails
    <3> QED BY <2>3, <3>2 DEF AcquireFails
  <2>4. CASE Crash(p)
    BY <2>4 DEF Crash
  <2>5. CASE ReleaseGet(p) \/ ReleaseDelete(p) \/ ReleaseFails(p)
    BY <2>5 DEF ReleaseGet, ReleaseDelete, ReleaseFails
  <2>6. CASE RefresherStops(p)
    BY <2>6 DEF RefresherStops, StopRefresher
  <2>7. CASE ResetTTLGet(p)
    BY <2>7 DEF ResetTTLGet, Lose, StopRefresher, Failed
  <2>8. refresher[p] = "swap" => Item(p, late[p] - base[p]) \in [owner : Calls, left : 1 .. TTL] \cup {None}
    <3>1. refresher[p] = "swap" => late[p] - base[p] \in Nat
      OBVIOUS
    <3> QED BY <3>1, ItemLemma
  <2>9. CASE ResetTTLSwap(p)
    BY <2>8, <2>9 DEF ResetTTLSwap, Lose, StopRefresher, Failed
  <2>10. CASE ResetTTLFails(p)
    BY <2>8, <2>10 DEF ResetTTLFails, Lose, StopRefresher, Failed, Due
  <2> QED BY <1>2, <2>1, <2>2, <2>3, <2>4, <2>5, <2>6, <2>7, <2>9, <2>10 DEF RunWhileLocked, Refresh
<1>3. CASE UNCHANGED vars
  BY <1>3 DEF vars
<1> QED BY <1>1, <1>2, <1>3 DEF Next

\* Every step keeps the delays within the tolerance, or is slow.
LEMMA InTimeStep == TypeInv /\ InTime /\ [Next]_vars => InTime'
<1> SUFFICES ASSUME TypeInv, InTime, [Next]_vars, ~slow', NEW q \in Calls
             PROVE  wait'[q] <= Tolerance /\ late'[q] <= Tolerance
    BY DEF InTime
<1>1. CASE Tick
  <2>1. wait'[q] \in Nat /\ late'[q] \in Nat
    BY <1>1, MaxDelayNat DEF Tick, TypeInv, TypeOK
  <2>2. ~(wait'[q] > Tolerance) /\ ~(late'[q] > Tolerance)
    BY <1>1 DEF Tick
  <2> QED BY <2>1, <2>2, Slack
<1>2. ASSUME NEW p \in Calls, RunWhileLocked(p)
      PROVE  wait'[q] <= Tolerance /\ late'[q] <= Tolerance
  <2>1. slow' = slow /\ wait'[q] \in {wait[q], 0} /\ late'[q] \in {late[q], 0}
    BY <1>2 DEF RunWhileLocked, Acquire, Create, CreateExists, AcquireFails, FnReturns,
                Crash, ReleaseGet, ReleaseDelete, ReleaseFails, RefresherStops, Refresh,
                ResetTTLGet, ResetTTLSwap, ResetTTLFails, Lose, StopRefresher, TypeInv, TypeOK
  <2>2. wait[q] <= Tolerance /\ late[q] <= Tolerance
    BY <2>1 DEF InTime
  <2>3. 0 <= Tolerance
    BY Slack
  <2> QED BY <2>1, <2>2, <2>3
<1>3. CASE UNCHANGED vars
  BY <1>3 DEF vars, InTime
<1> QED BY <1>1, <1>2, <1>3 DEF Next

\* Every step keeps a lock that is held lasting.
LEMMA HeldStep == TypeInv /\ InTime /\ InTime' /\ Held /\ [Next]_vars => Held'
<1> SUFFICES ASSUME TypeInv, InTime, InTime', Held, [Next]_vars, ~slow', failed' = {}
             PROVE  \A q \in Calls : Lasting(q)'
    BY DEF Held
<1> DEFINE I == RefreshInterval
<1>1. /\ I \in Nat /\ TTL \in Nat /\ Tolerance \in Nat
      /\ I + 3 * Tolerance < TTL /\ Tolerance < TTL
  BY HalfTTL, Slack, TTLPositive
<1> HIDE DEF I
<1>2. ~slow /\ failed = {}
  <2>1. ASSUME NEW p \in Calls, RunWhileLocked(p) PROVE ~slow /\ failed = {}
    BY <2>1 DEF RunWhileLocked, Acquire, Create, CreateExists, AcquireFails, FnReturns,
                Crash, ReleaseGet, ReleaseDelete, ReleaseFails, RefresherStops, Refresh,
                ResetTTLGet, ResetTTLSwap, ResetTTLFails, Lose, Failed
  <2>2. CASE Tick
    <3>1. ~slow
      BY <2>2, Zenon DEF Tick
    <3> QED BY <2>2, <3>1 DEF Tick
  <2>3. CASE UNCHANGED vars
    BY <2>3 DEF vars
  <2> QED BY <2>1, <2>2, <2>3 DEF Next
<1>3. \A q \in Calls :
         /\ late[q] \in Nat /\ late[q] <= Tolerance
         /\ base[q] \in Nat
         /\ wait[q] \in Nat /\ wait[q] <= Tolerance
         /\ timer[q] \in Nat /\ timer[q] <= I
         /\ timer[q] > 0 => late[q] = 0
         /\ refresher[q] = "swap" => timer[q] = 0 /\ base[q] <= late[q]
         /\ refresher[q] \in {"off", "timer", "swap"}
  BY <1>1, <1>2 DEF TypeInv, TypeOK, InTime, I
<1>4. /\ pc \in [Calls -> {"idle", "creating", "running", "releasing", "deleting", "done"}]
      /\ wait = [x \in Calls |-> wait[x]] /\ timer = [x \in Calls |-> timer[x]]
      /\ late = [x \in Calls |-> late[x]] /\ refresher = [x \in Calls |-> refresher[x]]
  BY DEF TypeInv, TypeOK
<1>5. \A q \in Calls :
         /\ pc[q] = "running" =>
               /\ refresher[q] # "off" /\ Owns(q)
               /\ lock.left + I + Tolerance + late[q] >= TTL + timer[q]
         /\ pc[q] \in {"releasing", "deleting"} =>
               Owns(q) /\ lock.left + I + 2 * Tolerance + wait[q] >= TTL
  BY <1>2 DEF Held, Lasting, I
<1>6. ASSUME lock # None
      PROVE  /\ lock \in [owner : Calls, left : 1 .. TTL]
             /\ lock.left \in Nat
             /\ lock.left > 1 /\ Tick =>
                   lock' # None /\ lock'.owner = lock.owner /\ lock'.left = lock.left - 1
  <2>1. lock \in [owner : Calls, left : 1 .. TTL] /\ lock.left \in 1 .. TTL
    BY <1>6 DEF TypeInv, TypeOK
  <2>2. ASSUME lock.left > 1, Tick
        PROVE  lock' # None /\ lock'.owner = lock.owner /\ lock'.left = lock.left - 1
    <3>1. lock' = [lock EXCEPT !.left = @ - 1]
      BY <1>6, <2>1, <2>2 DEF Tick
    <3>2. lock.left - 1 \in Nat
      BY <1>1, <2>1
    <3>3. lock' \in [owner : Calls, left : Nat] /\ lock'.owner = lock.owner
             /\ lock'.left = lock.left - 1
      BY <2>1, <3>1, <3>2
    <3> QED BY <3>3, NoneFresh
  <2> QED BY <1>1, <2>1, <2>2
<1>7. CASE Tick
  <2> SUFFICES ASSUME NEW q \in Calls PROVE Lasting(q)'
      OBVIOUS
  <2>1. pc' = pc /\ refresher' = refresher
    BY <1>7 DEF Tick
  <2>2. /\ late[q] \in Nat /\ late[q] <= Tolerance /\ wait[q] \in Nat
        /\ timer[q] \in Nat /\ timer[q] <= I /\ (timer[q] > 0 => late[q] = 0)
        /\ refresher[q] \in {"off", "timer", "swap"}
    BY <1>3
  <2>3. /\ timer'[q] = IF timer[q] > 0 THEN timer[q] - 1 ELSE 0
        /\ late'[q] = IF Due(q) THEN late[q] + 1 ELSE late[q]
        /\ Due(q) => late[q] < Tolerance
    <3>1. late'[q] <= Tolerance
      BY DEF InTime
    <3> QED BY <1>1, <1>7, <2>2, <3>1 DEF Tick
  <2>4. CASE pc[q] = "running"
    <3>1. /\ refresher[q] # "off" /\ Owns(q) /\ lock # None
          /\ lock.left + I + Tolerance + late[q] >= TTL + timer[q]
      BY <1>5, <2>4 DEF Owns
    <3>2. Due(q) <=> timer[q] = 0
      BY <2>2, <3>1 DEF Due
    <3>3. lock.left \in Nat
      BY <1>6, <3>1
    <3>4. lock.left > 1
      BY <1>1, <2>2, <2>3, <3>1, <3>2, <3>3
    <3>5. lock' # None /\ lock'.owner = lock.owner /\ lock'.left = lock.left - 1
      BY <1>6, <1>7, <3>1, <3>4
    <3>6. lock'.left + I + Tolerance + late'[q] >= TTL + timer'[q]
      BY <1>1, <2>2, <2>3, <3>1, <3>2, <3>3, <3>5
    <3> QED BY <2>1, <2>4, <3>1, <3>5, <3>6 DEF Lasting, Owns, I
  <2>5. CASE pc[q] \in {"releasing", "deleting"}
    <3>1. Owns(q) /\ lock # None /\ lock.left + I + 2 * Tolerance + wait[q] >= TTL
      BY <1>5, <2>5 DEF Owns
    <3>2. wait[q] < Tolerance /\ wait'[q] = wait[q] + 1
      <4>1. wait'[q] = wait[q] + 1 /\ wait'[q] <= Tolerance
        BY <1>7, <2>5 DEF Tick, Waiting, InTime
      <4> QED BY <1>1, <2>2, <4>1
    <3>3. lock.left \in Nat
      BY <1>6, <3>1
    <3>4. lock.left > 1
      BY <1>1, <2>2, <3>1, <3>2, <3>3
    <3>5. lock' # None /\ lock'.owner = lock.owner /\ lock'.left = lock.left - 1
      BY <1>6, <1>7, <3>1, <3>4
    <3>6. lock'.left + I + 2 * Tolerance + wait'[q] >= TTL
      BY <1>1, <2>2, <3>1, <3>2, <3>3, <3>5
    <3> QED BY <2>1, <2>5, <3>1, <3>5, <3>6 DEF Lasting, Owns, I
  <2> QED BY <2>1, <2>4, <2>5 DEF Lasting
<1>8. ASSUME NEW p \in Calls, RunWhileLocked(p), NEW q \in Calls PROVE Lasting(q)'
  <2>1. /\ late[q] \in Nat /\ late[q] <= Tolerance /\ wait[q] \in Nat /\ wait[q] <= Tolerance
        /\ timer[q] \in Nat /\ timer[q] <= I
    BY <1>3
  <2>2. /\ Owns(p) /\ Owns(q) => p = q
        /\ lock = None => pc[q] \notin {"running", "releasing", "deleting"}
        /\ Owns(p) /\ p # q => pc[q] \notin {"running", "releasing", "deleting"}
    BY <1>5 DEF Owns
  <2>3. CASE Acquire(p) \/ CreateExists(p)
    BY <1>4, <1>5, <2>3 DEF Acquire, CreateExists, Lasting, Owns, I
  <2>4. CASE Create(p)
    <3>1. CASE q # p
      BY <1>4, <2>2, <2>4, <3>1 DEF Create, Lasting
    <3>2. CASE q = p
      <4>1. /\ lock' = Item(q, wait[q]) /\ pc'[q] = "running" /\ refresher'[q] = "timer"
            /\ timer'[q] = I /\ late'[q] = late[q]
        BY <1>4, <2>4, <3>2 DEF Create, I
      <4>2. wait[q] < TTL
        BY <1>1, <2>1
      <4>3. lock' # None /\ lock'.owner = q /\ lock'.left = TTL - wait[q]
        BY <2>1, <4>1, <4>2, ItemLemma
      <4>4. lock'.left + I + Tolerance + late'[q] >= TTL + timer'[q]
        BY <1>1, <2>1, <4>1, <4>3
      <4> QED BY <4>1, <4>3, <4>4 DEF Lasting, Owns, I
    <3> QED BY <3>1, <3>2
  <2>5. CASE AcquireFails(p)
    <3>1. CASE lock' = lock
      BY <1>4, <1>5, <2>5, <3>1 DEF AcquireFails, Lasting, Owns, I
    <3>2. CASE lock' # lock
      BY <1>4, <2>2, <2>5, <3>2 DEF AcquireFails, Lasting
    <3> QED BY <3>1, <3>2
  <2>6. CASE FnReturns(p)
    <3>1. CASE q # p
      BY <1>4, <1>5, <2>6, <3>1 DEF FnReturns, Lasting, Owns, I
    <3>2. CASE q = p
      <4>1. /\ lock' = lock /\ pc'[q] = "releasing" /\ wait'[q] = 0
            /\ Owns(q) /\ lock # None /\ lock.left + I + Tolerance + late[q] >= TTL + timer[q]
        BY <1>4, <1>5, <2>6, <3>2 DEF FnReturns, Owns
      <4>2. lock.left \in Nat
        BY <1>6, <4>1
      <4>3. lock.left + I + 2 * Tolerance + 0 >= TTL
        BY <1>1, <2>1, <4>1, <4>2
      <4> QED BY <4>1, <4>3 DEF Lasting, Owns, I
    <3> QED BY <3>1, <3>2
  <2>7. CASE Crash(p)
    BY <1>4, <1>5, <2>7 DEF Crash, Lasting, Owns, I
  <2>8. CASE ReleaseGet(p) \/ ReleaseFails(p)
    BY <1>4, <1>5, <2>8 DEF ReleaseGet, ReleaseFails, Lasting, Owns, I
  <2>9. CASE ReleaseDelete(p)
    BY <1>4, <1>5, <2>2, <2>9 DEF ReleaseDelete, Lasting
  <2>10. ASSUME Lose(p), UNCHANGED <<lock, pc, wait>> PROVE Lasting(q)'
    <3>1. pc[p] # "running"
      BY <2>10 DEF Lose, Failed
    <3> QED BY <1>4, <1>5, <2>10, <3>1 DEF Lose, StopRefresher, Lasting, Owns, I
  <2>11. CASE RefresherStops(p)
    BY <1>4, <1>5, <2>11 DEF RefresherStops, StopRefresher, Lasting, Owns, I
  <2>12. CASE ResetTTLGet(p)
    <3>1. CASE Lose(p)
      BY <2>10, <2>12, <3>1 DEF ResetTTLGet
    <3>2. CASE ~Lose(p)
      BY <1>4, <1>5, <2>12, <3>2 DEF ResetTTLGet, Lasting, Owns, I
    <3> QED BY <3>1, <3>2
  <2>13. ASSUME refresher[p] = "swap", Owns(p), lock' = Item(p, late[p] - base[p]),
                UNCHANGED <<pc, wait>>, p = q
         PROVE  Owns(q)' /\ lock'.left \in Nat /\ lock'.left + Tolerance >= TTL
    <3>1. /\ late[p] \in Nat /\ base[p] \in Nat /\ late[p] <= Tolerance /\ base[p] <= late[p]
      BY <1>3, <2>13
    <3>2. late[p] - base[p] \in Nat /\ late[p] - base[p] <= Tolerance
      BY <1>1, <3>1
    <3>3. late[p] - base[p] < TTL
      BY <1>1, <3>2
    <3>4. lock' # None /\ lock'.owner = p /\ lock'.left = TTL - (late[p] - base[p])
      BY <2>13, <3>2, <3>3, ItemLemma
    <3>5. lock'.left \in Nat /\ lock'.left + Tolerance >= TTL
      BY <1>1, <3>2, <3>3, <3>4
    <3> QED BY <2>13, <3>4, <3>5 DEF Owns
  <2>14. CASE ResetTTLSwap(p)
    <3>1. CASE ~Owns(p)
      BY <2>10, <2>14, <3>1 DEF ResetTTLSwap, SwapAllowed
    <3>2. CASE Owns(p)
      <4>1. /\ refresher[p] = "swap" /\ lock' = Item(p, late[p] - base[p])
            /\ UNCHANGED <<pc, wait>>
            /\ refresher'[p] = "timer" /\ timer'[p] = I /\ late'[p] = 0
        BY <1>4, <2>14, <3>2 DEF ResetTTLSwap, SwapAllowed, I
      <4>2. CASE p # q
        BY <2>2, <3>2, <4>1, <4>2 DEF Lasting
      <4>3. CASE p = q
        <5>1. Owns(q)' /\ lock'.left \in Nat /\ lock'.left + Tolerance >= TTL
          BY <2>13, <3>2, <4>1, <4>3
        <5>2. lock'.left + I + Tolerance + 0 >= TTL + I
          BY <1>1, <5>1
        <5>3. lock'.left + I + 2 * Tolerance + wait[q] >= TTL
          BY <1>1, <2>1, <5>1
        <5> QED BY <4>1, <4>3, <5>1, <5>2, <5>3 DEF Lasting, I
      <4> QED BY <4>2, <4>3
    <3> QED BY <3>1, <3>2
  <2>15. CASE ResetTTLFails(p)
    <3>1. CASE lock' = lock
      BY <2>10, <2>15, <3>1 DEF ResetTTLFails
    <3>2. CASE lock' # lock
      <4>1. /\ refresher[p] = "swap" /\ Owns(p) /\ lock' = Item(p, late[p] - base[p])
            /\ UNCHANGED <<pc, wait>> /\ pc[p] # "running"
        BY <2>15, <3>2 DEF ResetTTLFails, SwapAllowed, Lose, Failed
      <4>2. CASE p # q
        BY <2>2, <4>1, <4>2 DEF Lasting
      <4>3. CASE p = q
        <5>1. Owns(q)' /\ lock'.left \in Nat /\ lock'.left + Tolerance >= TTL
          BY <2>13, <4>1, <4>3
        <5>2. lock'.left + I + 2 * Tolerance + wait[q] >= TTL
          BY <1>1, <2>1, <5>1
        <5> QED BY <4>1, <4>3, <5>1, <5>2 DEF Lasting, I
      <4> QED BY <4>2, <4>3
    <3> QED BY <3>1, <3>2
  <2> QED BY <1>8, <2>3, <2>4, <2>5, <2>6, <2>7, <2>8, <2>9, <2>11, <2>12, <2>14, <2>15
      DEF RunWhileLocked, Refresh
<1>9. CASE UNCHANGED vars
  BY <1>5, <1>9 DEF vars, Lasting, Owns, I
<1> QED BY <1>7, <1>8, <1>9 DEF Next

\* Items, timers and delays keep their types, however late everybody is: in
\* particular no refresh writes a lock that outlives its TTL (resetTTL).
THEOREM TypeCorrect == Spec => []TypeOK
<1>1. TypeInv => TypeOK
  BY DEF TypeInv
<1> QED BY <1>1, InitInv, TypeStep, PTL DEF Spec

\* Until somebody has fallen behind by a sixth of the TTL or a refresh has failed,
\* at most one function of RunWhileLocked runs under the lock and it holds it, and
\* no Release deletes the lock of somebody else.
THEOREM LockExcludes == Spec => []MutualExclusion
<1>1. TypeInv /\ Held => MutualExclusion
  BY DEF Held, Lasting, MutualExclusion, Active, Owns
<1> QED BY <1>1, InitInv, TypeStep, InTimeStep, HeldStep, PTL DEF Spec

\* However late everybody is, no step of any call hands a held lock to another
\* owner.
THEOREM NeverTakenOver == Spec => NoTakeover
<1>1. TypeInv /\ [Next]_vars => [lock # None /\ lock' # None => lock'.owner = lock.owner]_lock
  <2> SUFFICES ASSUME TypeInv, [Next]_vars, lock # None, lock' # None, lock' # lock
               PROVE  lock'.owner = lock.owner
      OBVIOUS
  <2>1. lock \in [owner : Calls, left : 1 .. TTL]
    BY DEF TypeInv, TypeOK
  <2>2. CASE Tick
    BY <2>1, <2>2 DEF Tick
  <2>3. ASSUME NEW p \in Calls, RunWhileLocked(p) PROVE lock'.owner = lock.owner
    <3>1. CASE ResetTTLSwap(p) \/ ResetTTLFails(p)
      <4>1. Owns(p) /\ lock' = Item(p, late[p] - base[p]) /\ refresher[p] = "swap"
        BY <3>1 DEF ResetTTLSwap, ResetTTLFails, SwapAllowed
      <4>2. late[p] - base[p] \in Nat
        BY <4>1, MaxDelayNat DEF TypeInv, TypeOK
      <4> QED BY <4>1, <4>2, ItemLemma DEF Owns
    <3>2. CASE ~(ResetTTLSwap(p) \/ ResetTTLFails(p))
      BY <2>3, <3>2 DEF RunWhileLocked, Acquire, Create, CreateExists, AcquireFails, FnReturns,
                  Crash, ReleaseGet, ReleaseDelete, ReleaseFails, RefresherStops, Refresh,
                  ResetTTLGet
    <3> QED BY <3>1, <3>2
  <2> QED BY <2>2, <2>3 DEF Next, vars
<1> QED BY <1>1, InitInv, TypeStep, PTL DEF Spec, NoTakeover
================================================================================
