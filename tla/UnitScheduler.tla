--------------------------- MODULE UnitScheduler ---------------------------
(***************************************************************************)
(* The slot pools of one cluster-sensor-service replica (unit_scheduler.go)*)
(* and the requests that draw on them: a worker of the port phase before   *)
(* each unit, the liveness sweep before each chunk.  A request takes the   *)
(* slots of its tenant first and the replica's second, waits wherever they *)
(* do not fit, and may be cancelled while it waits.                        *)
(*                                                                         *)
(* Each critical section of slotPool.mu is one action.  The channel        *)
(* p.changed is the set of requests that wait for its close: a request     *)
(* takes the channel under the lock it found the pool full under.          *)
(***************************************************************************)
EXTENDS Integers, FiniteSets

CONSTANTS
  Tenant,
  GlobalPool,              \* the replica's pool; each tenant has one of its own
  MaxUnits,                \* DISCOVERY_MAX_CONCURRENT_UNITS
  MaxUnitsPerTenant,       \* DISCOVERY_MAX_CONCURRENT_UNITS_PER_TENANT
  Request, TenantOf,       \* calls of acquire, and the tenant each is for
  Want,                    \* slots it asks for: 1, or the sweep's workers
  Stuck                    \* tenants whose scans may never end

ASSUME RequestAssumption == TenantOf \in [Request -> Tenant] /\ Want \in [Request -> Nat \ {0}]
ASSUME CapAssumption == MaxUnits \in Nat \ {0} /\ MaxUnitsPerTenant \in Nat \ {0}
ASSUME PoolAssumption == GlobalPool \notin Tenant /\ Stuck \subseteq Tenant

VARIABLES
  used,     \* slotPool.used of each pool
  at,       \* where each request is
  waiting   \* requests blocked on the channel of the pool they are at

vars == <<used, at, waiting>>

-----------------------------------------------------------------------------
AtMost(m, n) == IF m <= n THEN m ELSE n

\* unitConcurrencyFromEnv: a tenant's cap is never above the replica's.
PerTenant == AtMost(MaxUnitsPerTenant, MaxUnits)

Pools == Tenant \cup {GlobalPool}
Size(p) == IF p = GlobalPool THEN MaxUnits ELSE PerTenant

grant(want) == AtMost(AtMost(want, PerTenant), MaxUnits)

Slots(r) == grant(Want[r])

\* Variant of PoolAt: the replica's slots are taken first.
PoolAtGlobalFirst(r, stage) == IF stage = "first" THEN GlobalPool ELSE TenantOf[r]

\* The tenant's slots are taken first, the replica's second.
PoolAt(r, stage) == IF stage = "first" THEN TenantOf[r] ELSE GlobalPool

Stage == {"off", "first", "second", "held", "freeing", "over"}

TypeOK ==
  /\ used \in [Pools -> Int] /\ \A p \in Pools : used[p] <= Size(p)
  /\ at \in [Request -> Stage]
  /\ waiting \in SUBSET {r \in Request : at[r] \in {"first", "second"}}

Init ==
  /\ used = [p \in Pools |-> 0]
  /\ at = [r \in Request |-> "off"]
  /\ waiting = {}

-----------------------------------------------------------------------------
\* Variant of Fits: room for one slot is taken for room for all of them.
FitsOne(r, p) == used[p] + 1 <= Size(p)

Fits(r, p) == used[p] + Slots(r) <= Size(p)
WaitersOf(p) == {r \in waiting : PoolAt(r, at[r]) = p}

\* Variant of Woken: one waiter is woken, as by a condition variable's Signal.
WokenOne(p) ==
  IF WaitersOf(p) = {} THEN {} ELSE {CHOOSE r \in WaitersOf(p) : TRUE}

\* release closes the channel, which wakes every request that waits on it.
Woken(p) == WaitersOf(p)

Release(p, n) ==
  /\ used' = [used EXCEPT ![p] = @ - n]
  /\ waiting' = waiting \ Woken(p)

Ask(r) ==
  /\ at[r] = "off"
  /\ at' = [at EXCEPT ![r] = "first"]
  /\ UNCHANGED <<used, waiting>>

\* slotPool.acquire finds room ...
Take(r) ==
  /\ at[r] \in {"first", "second"} /\ r \notin waiting
  /\ LET p == PoolAt(r, at[r])
     IN Fits(r, p) /\ used' = [used EXCEPT ![p] = @ + Slots(r)]
  /\ at' = [at EXCEPT ![r] = IF @ = "first" THEN "second" ELSE "held"]
  /\ UNCHANGED waiting

\* ... or none, and waits for the next release.
Block(r) ==
  /\ at[r] \in {"first", "second"} /\ r \notin waiting
  /\ ~Fits(r, PoolAt(r, at[r]))
  /\ waiting' = waiting \cup {r}
  /\ UNCHANGED <<used, at>>

\* Variant of GiveUp: the slots taken first are not given back.
GiveUpKeeping(r) ==
  /\ r \in waiting
  /\ at' = [at EXCEPT ![r] = "over"]
  /\ waiting' = waiting \ {r}
  /\ UNCHANGED used

\* The context of a waiting request ends: it gives back what it has.
GiveUp(r) ==
  /\ r \in waiting
  /\ at' = [at EXCEPT ![r] = "over"]
  /\ IF at[r] = "first" THEN waiting' = waiting \ {r} /\ UNCHANGED used
     ELSE LET p == PoolAt(r, "first")
          IN /\ used' = [used EXCEPT ![p] = @ - Slots(r)]
             /\ waiting' = waiting \ (Woken(p) \cup {r})

\* The release function: the pool taken last is released first.
ReleaseSecond(r) ==
  /\ at[r] = "held"
  /\ Release(PoolAt(r, "second"), Slots(r))
  /\ at' = [at EXCEPT ![r] = "freeing"]

ReleaseFirst(r) ==
  /\ at[r] = "freeing"
  /\ Release(PoolAt(r, "first"), Slots(r))
  /\ at' = [at EXCEPT ![r] = "over"]

Next == \E r \in Request :
          Ask(r) \/ Take(r) \/ Block(r) \/ GiveUp(r) \/ ReleaseSecond(r) \/ ReleaseFirst(r)

Spec == Init /\ [][Next]_vars

\* A goroutine that can go on does, and a scan or a sweep ends, except those of
\* the stuck tenants.
Fairness == \A r \in Request :
  /\ WF_vars(Take(r) \/ Block(r))
  /\ TenantOf[r] \notin Stuck => WF_vars(ReleaseSecond(r) \/ ReleaseFirst(r))

FairSpec == Spec /\ Fairness

-----------------------------------------------------------------------------
\* The requests that hold slots of a pool, and the slots that are out, each by its
\* request and number.
Holders(p) == {r \in Request :
                 \/ at[r] = "held"    /\ p \in {TenantOf[r], GlobalPool}
                 \/ at[r] = "freeing" /\ p = PoolAt(r, "first")
                 \/ at[r] = "second"  /\ p = PoolAt(r, "first")}

Leases(p) == {lease \in Holders(p) \X (1..MaxUnits) : lease[2] <= Slots(lease[1])}

\* Every slot counted as used is held by a request under way, through waits,
\* cancels and the two halves of a release: no slot leaks, and none is lent twice.
SlotsAccounted == \A p \in Pools : used[p] = Cardinality(Leases(p))

\* No lost wakeup: a request blocked on a channel that nobody has closed would not
\* fit either (acquire reads p.changed under the lock it checked under, and release
\* wakes every waiter, though the slots may do for one of them only).
NoLostWakeup == \A r \in waiting : ~Fits(r, PoolAt(r, at[r]))

\* "A tenant waiting at its own cap never holds a global slot another tenant could
\* use": a tenant whose scans never end keeps nobody else from the slots beyond
\* its own cap; every other tenant's request gets its slots, or gives up.
OthersProceed ==
  \A r \in Request : TenantOf[r] \notin Stuck =>
    (at[r] = "first" ~> at[r] \in {"held", "over"})
=============================================================================
