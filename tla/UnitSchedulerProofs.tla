------------------------ MODULE UnitSchedulerProofs ------------------------
(***************************************************************************)
(* What the slot pools guarantee for every set of tenants and requests and *)
(* all caps.                                                               *)
(***************************************************************************)
EXTENDS UnitScheduler, FiniteSetTheorems, TLAPS

\* A request for any number of slots is granted at least one, and no more than
\* either cap allows.
LEMMA GrantBounds ==
  ASSUME NEW r \in Request
  PROVE  Slots(r) \in Nat \ {0} /\ Slots(r) <= PerTenant /\ Slots(r) <= MaxUnits
BY RequestAssumption, CapAssumption DEF Slots, grant, AtMost, PerTenant

\* The caps are numbers, and a request draws on pools there are.
LEMMA PoolFacts ==
  /\ \A p \in Pools : Size(p) \in Nat
  /\ \A r \in Request, stage \in Stage : PoolAt(r, stage) \in Pools
BY CapAssumption, RequestAssumption DEF Size, PerTenant, AtMost, PoolAt, Pools

\* No pool ever has more slots out than its cap.
LEMMA TypeStep == TypeOK /\ [Next]_vars => TypeOK'
<1> SUFFICES ASSUME TypeOK, [Next]_vars PROVE TypeOK'
  OBVIOUS
<1>1. ASSUME NEW r \in Request, Ask(r) \/ Block(r) PROVE TypeOK'
  BY <1>1 DEF Ask, Block, TypeOK, Stage
<1>2. ASSUME NEW r \in Request, Take(r) PROVE TypeOK'
  <2> DEFINE p == PoolAt(r, at[r])
  <2>1. p \in Pools /\ Slots(r) \in Nat
    BY PoolFacts, GrantBounds DEF TypeOK
  <2>2. used' = [used EXCEPT ![p] = @ + Slots(r)] /\ used[p] + Slots(r) <= Size(p)
    BY <1>2 DEF Take, Fits
  <2>3. used' \in [Pools -> Int] /\ \A q \in Pools : used'[q] <= Size(q)
    BY <2>1, <2>2 DEF TypeOK
  <2>4. at' \in [Request -> Stage] /\ \A q \in Request \ {r} : at'[q] = at[q]
    BY <1>2 DEF Take, TypeOK, Stage
  <2> QED BY <1>2, <2>3, <2>4 DEF Take, TypeOK
<1>3. ASSUME NEW r \in Request, NEW p \in Pools,
             used' = [used EXCEPT ![p] = @ - Slots(r)]
      PROVE  used' \in [Pools -> Int] /\ \A q \in Pools : used'[q] <= Size(q)
  <2>1. Slots(r) \in Nat
    BY GrantBounds
  <2>2. used[p] - Slots(r) \in Int /\ used[p] - Slots(r) <= Size(p)
    BY <2>1, PoolFacts DEF TypeOK
  <2> QED BY <1>3, <2>2 DEF TypeOK
<1>4. ASSUME NEW r \in Request, GiveUp(r) PROVE TypeOK'
  <2>1. used' \in [Pools -> Int] /\ \A q \in Pools : used'[q] <= Size(q)
    BY <1>3, <1>4, PoolFacts DEF GiveUp, TypeOK, Stage
  <2> QED BY <1>4, <2>1 DEF GiveUp, TypeOK, Stage
<1>5. ASSUME NEW r \in Request, ReleaseSecond(r) \/ ReleaseFirst(r) PROVE TypeOK'
  <2>1. used' \in [Pools -> Int] /\ \A q \in Pools : used'[q] <= Size(q)
    BY <1>3, <1>5, PoolFacts DEF ReleaseSecond, ReleaseFirst, Release, Stage
  <2> QED BY <1>5, <2>1 DEF ReleaseSecond, ReleaseFirst, Release, TypeOK, Stage
<1>6. CASE UNCHANGED vars
  BY <1>6 DEF vars, TypeOK
<1> QED BY <1>1, <1>2, <1>4, <1>5, <1>6 DEF Next

\* No tenant ever runs more than its share at once, nor the replica more than its
\* cap, however many requests are under way (slotPool.acquire).
THEOREM CapsHold == Spec => []TypeOK
<1>1. Init => TypeOK
  BY PoolFacts DEF Init, TypeOK, Stage
<1> QED BY <1>1, TypeStep, PTL DEF Spec

\* Whoever finds no room stays without room until it is woken.
LEMMA WakeupStep == TypeOK /\ NoLostWakeup /\ [Next]_vars => NoLostWakeup'
<1> SUFFICES ASSUME TypeOK, NoLostWakeup, [Next]_vars, NEW q \in Request, q \in waiting'
             PROVE  ~Fits(q, PoolAt(q, at[q]))'
  BY TypeStep DEF NoLostWakeup, TypeOK
<1> DEFINE p == PoolAt(q, at[q])
<1>1. p \in Pools /\ Size(p) \in Nat /\ Slots(q) \in Nat /\ used[p] \in Int
  BY PoolFacts, GrantBounds DEF TypeOK
\* It is enough that q stays where it is and its pool gains no room.
<1>2. ASSUME q \in waiting, at'[q] = at[q], used'[p] >= used[p], used'[p] \in Int
      PROVE  ~Fits(q, PoolAt(q, at[q]))'
  <2>1. ~(used[p] + Slots(q) <= Size(p))
    BY <1>2 DEF NoLostWakeup, Fits
  <2>2. ~(used'[p] + Slots(q) <= Size(p))
    BY <1>1, <1>2, <2>1
  <2> QED BY <1>2, <2>2 DEF Fits, PoolAt
<1>3. ASSUME NEW r \in Request, Ask(r) PROVE ~Fits(q, PoolAt(q, at[q]))'
  BY <1>1, <1>2, <1>3 DEF Ask, TypeOK
<1>4. ASSUME NEW r \in Request, Take(r) PROVE ~Fits(q, PoolAt(q, at[q]))'
  <2> DEFINE o == PoolAt(r, at[r])
  <2>1. q \in waiting /\ at'[q] = at[q]
    BY <1>4 DEF Take, TypeOK
  <2>2. used' = [used EXCEPT ![o] = @ + Slots(r)] /\ Slots(r) \in Nat
    BY <1>4, GrantBounds DEF Take
  <2>3. used'[p] >= used[p] /\ used'[p] \in Int
    BY <1>1, <2>2 DEF TypeOK
  <2> QED BY <1>2, <2>1, <2>3
<1>5. ASSUME NEW r \in Request, Block(r) PROVE ~Fits(q, PoolAt(q, at[q]))'
  <2>1. CASE q = r
    BY <1>5, <2>1 DEF Block, Fits
  <2>2. CASE q # r
    BY <1>1, <1>2, <1>5, <2>2 DEF Block
  <2> QED BY <2>1, <2>2
\* A release of a pool wakes those who wait for it and leaves the others alone.
<1>6. ASSUME NEW r \in Request, NEW o, used' = [used EXCEPT ![o] = @ - Slots(r)],
             q \in waiting, q \notin Woken(o), at'[q] = at[q]
      PROVE  ~Fits(q, PoolAt(q, at[q]))'
  <2>1. p # o
    BY <1>6 DEF Woken, WaitersOf
  <2>2. used'[p] = used[p]
    BY <1>6, <2>1, <1>1 DEF TypeOK
  <2> QED BY <1>1, <1>2, <1>6, <2>2
<1>7. ASSUME NEW r \in Request, GiveUp(r) PROVE ~Fits(q, PoolAt(q, at[q]))'
  <2>1. q \in waiting /\ q # r /\ at'[q] = at[q]
    BY <1>7 DEF GiveUp, TypeOK
  <2>2. CASE at[r] = "first"
    BY <1>1, <1>2, <1>7, <2>1, <2>2 DEF GiveUp
  <2>3. CASE at[r] # "first"
    BY <1>6, <1>7, <2>1, <2>3 DEF GiveUp
  <2> QED BY <2>2, <2>3
<1>8. ASSUME NEW r \in Request, ReleaseSecond(r) \/ ReleaseFirst(r)
      PROVE  ~Fits(q, PoolAt(q, at[q]))'
  <2>1. PICK o : Release(o, Slots(r))
    BY <1>8 DEF ReleaseSecond, ReleaseFirst
  <2>2. q \in waiting /\ q \notin Woken(o)
    BY <2>1 DEF Release
  <2>3. at'[q] = at[q]
    BY <1>8, <2>2 DEF ReleaseSecond, ReleaseFirst, TypeOK
  <2> QED BY <1>6, <2>1, <2>2, <2>3 DEF Release
<1>9. CASE UNCHANGED vars
  BY <1>1, <1>2, <1>9 DEF vars
<1> QED BY <1>3, <1>4, <1>5, <1>7, <1>8, <1>9 DEF Next

\* A request blocked on a pool would not fit, whatever was taken and released in
\* the meantime: release wakes all waiters, and nobody checks without the lock.
THEOREM NoWakeupLost == Spec => []NoLostWakeup
<1>1. Init => NoLostWakeup
  BY DEF Init, NoLostWakeup
<1> QED BY <1>1, WakeupStep, CapsHold, PTL DEF Spec

-----------------------------------------------------------------------------
(* Every slot is accounted for *)

\* The slots of one request.
Share(r) == {r} \X (1..Slots(r))

\* There are as many as it was granted.
LEMMA ShareSize ==
  ASSUME NEW r \in Request
  PROVE  IsFiniteSet(Share(r)) /\ Cardinality(Share(r)) = Slots(r)
<1>1. Slots(r) \in Nat \ {0}
  BY GrantBounds
<1>2. IsFiniteSet(1..Slots(r)) /\ Cardinality(1..Slots(r)) = Slots(r)
  BY <1>1, FS_Interval
<1>3. IsFiniteSet({r}) /\ Cardinality({r}) = 1
  BY FS_Singleton
<1>4. /\ IsFiniteSet({r} \X (1..Slots(r)))
      /\ Cardinality({r} \X (1..Slots(r))) = Cardinality({r}) * Cardinality(1..Slots(r))
  BY <1>2, <1>3, FS_Product
<1>5. Cardinality(Share(r)) = 1 * Slots(r)
  BY <1>2, <1>3, <1>4 DEF Share
<1> QED BY <1>1, <1>4, <1>5 DEF Share

\* A pool that gains a holder has its slots out as well.
LEMMA PoolGains ==
  ASSUME NEW p \in Pools, NEW r \in Request, r \notin Holders(p),
         Holders(p)' = Holders(p) \cup {r}, IsFiniteSet(Leases(p))
  PROVE  IsFiniteSet(Leases(p)') /\ Cardinality(Leases(p)') = Cardinality(Leases(p)) + Slots(r)
<1>1. Slots(r) \in Nat /\ Slots(r) <= MaxUnits /\ MaxUnits \in Nat
  BY GrantBounds, CapAssumption
<1>2. Leases(p)' = Leases(p) \cup Share(r) /\ Leases(p) \cap Share(r) = {}
  BY <1>1 DEF Leases, Share
<1>3. /\ IsFiniteSet(Leases(p) \cup Share(r))
      /\ Cardinality(Leases(p) \cup Share(r))
           = Cardinality(Leases(p)) + Cardinality(Share(r)) - Cardinality(Leases(p) \cap Share(r))
  BY ShareSize, FS_Union
<1>4. Cardinality(Leases(p) \cap Share(r)) = 0 /\ Cardinality(Leases(p)) \in Nat
  BY <1>2, FS_EmptySet, FS_CardinalityType
<1> QED BY <1>1, <1>2, <1>3, <1>4, ShareSize

\* A pool that loses a holder has its slots back.
LEMMA PoolLoses ==
  ASSUME NEW p \in Pools, NEW r \in Request, r \in Holders(p),
         Holders(p)' = Holders(p) \ {r}, IsFiniteSet(Leases(p))
  PROVE  IsFiniteSet(Leases(p)') /\ Cardinality(Leases(p)') = Cardinality(Leases(p)) - Slots(r)
<1>1. Slots(r) \in Nat /\ Slots(r) <= MaxUnits /\ MaxUnits \in Nat
  BY GrantBounds, CapAssumption
<1>2. Leases(p)' = Leases(p) \ Share(r) /\ Leases(p) \cap Share(r) = Share(r)
  BY <1>1 DEF Leases, Share
<1>3. /\ IsFiniteSet(Leases(p) \ Share(r))
      /\ Cardinality(Leases(p) \ Share(r))
           = Cardinality(Leases(p)) - Cardinality(Leases(p) \cap Share(r))
  BY FS_Difference
<1> QED BY <1>2, <1>3, ShareSize

\* Used slots are the slots that are out, and those are finitely many.
LeaseInv == \A p \in Pools : IsFiniteSet(Leases(p)) /\ used[p] = Cardinality(Leases(p))

\* What a step does to a pool: nothing, or one request takes or returns its slots.
Steady(p)     == used'[p] = used[p] /\ Holders(p)' = Holders(p)
Taken(p, r)   == /\ used'[p] = used[p] + Slots(r)
                 /\ r \notin Holders(p) /\ Holders(p)' = Holders(p) \cup {r}
Returned(p, r) == /\ used'[p] = used[p] - Slots(r)
                  /\ r \in Holders(p) /\ Holders(p)' = Holders(p) \ {r}

\* The two stages of a request take and return the slots of different pools.
LEMMA PoolStep ==
  ASSUME TypeOK, [Next]_vars, NEW p \in Pools
  PROVE  Steady(p) \/ \E r \in Request : Taken(p, r) \/ Returned(p, r)
<1>1. ASSUME NEW r \in Request, Ask(r) \/ Block(r) PROVE Steady(p)
  BY <1>1 DEF Ask, Block, Steady, Holders, PoolAt, TypeOK
<1>2. ASSUME NEW r \in Request, Take(r) PROVE Steady(p) \/ Taken(p, r)
  <2>1. TenantOf[r] \in Tenant /\ TenantOf[r] # GlobalPool
    BY RequestAssumption, PoolAssumption
  <2>2. CASE at[r] = "first"
    <3>1. at' = [at EXCEPT ![r] = "second"] /\ used' = [used EXCEPT ![TenantOf[r]] = @ + Slots(r)]
      BY <1>2, <2>2 DEF Take, PoolAt
    <3>2. CASE p = TenantOf[r]
      BY <2>2, <3>1, <3>2 DEF Taken, Holders, PoolAt, TypeOK
    <3>3. CASE p # TenantOf[r]
      BY <2>2, <3>1, <3>3 DEF Steady, Holders, PoolAt, TypeOK
    <3> QED BY <3>2, <3>3
  <2>3. CASE at[r] = "second"
    <3>1. at' = [at EXCEPT ![r] = "held"] /\ used' = [used EXCEPT ![GlobalPool] = @ + Slots(r)]
      BY <1>2, <2>3 DEF Take, PoolAt
    <3>2. CASE p = GlobalPool
      BY <2>1, <2>3, <3>1, <3>2 DEF Taken, Holders, PoolAt, TypeOK
    <3>3. CASE p # GlobalPool
      BY <2>1, <2>3, <3>1, <3>3 DEF Steady, Holders, PoolAt, TypeOK
    <3> QED BY <3>2, <3>3
  <2> QED BY <1>2, <2>2, <2>3 DEF Take
<1>3. ASSUME NEW r \in Request, at[r] \in {"second", "freeing"}, at' = [at EXCEPT ![r] = "over"],
             used' = [used EXCEPT ![TenantOf[r]] = @ - Slots(r)]
      PROVE  Steady(p) \/ Returned(p, r)
  <2>1. CASE p = TenantOf[r]
    BY <1>3, <2>1 DEF Returned, Holders, PoolAt, TypeOK
  <2>2. CASE p # TenantOf[r]
    BY <1>3, <2>2 DEF Steady, Holders, PoolAt, TypeOK
  <2> QED BY <2>1, <2>2
<1>4. ASSUME NEW r \in Request, GiveUp(r) PROVE Steady(p) \/ Returned(p, r)
  <2>1. CASE at[r] = "first"
    BY <1>4, <2>1 DEF GiveUp, Steady, Holders, PoolAt, TypeOK
  <2>2. CASE at[r] = "second"
    BY <1>3, <1>4, <2>2 DEF GiveUp, PoolAt
  <2> QED BY <1>4, <2>1, <2>2 DEF GiveUp, TypeOK
<1>5. ASSUME NEW r \in Request, ReleaseSecond(r) PROVE Steady(p) \/ Returned(p, r)
  <2>1. TenantOf[r] \in Tenant /\ TenantOf[r] # GlobalPool
    BY RequestAssumption, PoolAssumption
  <2>2. /\ at[r] = "held" /\ at' = [at EXCEPT ![r] = "freeing"]
        /\ used' = [used EXCEPT ![GlobalPool] = @ - Slots(r)]
    BY <1>5 DEF ReleaseSecond, Release, PoolAt
  <2>3. CASE p = GlobalPool
    BY <2>1, <2>2, <2>3 DEF Returned, Holders, PoolAt, TypeOK
  <2>4. CASE p # GlobalPool
    BY <2>1, <2>2, <2>4 DEF Steady, Holders, PoolAt, TypeOK
  <2> QED BY <2>3, <2>4
<1>6. ASSUME NEW r \in Request, ReleaseFirst(r) PROVE Steady(p) \/ Returned(p, r)
  BY <1>3, <1>6 DEF ReleaseFirst, Release, PoolAt
<1>7. CASE UNCHANGED vars
  BY <1>7 DEF vars, Steady, Holders
<1> QED BY <1>1, <1>2, <1>4, <1>5, <1>6, <1>7 DEF Next

\* Each step takes from the count what it takes from the slots that are out.
LEMMA LeaseStep == TypeOK /\ LeaseInv /\ [Next]_vars => LeaseInv'
<1> SUFFICES ASSUME TypeOK, LeaseInv, [Next]_vars, NEW p \in Pools
             PROVE  IsFiniteSet(Leases(p)') /\ used'[p] = Cardinality(Leases(p)')
  BY DEF LeaseInv
<1>1. IsFiniteSet(Leases(p)) /\ used[p] = Cardinality(Leases(p))
  BY DEF LeaseInv
<1>2. CASE Steady(p)
  <2>1. Leases(p)' = Leases(p)
    BY <1>2 DEF Steady, Leases
  <2> QED BY <1>1, <1>2, <2>1 DEF Steady
<1>3. ASSUME NEW r \in Request, Taken(p, r)
      PROVE  IsFiniteSet(Leases(p)') /\ used'[p] = Cardinality(Leases(p)')
  BY <1>1, <1>3, PoolGains DEF Taken
<1>4. ASSUME NEW r \in Request, Returned(p, r)
      PROVE  IsFiniteSet(Leases(p)') /\ used'[p] = Cardinality(Leases(p)')
  BY <1>1, <1>4, PoolLoses DEF Returned
<1> QED BY <1>2, <1>3, <1>4, PoolStep

LEMMA LeaseInvHolds == Spec => []LeaseInv
<1>1. Init => LeaseInv
  <2>1. ASSUME Init, NEW p \in Pools PROVE Leases(p) = {} /\ used[p] = 0
    BY <2>1 DEF Init, Leases, Holders
  <2> QED BY <2>1, FS_EmptySet DEF LeaseInv
<1> QED BY <1>1, LeaseStep, CapsHold, PTL DEF Spec

\* No slot leaks and none is lent twice: what a pool counts as used is what requests
\* under way hold of it, through waits, cancels and the two halves of a release.
THEOREM NoSlotLeaks == Spec => []SlotsAccounted
<1>1. Spec => []LeaseInv
  BY LeaseInvHolds
<1>2. LeaseInv => SlotsAccounted
  BY DEF LeaseInv, SlotsAccounted
<1> QED BY <1>1, <1>2, PTL

-----------------------------------------------------------------------------
(* No deadlock *)

\* Whoever waits for its tenant's slots waits for a request of that tenant which has
\* some; whoever waits for the replica's waits for one that has all its slots, and
\* so waits for nobody.
WaitsForHolder ==
  \A r \in waiting :
    IF at[r] = "first"
    THEN \E q \in Request : TenantOf[q] = TenantOf[r] /\ at[q] \in {"second", "held", "freeing"}
    ELSE \E q \in Request : at[q] = "held"

\* A pool that has no room for a request has a holder.
LEMMA FullHasHolder ==
  ASSUME LeaseInv, NEW r \in Request, NEW p \in Pools, Slots(r) <= Size(p), ~Fits(r, p)
  PROVE  Holders(p) # {}
<1>1. Slots(r) \in Nat /\ Size(p) \in Nat
  BY GrantBounds, PoolFacts
<1>2. Cardinality(Leases(p)) \in Nat /\ used[p] = Cardinality(Leases(p))
  BY FS_CardinalityType DEF LeaseInv
<1>3. Cardinality(Leases(p)) # 0
  BY <1>1, <1>2 DEF Fits
<1>4. Leases(p) # {}
  BY <1>3, FS_EmptySet
<1> QED BY <1>4 DEF Leases

\* The two pools are taken in one order, so that waits never form a cycle: a request
\* that waits does so for one that can go on, or for one that waits for such a one
\* (unitScheduler.acquire).
THEOREM NoDeadlock == Spec => []WaitsForHolder
<1>1. ASSUME TypeOK, LeaseInv, NoLostWakeup PROVE WaitsForHolder
  <2> SUFFICES ASSUME NEW r \in waiting
               PROVE  IF at[r] = "first"
                      THEN \E q \in Request : /\ TenantOf[q] = TenantOf[r]
                                              /\ at[q] \in {"second", "held", "freeing"}
                      ELSE \E q \in Request : at[q] = "held"
    BY DEF WaitsForHolder
  <2> DEFINE p == PoolAt(r, at[r])
  <2>1. r \in Request /\ at[r] \in {"first", "second"} /\ p \in Pools
    BY <1>1, PoolFacts DEF TypeOK, Stage
  <2>2. Slots(r) <= Size(p)
    BY <2>1, GrantBounds DEF Size
  <2>3. PICK q \in Request : q \in Holders(p)
    BY <1>1, <2>1, <2>2, FullHasHolder DEF NoLostWakeup, Holders
  <2>4. TenantOf[r] # GlobalPool /\ TenantOf[q] # GlobalPool
    BY <2>1, RequestAssumption, PoolAssumption
  <2>5. CASE at[r] = "first"
    BY <2>3, <2>4, <2>5 DEF Holders, PoolAt
  <2>6. CASE at[r] = "second"
    BY <2>3, <2>4, <2>6 DEF Holders, PoolAt
  <2> QED BY <2>1, <2>5, <2>6
<1> QED BY <1>1, LeaseInvHolds, NoWakeupLost, CapsHold, PTL
=============================================================================
