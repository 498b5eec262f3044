----------------------------- MODULE PoolProofs -----------------------------
(***************************************************************************)
(* Theorems about the pool for any array and any machine whose processors  *)
(* fit it: whatever could not be allocated and whatever processors are     *)
(* added on the way, everything is freed, and once.                        *)
(***************************************************************************)
EXTENDS Pool, TLAPS

-----------------------------------------------------------------------------
(* Blocks and who holds them                                                  *)

\* A block tells what it is: a vcpu, a page, the table and the callable are never the
\* same block, and neither is null.
LEMMA KindsDiffer ==
  ASSUME NEW c, NEW d, NEW p \in Pages
  PROVE  /\ Vcpu(c) \notin {Null, Ept, PageTable, Callable, <<p, d>>}
         /\ <<p, d>> \notin {Null, Ept, PageTable, Callable}
         /\ Null \notin {Ept, PageTable, Callable}
         /\ Callable \notin {Ept, PageTable}
         /\ Ept # PageTable
BY DEF Vcpu, Pages, Null, Ept, PageTable, Callable

\* A vcpu and its pages tell which processor they were allocated for.
LEMMA BlocksOfOneCore ==
  ASSUME NEW c, NEW d, NEW x \in {Vcpu(c)} \cup PagesOf(c), x \in {Vcpu(d)} \cup PagesOf(d)
  PROVE  c = d
BY DEF Vcpu, PagesOf, Pages

\* On a machine that fits the array the EPT is the last member, and each processor has
\* its element before it.
LEMMA MembersOfTheArray ==
  ASSUME FitsArray
  PROVE  /\ Members = 0 .. MaxCpus
         /\ MaxCpus \in Nat \ {0}
         /\ Largest \in Nat
         /\ Cpus \subseteq Members \ {MaxCpus}
BY PoolAssumption DEF FitsArray, Members, Cpus

\* An element of the array that is not null is the vcpu of an existing processor.
LEMMA ElementIsVcpu ==
  ASSUME FitsArray, PoolInv, NEW k \in Members, k # MaxCpus, member[k] # Null
  PROVE  member[k] = Vcpu(k) /\ k \in Cpus
<1>1. member[k] = Vcpu(k) /\ Vcpu(k) \in Blocks
  BY DEF PoolInv, PoolTypeOK
<1>2. \A c \in Cpus : Vcpu(k) \notin PagesOf(c)
  BY KindsDiffer DEF PagesOf
<1>3. PICK c \in Cpus : Vcpu(k) = Vcpu(c)
  BY <1>1, <1>2, KindsDiffer DEF Blocks, Pages
<1>4. QED
  BY <1>1, <1>3, BlocksOfOneCore

\* What goes with a member are blocks of the pool, never null and never a callable.
LEMMA HoldingIsBlocks ==
  ASSUME FitsArray, PoolInv, NEW k \in Members, NEW x \in Holding(k)
  PROVE  x \in Blocks /\ x \notin {Null, Callable}
<1>1. CASE k = MaxCpus
  BY <1>1, KindsDiffer DEF Holding, Blocks, Pages
<1>2. CASE k # MaxCpus
  <2>1. k \in Cpus /\ x \in {Vcpu(k)} \cup PagesOf(k)
    BY <1>2, ElementIsVcpu DEF Holding
  <2>2. QED
    BY <2>1, KindsDiffer DEF Blocks, PagesOf, Pages
<1>3. QED
  BY <1>1, <1>2

\* No block goes with two members.
LEMMA HoldersDiffer ==
  ASSUME FitsArray, PoolInv, NEW j \in Members, NEW k \in Members,
         NEW x \in Holding(j), x \in Holding(k)
  PROVE  j = k
<1>1. \A i : x \in {Vcpu(i)} \cup PagesOf(i) => x \notin {Ept, PageTable}
  BY KindsDiffer DEF PagesOf, Pages
<1>2. QED
  BY <1>1, BlocksOfOneCore DEF Holding

\* Deleting an element of the array deletes exactly what goes with it; null is passed over.
LEMMA OwnedIsHeld ==
  ASSUME FitsArray, PoolInv, NEW k \in Members, k # MaxCpus
  PROVE  OwnedBy(member[k]) \ {Null} = Holding(k)
<1>1. CASE member[k] = Null
  <2>1. \A c \in Cpus : Null # Vcpu(c)
    BY KindsDiffer DEF Pages
  <2>2. QED
    BY <1>1, <2>1 DEF OwnedBy, Holding
<1>2. CASE member[k] # Null
  <2>1. member[k] = Vcpu(k) /\ k \in Cpus /\ Vcpu(k)[2] = k
    BY <1>2, ElementIsVcpu DEF Vcpu
  <2>2. OwnedBy(member[k]) = {Vcpu(k)} \cup PagesOf(k)
    BY <2>1 DEF OwnedBy
  <2>3. Null \notin {Vcpu(k)} \cup PagesOf(k)
    BY KindsDiffer DEF PagesOf, Pages
  <2>4. QED
    BY <1>2, <2>2, <2>3 DEF Holding
<1>3. QED
  BY <1>1, <1>2

\* A member that is not written keeps what goes with it.
LEMMA UnwrittenHoldsSame ==
  ASSUME NEW k, member'[k] = member[k]
  PROVE  Holding(k)' = Holding(k)
BY DEF Holding

-----------------------------------------------------------------------------
(* The steps of hv_t                                                          *)

\* Before the first hv_t nothing is allocated.
LEMMA PoolInitInv ==
  ASSUME FitsArray, PoolInit
  PROVE  PoolInv
BY PoolAssumption DEF PoolInit, PoolInv, PoolTypeOK, HeapIsHeld, InUse, InFlight

\* The constructor writes null over the pointers of an object that is gone.
LEMMA BeginConstructInv ==
  ASSUME FitsArray, PoolInv, BeginConstruct
  PROVE  PoolInv'
<1>1. heap = {}
  BY DEF PoolInv, HeapIsHeld, BeginConstruct, InUse, InFlight
<1>2. HeapIsHeld'
  BY <1>1 DEF BeginConstruct, HeapIsHeld, InUse, InFlight
<1>3. PoolTypeOK'
  BY DEF PoolInv, PoolTypeOK, BeginConstruct
<1>4. QED
  BY <1>2, <1>3, MembersOfTheArray DEF PoolInv, PoolTypeOK, BeginConstruct

\* A round of the loop fills the element of its processor, or leaves it null.
LEMMA AllocateVcpuInv ==
  ASSUME FitsArray, PoolInv, AllocateVcpu
  PROVE  PoolInv'
<1>1. core \in Cpus /\ core \in Members /\ core # MaxCpus /\ core' = core + 1 /\ core \in Nat
  BY MembersOfTheArray DEF PoolInv, PoolTypeOK, AllocateVcpu, Cpus
<1>2. PICK p \in {Null, Vcpu(core)} :
        /\ member' = [member EXCEPT ![core] = p]
        /\ heap' = heap \cup (IF p = Null THEN {} ELSE {Vcpu(core)} \cup PagesOf(core))
  <2>1. Vcpu(core) # Null
    BY KindsDiffer DEF Pages
  <2>2. QED
    BY <2>1 DEF AllocateVcpu, SlotOf
<1>3. PoolTypeOK'
  <2>1. Vcpu(core) \in Blocks /\ PagesOf(core) \subseteq Blocks
    BY <1>1 DEF Blocks
  <2>2. QED
    BY <1>1, <1>2, <2>1 DEF PoolInv, PoolTypeOK, AllocateVcpu
<1>4. HeapIsHeld'
  <2>1. heap = UNION {Holding(k) : k \in 0 .. core - 1}
    BY DEF PoolInv, HeapIsHeld, AllocateVcpu, InUse, InFlight
  <2>2. PICK c \in Members : c = core
    BY <1>1
  <2>3. heap' = heap \cup Holding(c)'
    <3>1. member'[c] = p
      BY <1>1, <1>2, <2>2 DEF PoolInv, PoolTypeOK
    <3>2. QED
      BY <1>1, <1>2, <2>2, <3>1 DEF Holding
  <2>4. \A k \in 0 .. core - 1 : Holding(k)' = Holding(k)
    BY <1>1, <1>2, UnwrittenHoldsSame DEF PoolInv, PoolTypeOK
  <2>5. 0 .. core' - 1 = (0 .. core - 1) \cup {c}
    BY <1>1, <2>2
  <2>6. UNION {Holding(k)' : k \in (0 .. core - 1) \cup {c}}
          = (UNION {Holding(k)' : k \in 0 .. core - 1}) \cup Holding(c)'
    OBVIOUS
  <2>7. UNION {Holding(k)' : k \in 0 .. core - 1} = heap
    BY <2>1, <2>4
  <2>8. heap' = UNION {Holding(k)' : k \in 0 .. core' - 1}
    BY <2>3, <2>5, <2>6, <2>7
  <2>9. QED
    BY <2>8 DEF AllocateVcpu, HeapIsHeld, InUse, InFlight
<1>5. QED
  BY <1>1, <1>2, <1>3, <1>4 DEF PoolInv, PoolTypeOK, AllocateVcpu

\* With the EPT the object is complete: what the loop did not reach is null.
LEMMA AllocateEptInv ==
  ASSUME FitsArray, PoolInv, AllocateEpt
  PROVE  PoolInv'
<1>1. MaxCpus \in Members /\ core \in Nat /\ core <= count /\ count <= MaxCpus /\ count \in Nat
  BY MembersOfTheArray DEF PoolInv, PoolTypeOK, AllocateEpt, FitsArray
<1>2. PICK p \in {Null, Ept} :
        /\ member' = [member EXCEPT ![MaxCpus] = p]
        /\ heap' = heap \cup (IF p = Null THEN {} ELSE {Ept, PageTable})
  <2>1. Ept # Null
    BY KindsDiffer DEF Pages
  <2>2. QED
    BY <2>1 DEF AllocateEpt
<1>3. PoolTypeOK'
  BY <1>1, <1>2 DEF PoolInv, PoolTypeOK, AllocateEpt, Blocks
<1>4. HeapIsHeld'
  <2>1. heap = UNION {Holding(k) : k \in 0 .. core - 1}
    BY DEF PoolInv, HeapIsHeld, AllocateEpt, InUse, InFlight
  <2>2. heap' = heap \cup Holding(MaxCpus)'
    BY <1>1, <1>2 DEF Holding, PoolInv, PoolTypeOK
  <2>3. \A k \in Members \ {MaxCpus} : Holding(k)' = Holding(k)
    BY <1>1, <1>2, UnwrittenHoldsSame DEF PoolInv, PoolTypeOK
  <2>4. \A k \in Members : k >= core => Holding(k) = {}
    BY DEF PoolInv, AllocateEpt, Holding
  <2>5. \A k \in Members : k < core => k \in 0 .. core - 1
    BY <1>1, MembersOfTheArray
  <2>6. 0 .. core - 1 \subseteq Members \ {MaxCpus}
    BY <1>1, MembersOfTheArray
  <2>7. \A k \in Members : k < core \/ k >= core
    BY <1>1, MembersOfTheArray
  <2>8. heap = UNION {Holding(k) : k \in Members \ {MaxCpus}}
    BY <2>1, <2>4, <2>5, <2>6, <2>7
  <2>9. heap = UNION {Holding(k)' : k \in Members \ {MaxCpus}}
    BY <2>3, <2>8
  <2>10. heap' = UNION {Holding(k)' : k \in Members}
    BY <1>1, <2>2, <2>9
  <2>11. QED
    BY <2>10 DEF AllocateEpt, HeapIsHeld, InUse, InFlight
<1>5. QED
  BY <1>1, <1>2, <1>3, <1>4 DEF PoolInv, PoolTypeOK, AllocateEpt

\* A broadcast adds its callable and takes it away again.
LEMMA BroadcastInv ==
  ASSUME FitsArray, PoolInv, BeginBroadcast \/ EndBroadcast
  PROVE  PoolInv'
<1>1. CASE BeginBroadcast
  BY <1>1, UnwrittenHoldsSame DEF PoolInv, PoolTypeOK, BeginBroadcast, HeapIsHeld, InUse,
     InFlight, Blocks, Holding
<1>2. CASE EndBroadcast
  <2>1. heap = (UNION {Holding(k) : k \in Members}) \cup {Callable}
    BY <1>2 DEF PoolInv, EndBroadcast, HeapIsHeld, InUse, InFlight
  <2>2. heap' = UNION {Holding(k) : k \in Members}
    BY <1>2, <2>1, HoldingIsBlocks DEF EndBroadcast, Delete
  <2>3. bad' = {}
    BY <1>2, <2>1 DEF PoolInv, EndBroadcast, Delete
  <2>4. \A k : Holding(k)' = Holding(k)
    BY <1>2 DEF EndBroadcast, Holding
  <2>5. HeapIsHeld'
    <3>1. InUse' = Members
      BY <1>2, MembersOfTheArray DEF EndBroadcast, InUse
    <3>2. InFlight' = {}
      BY <1>2 DEF EndBroadcast, InFlight
    <3>3. QED
      BY <2>2, <2>4, <3>1, <3>2 DEF HeapIsHeld
  <2>6. PoolTypeOK'
    BY <1>2, <2>3 DEF PoolInv, PoolTypeOK, EndBroadcast, Delete
  <2>7. QED
    BY <1>2, <2>3, <2>5, <2>6, MembersOfTheArray DEF PoolInv, PoolTypeOK, EndBroadcast
<1>3. QED
  BY <1>1, <1>2

\* The destructor's loop deletes an element that still holds all of its blocks.
LEMMA DeleteVcpuInv ==
  ASSUME FitsArray, PoolInv, DeleteVcpu
  PROVE  PoolInv'
<1>1. core \in Members /\ core # MaxCpus /\ core \in Nat /\ core' = core + 1 /\ core' <= MaxCpus
  BY MembersOfTheArray DEF PoolInv, PoolTypeOK, DeleteVcpu, VcpuSlots
<1>2. heap = UNION {Holding(k) : k \in core .. MaxCpus}
  BY DEF PoolInv, HeapIsHeld, DeleteVcpu, InUse, InFlight
<1>3. core .. MaxCpus = {core} \cup (core' .. MaxCpus) /\ core \notin core' .. MaxCpus
      /\ core .. MaxCpus \subseteq Members
  BY <1>1, MembersOfTheArray
<1>4. OwnedBy(member[core]) \ {Null} = Holding(core)
  BY <1>1, OwnedIsHeld
<1>5. bad' = {}
  BY <1>2, <1>3, <1>4 DEF PoolInv, DeleteVcpu, Delete
<1>6. heap' = UNION {Holding(k) : k \in core' .. MaxCpus}
  <2>1. heap' = heap \ Holding(core)
    BY <1>2, <1>3, <1>4, HoldingIsBlocks DEF DeleteVcpu, Delete
  <2>2. \A k \in core' .. MaxCpus : Holding(k) \cap Holding(core) = {}
    BY <1>1, <1>3, HoldersDiffer
  <2>3. QED
    BY <1>2, <1>3, <2>1, <2>2
<1>7. HeapIsHeld'
  <2>1. \A k : Holding(k)' = Holding(k)
    BY DEF DeleteVcpu, Holding
  <2>2. InUse' = core' .. MaxCpus /\ InFlight' = {}
    BY DEF DeleteVcpu, InUse, InFlight
  <2>3. QED
    BY <1>6, <2>1, <2>2 DEF HeapIsHeld
<1>8. PoolTypeOK'
  BY <1>1, <1>5 DEF PoolInv, PoolTypeOK, DeleteVcpu, Delete
<1>9. QED
  BY <1>1, <1>5, <1>7, <1>8 DEF PoolInv, PoolTypeOK, DeleteVcpu

\* The destructor's last deletion takes the EPT and its table, and leaves nothing.
LEMMA DeleteEptInv ==
  ASSUME FitsArray, PoolInv, DeleteEpt
  PROVE  PoolInv'
<1>1. MaxCpus \in Members /\ core = MaxCpus /\ MaxCpus \in Nat
  BY MembersOfTheArray DEF DeleteEpt, VcpuSlots
<1>2. heap = Holding(MaxCpus)
  <2>1. InUse = {MaxCpus} /\ InFlight = {}
    BY <1>1 DEF DeleteEpt, InUse, InFlight
  <2>2. QED
    BY <2>1 DEF PoolInv, HeapIsHeld, DeleteEpt
<1>3. (IF member[MaxCpus] = Null THEN {} ELSE {member[MaxCpus], PageTable}) = Holding(MaxCpus)
  BY <1>1 DEF Holding, PoolInv
<1>4. heap' = {} /\ bad' = {}
  BY <1>2, <1>3 DEF DeleteEpt, Delete, PoolInv
<1>5. HeapIsHeld'
  BY <1>4 DEF DeleteEpt, HeapIsHeld, InUse, InFlight
<1>6. QED
  BY <1>4, <1>5 DEF PoolInv, PoolTypeOK, DeleteEpt

\* A processor that is added has no element of the array yet, and changes none.
LEMMA HotAddInv ==
  ASSUME FitsArray, PoolInv, HotAdd
  PROVE  PoolInv'
<1>1. HeapIsHeld'
  BY DEF PoolInv, HotAdd, HeapIsHeld, InUse, InFlight, Holding
<1>2. count' \in 1 .. Largest
  BY PoolAssumption DEF PoolInv, PoolTypeOK, HotAdd
<1>3. QED
  BY <1>1, <1>2 DEF PoolInv, PoolTypeOK, HotAdd

\* When the processor uses memory it did not get, all that is left is what was done.
LEMMA CrashInv ==
  ASSUME FitsArray, PoolInv, AllocationCrash \/ UNCHANGED poolVars
  PROVE  PoolInv'
<1>1. CASE AllocationCrash
  BY <1>1 DEF PoolInv, PoolTypeOK, AllocationCrash, HeapIsHeld
<1>2. CASE UNCHANGED poolVars
  BY <1>2 DEF PoolInv, PoolTypeOK, HeapIsHeld, InUse, InFlight, Holding, poolVars
<1>3. QED
  BY <1>1, <1>2

-----------------------------------------------------------------------------
(* Theorems                                                                   *)

\* The invariant of the pool holds at all times.
THEOREM PoolInvariance ==
  ASSUME FitsArray
  PROVE  PoolSpec => []PoolInv
<1>1. PoolInit => PoolInv
  BY PoolInitInv
<1>2. PoolInv /\ [PoolNext]_poolVars => PoolInv'
  <2> SUFFICES ASSUME PoolInv, [PoolNext]_poolVars PROVE PoolInv'
    OBVIOUS
  <2>1. CASE BeginConstruct
    BY <2>1, BeginConstructInv
  <2>2. CASE AllocateVcpu
    BY <2>2, AllocateVcpuInv
  <2>3. CASE AllocateEpt
    BY <2>3, AllocateEptInv
  <2>4. CASE BeginBroadcast \/ EndBroadcast
    BY <2>4, BroadcastInv
  <2>5. CASE DeleteVcpu
    BY <2>5, DeleteVcpuInv
  <2>6. CASE DeleteEpt
    BY <2>6, DeleteEptInv
  <2>7. CASE HotAdd
    BY <2>7, HotAddInv
  <2>8. CASE AllocationCrash \/ Crashed \/ UNCHANGED poolVars
    BY <2>8, CrashInv DEF Crashed
  <2>9. QED
    BY <2>1, <2>2, <2>3, <2>4, <2>5, <2>6, <2>7, <2>8 DEF PoolNext
<1>3. QED
  BY <1>1, <1>2, PTL DEF PoolSpec

\* The pool, the pointers of hv_t and the loops stay within their types.
THEOREM PoolTypeCorrect ==
  ASSUME FitsArray
  PROVE  PoolSpec => []PoolTypeOK
<1>1. PoolInv => PoolTypeOK
  BY DEF PoolInv
<1>2. QED
  BY <1>1, PoolInvariance, PTL

\* When the destructor of hv_t is through, everything its constructor, start() and stop()
\* allocated is free again, whatever could not be allocated.
THEOREM NoLeakHolds ==
  ASSUME FitsArray
  PROVE  PoolSpec => []NoLeak
<1>1. PoolInv => NoLeak
  BY DEF PoolInv, NoLeak, HeapIsHeld, InUse, InFlight
<1>2. QED
  BY <1>1, PoolInvariance, PTL

\* The destructors delete nothing twice and nothing they were not given.
THEOREM FreedOnceHolds ==
  ASSUME FitsArray
  PROVE  PoolSpec => []FreedOnce
<1>1. PoolInv => FreedOnce
  BY DEF PoolInv, FreedOnce
<1>2. QED
  BY <1>1, PoolInvariance, PTL

\* The lambda of start() and stop() finds its processor's own vcpu, still allocated, or
\* null: also on a processor that came after the constructor.
THEOREM EachCoreItsVcpuHolds ==
  ASSUME FitsArray
  PROVE  PoolSpec => []EachCoreItsVcpu
<1>1. ASSUME PoolInv PROVE EachCoreItsVcpu
  <2> SUFFICES ASSUME pc \in {"broadcast", "stopping"}, NEW c \in 0 .. count - 1
               PROVE  member[c] \in {Null, Vcpu(c)} /\ (member[c] # Null => Vcpu(c) \in heap)
    BY DEF EachCoreItsVcpu
  <2>1. c \in Members /\ c # MaxCpus
    BY <1>1, MembersOfTheArray DEF PoolInv, PoolTypeOK, FitsArray
  <2>2. member[c] \in {Null, Vcpu(c)}
    BY <1>1, <2>1 DEF PoolInv
  <2>3. Holding(c) \subseteq heap
    BY <1>1, <2>1 DEF PoolInv, HeapIsHeld, InUse
  <2>4. QED
    BY <2>1, <2>2, <2>3 DEF Holding
<1>2. QED
  BY <1>1, PoolInvariance, PTL

=============================================================================
