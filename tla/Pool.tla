-------------------------------- MODULE Pool --------------------------------
(***************************************************************************)
(* Who owns what of the pool (shared/std/new.cpp): the vcpus of hv_t and     *)
(* their pages, the ept_t and its table, and the callable a broadcast wraps  *)
(* its lambda in (shared/std/callable.hpp, unique.hpp), from the constructor *)
(* of hv_t to its destructor (hv/hypervisor.cpp).  The array of vcpus has     *)
(* MaxCpus elements (config.hpp) and is indexed by the number of the         *)
(* processor; behind it lies the pointer to the EPT.                        *)
(***************************************************************************)
EXTENDS Naturals

CONSTANTS
  MaxCpus,    (* max_cpu_count, 256 in the code.                              *)
  Largest     (* Processors the machine can have.                             *)

ASSUME PoolAssumption == MaxCpus \in Nat \ {0} /\ Largest \in Nat \ {0}

VARIABLES
  count,      (* active processors; what cpu::count() returns                 *)
  member,     (* the pointers in hv_t by their position: vcpu[], then ept      *)
  heap,       (* the blocks that are allocated                                *)
  pc,         (* "none" when there is no hv_t, or a point in its methods       *)
  core,       (* the variable of the loop                                     *)
  bad         (* blocks deleted that were not allocated                       *)

poolVars == <<count, member, heap, pc, core, bad>>

-----------------------------------------------------------------------------
Null == <<"null">>

\* A block by what it is and the processor it was allocated for.
Pages      == {"vmcs", "vmxon", "io_bitmap", "msr_bitmap", "stack"}
Vcpu(c)    == <<"vcpu", c>>
PagesOf(c) == {<<page, c>> : page \in Pages}
Ept        == <<"ept">>
PageTable  == <<"page_table">>
Callable   == <<"callable">>

Cpus    == 0 .. Largest - 1
Members == 0 .. (IF MaxCpus < Largest THEN Largest ELSE MaxCpus)

Blocks == {Ept, PageTable, Callable} \cup {Vcpu(c) : c \in Cpus} \cup UNION {PagesOf(c) : c \in Cpus}

\* Mutant: null is handed to the pool.
Delete_NoNullCheck(blocks) ==
  /\ heap' = heap \ blocks
  /\ bad' = bad \cup (blocks \ heap)

\* operator delete: a null pointer is passed over.
Delete(blocks) ==
  /\ heap' = heap \ blocks
  /\ bad' = bad \cup (blocks \ (heap \cup {Null}))

-----------------------------------------------------------------------------
(* hv_t::hv_t                                                                 *)

\* The array is zeroed; what lies behind it is not written yet.
BeginConstruct ==
  /\ pc = "none"
  /\ member' = [i \in Members |-> Null]
  /\ core' = 0
  /\ pc' = "vcpus"
  /\ UNCHANGED <<count, heap, bad>>

\* Mutant: the processors are numbered from one.
SlotOf_OneBased(c) == c + 1

SlotOf(c) == c

\* One round of the loop: a vcpu_t with its pages, or null when there is no memory for
\* the vcpu_t itself.  count() is called in every round.
AllocateVcpu ==
  /\ pc = "vcpus"
  /\ core < count
  /\ \/ /\ heap' = heap \cup {Vcpu(core)} \cup PagesOf(core)
        /\ member' = [member EXCEPT ![SlotOf(core)] = Vcpu(core)]
     \/ /\ member' = [member EXCEPT ![SlotOf(core)] = Null]
        /\ UNCHANGED heap
  /\ core' = core + 1
  /\ UNCHANGED <<count, pc, bad>>

AllocateEpt ==
  /\ pc = "vcpus"
  /\ core >= count
  /\ \/ /\ heap' = heap \cup {Ept, PageTable}
        /\ member' = [member EXCEPT ![MaxCpus] = Ept]
     \/ /\ member' = [member EXCEPT ![MaxCpus] = Null]
        /\ UNCHANGED heap
  /\ pc' = "ready"
  /\ UNCHANGED <<count, core, bad>>

\* The constructors of vcpu_t and ept_t, and the broadcast, use memory they did not
\* get.
AllocationCrash ==
  /\ pc \in {"vcpus", "ready"}
  /\ pc' = "down"
  /\ UNCHANGED <<count, member, heap, core, bad>>

-----------------------------------------------------------------------------
(* start() and stop()                                                         *)

\* The argument of for_each() owns a copy of the lambda.
BeginBroadcast ==
  /\ pc = "ready"
  /\ pc' \in {"broadcast", "stopping"}
  /\ heap' = heap \cup {Callable}
  /\ UNCHANGED <<count, member, core, bad>>

\* Mutant: the callable is not deleted with the function that owns it.
EndBroadcast_Leaks ==
  /\ pc \in {"broadcast", "stopping"}
  /\ pc' = IF pc = "broadcast" THEN "ready" ELSE "delete_vcpus"
  /\ core' = 0
  /\ UNCHANGED <<count, member, heap, bad>>

\* The argument is destroyed when for_each() returns; ~hv_t goes on after its stop().
EndBroadcast ==
  /\ pc \in {"broadcast", "stopping"}
  /\ pc' = IF pc = "broadcast" THEN "ready" ELSE "delete_vcpus"
  /\ core' = 0
  /\ Delete({Callable})
  /\ UNCHANGED <<count, member>>

-----------------------------------------------------------------------------
(* hv_t::~hv_t                                                                *)

\* What deleting an element of the array deletes: ~vcpu_t deletes the pages.
OwnedBy(pointer) == {pointer} \cup (IF pointer \in {Vcpu(c) : c \in Cpus} THEN PagesOf(pointer[2]) ELSE {})

\* Mutant: the loop takes one element more.
VcpuSlots_OneMore == MaxCpus + 1

VcpuSlots == MaxCpus

DeleteVcpu ==
  /\ pc = "delete_vcpus"
  /\ core < VcpuSlots
  /\ Delete(OwnedBy(member[core]))
  /\ core' = core + 1
  /\ UNCHANGED <<count, member, pc>>

DeleteEpt ==
  /\ pc = "delete_vcpus"
  /\ core = VcpuSlots
  /\ Delete(IF member[MaxCpus] = Null THEN {} ELSE {member[MaxCpus], PageTable})
  /\ pc' = "none"
  /\ UNCHANGED <<count, member, core>>

-----------------------------------------------------------------------------
HotAdd ==
  /\ pc # "down"
  /\ count < Largest
  /\ count' = count + 1
  /\ UNCHANGED <<member, heap, pc, core, bad>>

Crashed == pc = "down" /\ UNCHANGED poolVars

PoolInit ==
  /\ count \in 1 .. Largest
  /\ member = [i \in Members |-> Null]
  /\ heap = {}
  /\ pc = "none"
  /\ core = 0
  /\ bad = {}

PoolNext ==
  \/ BeginConstruct \/ AllocateVcpu \/ AllocateEpt \/ AllocationCrash
  \/ BeginBroadcast \/ EndBroadcast
  \/ DeleteVcpu \/ DeleteEpt
  \/ HotAdd \/ Crashed

PoolSpec == PoolInit /\ [][PoolNext]_poolVars

-----------------------------------------------------------------------------
(* Properties.                                                                *)

PoolTypeOK ==
  /\ count \in 1 .. Largest
  /\ member \in [Members -> Blocks \cup {Null}]
  /\ heap \subseteq Blocks
  /\ pc \in {"none", "vcpus", "ready", "broadcast", "stopping", "delete_vcpus", "down"}
  /\ core \in Nat
  /\ bad \subseteq Blocks

\* When the object is gone so is everything that was allocated for it, whatever could not
\* be allocated and whatever processors came in between.
NoLeak == pc = "none" => heap = {}

\* Nothing is deleted twice, and nothing that was not allocated.
FreedOnce == bad = {}

\* "Virtual machines per core." (hv/hypervisor.hpp:29): the lambda finds at the number of
\* its processor that processor's vcpu, still allocated, or null.
EachCoreItsVcpu ==
  pc \in {"broadcast", "stopping"} =>
    \A c \in 0 .. count - 1 :
      member[c] \in {Null, Vcpu(c)} /\ (member[c] # Null => Vcpu(c) \in heap)

-----------------------------------------------------------------------------
(* The inductive invariant, on a machine whose processors fit the array: what  *)
(* is allocated is what the members hold that are written and not deleted yet. *)

FitsArray == Largest <= MaxCpus

\* The blocks that go with the pointer at position k.
Holding(k) ==
  IF member[k] = Null THEN {}
  ELSE IF k = MaxCpus THEN {Ept, PageTable} ELSE {Vcpu(k)} \cup PagesOf(k)

InUse ==
  CASE pc = "vcpus" -> 0 .. core - 1
    [] pc \in {"ready", "broadcast", "stopping"} -> Members
    [] pc = "delete_vcpus" -> core .. MaxCpus
    [] OTHER -> {}

InFlight == IF pc \in {"broadcast", "stopping"} THEN {Callable} ELSE {}

HeapIsHeld == pc # "down" => heap = (UNION {Holding(k) : k \in InUse}) \cup InFlight

PoolInv ==
  /\ PoolTypeOK
  /\ bad = {}
  /\ \A k \in Members : member[k] \in {Null, IF k = MaxCpus THEN Ept ELSE Vcpu(k)}
  /\ HeapIsHeld
  /\ pc = "vcpus" => core <= count /\ \A k \in Members : k >= core => member[k] = Null
  /\ pc = "delete_vcpus" => core <= MaxCpus

=============================================================================
