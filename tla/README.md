# Verification of hypereye

TLA+ modules that model [hypereye](../src/README.md), a small VT-x hypervisor for
Windows that virtualizes the running system, the TLC configurations that check
them on small instances, and TLAPS proofs of their safety properties for any number
of cores and threads, any registers and any tables.

## 1. The system

The driver that links the library constructs one `hv_t`, calls `start()` to put
every processor of the running system into VMX non-root operation, and `stop()` or
the destructor to take them all out again. Paths below are relative to
`src/src/heye/`.

| Component | Source | State | Operations |
|---|---|---|---|
| `vcpu_t` | `hv/vcpu.cpp` | `state` (off, init, on); VMXON region, VMCS, bitmaps, host stack; what it changed in its core: CR0, CR4, the feature MSR, VMX operation | constructor, `start()`, `stop()`, three setup functions, destructor |
| `hv_t` | `hv/hypervisor.cpp` | `state`, one `vcpu_t*` per processor, the `ept_t` | constructor, `start()`, `stop()`, `supported()`, `is_running()`, destructor |
| broadcast | `shared/cpu.cpp`, `shared/std/callable.hpp` | none of its own: a lambda that refers to the caller's locals | `cpu::for_each` (`KeIpiGenericCall`) |
| VM exit path | `asm/vmm.asm`, `hv/vmexit.cpp`, `hv/vmcall.cpp`, `hv/vmx.cpp` | `regs_t` on the host stack, guest RIP and pending event in the VMCS | `vmexit_stub`, `passthrough` and its handlers, `handle_vmcall` |
| EPT, MTRR | `hv/ept.cpp`, `arch/mtrr.cpp` | page tables and ranges, written once | constructors, `get_type_or` |
| `vmx::adjust` | `hv/vmx.hpp` | none | control registers and control words made acceptable |
| segments | `arch/segments.hpp`, `arch/arch.hpp` | none: the processor's registers and the GDT | `read<segment_t<...>>` |
| pool | `shared/std/new.cpp` | the kernel's pool | `operator new`, `operator delete` |
| assembly routines, layouts, logger, traits, VMI | `arch/`, `asm/`, `shared/` | none the above depends on | see `PROJECT.json`, "components" |

How they interact. `hv_t::start()` and `stop()` broadcast a lambda to all active
processors and wait; the lambda calls `vcpu_t::start()` or `stop()` of the
processor it runs on, at IPI level, so that on one core nothing else runs in
between, while the other cores are anywhere in theirs. `vcpu_t::start()` writes
the host-state area and the top two words of the host stack; from then on every
VM exit of the core enters `vmexit_stub`, which finds the handler and the vcpu
there. `vcpu_t::stop()` runs in the guest, and leaves VMX by a `vmcall` that the
exit path answers with `vmxoff` and a jump behind the `vmcall`. The EPT is built by
the constructor of `hv_t` and only read afterwards.

What is hard: some cores enter and one fails; allocations are never checked;
threads are not kept apart by a lock; a vcpu is started again after a partial
failure; VMX instructions fault when an earlier write is missing; the exit path
depends on offsets in three places agreeing; an instruction is emulated never or
twice; a register the exit replaces is not given back, or given back as it was too
long ago; `adjust` drops a control bit without a word; the `vmcall` of `stop()` comes
when the guest is anywhere; the memory type of device memory depends on range
arithmetic. The list, each entry at its line, is `PROJECT.json`, "hazards".

## 2. Modules

    CrBits <- Vcpu <- Hypervisor --- refines --> HvLifecycle
                |         |                         |
          VcpuProofs <- HypervisorProofs      LifecycleProofs
                |
    Vcpu, VmExit <- VcpuExits --- refines --> Vcpu
                        |
          VcpuProofs <- VcpuExitsProofs

    Controls <- GuestContext <- GuestContextProofs     Mtrr <- Ept <- EptProofs
    Segments <- SegmentsProofs                         Pool <- PoolProofs

Each `MC...` module gives the constants of one of these their values for TLC.

**CrBits** - the CR0/CR4 arithmetic of `start()`. A register is the set of its one
bits: `AdjustCr` is `vmx::adjust<cr0_t>`, `Cr0Accepted` the test `start()` makes, and
`MeetsFixedBits` what the processor demands.

**Vcpu** - one `vcpu_t` per core. `job[c]` is the segment of `start()` or `stop()` the
core executes next; a segment ends at the next VMX instruction or call out of the
function, so that everything that can fail is a choice between two successors.

| Action | Code (`hv/vcpu.cpp`) |
|---|---|
| `StartNotOff`, `CheckCr0` | 39-52 |
| `CheckFeatureControl` | 53-69 |
| `EnableVmx`, `VmxOn` | 70-93 |
| `LoadVmcs` | 95-99 |
| `SetupGuest`, `SetupHost`, `SetupControls` | 252-331, 155-206, 208-250 |
| `SetupCallback`, `Launch` | 107-121 |
| `LeaveVmx`, `DisableVmx`, `ZeroRegions`, `MarkOff` | 127-153 |

`mode`, `cr0`, `cr4`, `fc` are the processor's side; `mem`, `vmcs`, `stack` are the pages,
reduced to what a VMX instruction needs of them; `armed` is true from `setup_cb` to the
next `teardown_cb` (which `stop()` also runs when it is false); `ept` is `hv_t::ept`, which `setup_controls()` reads
through; `down` is a bug check. The two public methods are called in any order on a
vcpu that is idle, which is all the class allows. In Vcpu a core leaves the guest by the
`vmcall` of `stop()` only, which the code does not enforce: see VcpuExits.

**Hypervisor** - `hv_t` and `cpu::for_each` on top of Vcpu. `op[t]` is the method thread
`t` is in and where; `Send` starts a broadcast (the kernel runs one at a time), each
core then takes its own `CoreRuns` steps, and `Gather` ends it when every one has
answered. Any vcpu and the EPT may be null, a processor may be added while the
object lives, the driver may construct a new object after a destruction, and no
method is ordered with another by anything but the broadcast; only construction and
destruction are exclusive. `volatile failed_start` is `SomeFailed`: a lambda that fails
has stored it before it answers. `~vcpu_t` calls `stop()` on a vcpu that is not off, on
the deleting thread's core; `DestroyQuiescent` shows that this never happens, so `Free`
does not model it.

**HvLifecycle** - what the driver is promised: absent, off, starting, on, leaving,
down, with the set of virtualized cores. `Hypervisor!Lifecycle` is the refinement
mapping: the phase is where the one caller is, `members` the targets of the broadcast.

**VmExit** - one core and its exits. A register holds a tag for whose value it is: the
guest's, the address behind the guest's instruction, a handler's result, the
host's. `VmExit` is the processor (it loads the host-state area), `SaveRegisters` the
first half of `vmexit_stub`, one action per group of handlers, `VmResume` and
`VmxoffStub` the two ways back. A VMX instruction of the guest is exited from whatever
the controls say; `setup_cb` may ask for any other exit, hence the constant `Exiting`.
The reasons `passthrough` has no case for are represented by `vmxon`, `invept`, `xsetbv`
and `cr_access`; all of them break in. An exception exits only if `setup_cb` asks for
it; `handle_exception` skips the instruction.

**VcpuExits** - Vcpu and VmExit in one. In Vcpu the `vmcall` of `stop()` leaves VMX in one
step, `LeaveVmx`; here it is an exit of core `Self` (`StopExits`) that the stub, the handler
and `vmxoff` answer step by step (`HostRuns`, `HostLeaves`), and before it comes the guest
exits for whatever reasons it has (`GuestExits`), a `vmcall` with 1 in `rcx` among them:
`handle_vmcall` asks neither who calls nor at what privilege level, and takes the core out
of VMX. `vcpu_t::state` then stays on (`Deserted`), `start()` returns false, and the `vmcall`
of `stop()` is an invalid opcode (`VmcallFaults`). A `vmcall` that was not skipped and is
executed again may have become that one, since `rcx` is what the C++ code left there
(`VmExit!Repeats`). The other cores take their steps of Vcpu. `ImplementsVcpu` says how the
composition goes beyond Vcpu: by `GuestLeaves` and by `VmcallFaults`, and by nothing else.
All other exits of the guest are stuttering steps of `vcpu_t` or break in, and the exit path
does for `stop()` exactly once what `LeaveVmx` says.

**Controls** - what decides how the guest runs on a processor: a model of it is a
record of its capability registers (`Processor`), for each control word the bits it
insists on and those it allows, with and without TRUE registers. `AskSupported` is
`hv_t::supported()`, with the read that faults where the register is missing; `ConstructEpt` the EPT pointer; `SetupControlWords`
`vmx::adjust` applied to the five words `setup_controls()` requests; `EnterGuest` the
checks of VM entry. What VM entry wants is defined from the processor's rules
(`WordAllowed`, `EptpAllowed`), the requests and `Adjust` from the code.

**GuestContext** - one register of one core, followed from `start()` through exits to
`stop()`: the register (`reg`), its guest and host fields (`field`, `host`), and what
its user last wrote (`view`). `handle_msr_write()` writes the processor's register where the
next entry loads the field, so that write is lost, and builds the value from an unmasked
`rax`: the ghosts `lost` and `instead` say when that was the case and what the guest is left
with (`Effective`). `answer` is what `handle_msr_read()` put into `regs()`; nothing loads it into
the guest's registers. What an exit saves and an entry loads depends on the control
words, so it extends Controls. The registers do not interact: each behaviour picks
one (`item`) of the MSRs `passthrough` knows, any other MSR, CR0, CR3, CR4, RFLAGS, DR7,
GDTR and IDTR. `intercept` says which of RDMSR and WRMSR of it `setup_cb` lets exit.

**Segments** - one segment register through one `start()`. `cache` is the hidden part
the processor loaded, `guest` what `read<segment_t>` reconstructs from LAR, LSL, two MSRs
and the GDT. Two definitions give a base: `ProcessorBase` what loading the register leaves
in its hidden part, by the kind of register and from the table the selector names, `BaseOf`
what `descriptor_t::base()` computes, by the system bit of a GDT entry. `GuestAccepted` and
`HostAccepted` are the checks of VM entry; those of type, DPL and granularity are left out,
since the registers read were loaded ones. Access rights, selectors and limits have the widths of the code; a
byte of an address has `Radix` values. The masks (`0xf0ff`, `0xf8`) are written as the
division and remainder they amount to, which both TLC and the prover understand.

**Pool** - who allocates and frees what: `member` is the array of vcpus with the `ept`
pointer behind it, `heap` the allocated blocks. Constructor and destructor are
loops of one action per element; any allocation may fail, processors may be added at
any time, and objects follow one another.

**Mtrr**, **Ept** - the ranges and tables the constructors build, in units of pages. The
content of the registers and the place of the tables are chosen at the start; the
loops of `ept_t::ept_t()` are one action per entry. What the processor makes of the
registers (`Covers`, `FixedCovers`) and of the tables (`Reached`) is defined separately,
from its rules and not from the code, and the properties compare the two. The loop of
`get_type_or()` is stated by its result (`LastHit`: the last range that is hit, but no
further than the first uncachable one), and a valid register pair keeps its own
position behind the fixed ranges: the code closes the gaps, which changes the
positions and not their order, and only the order matters to the loop.

## 3. Runs

| Run | Instance | Shows |
|---|---|---|
| `vcpu` (VcpuExits) | 2 cores, one of them with its exits, 2 CR0 values, a CR4 with a forbidden bit, all feature MSR values, 13 kinds of exit; fairness | of `start()` and `stop()`: the state matches the processor but where the guest left VMX by itself (`StateTellsCpu`), instructions are legal where they are executed, the guest can always exit, a restart is clean, `setup_cb` never runs twice without a `teardown_cb`; of the exit path: offsets and alignment, one emulation per instruction, what of its state the caller of `stop()` gets back and what it does not; of both: the host runs on what `start()` set up, the `vmcall` of `stop()` is the step `LeaveVmx` and no exit but a `vmcall` of the guest's own changes the vcpu without breaking in, `stop()` returns from a guest stuck in an exit |
| `hv` | 2 cores, 1 thread, fairness | `is_running()` is true of every core between calls; every call returns; one failure takes every core out; `hv_t` implements `HvLifecycle` |
| `hv_two` | 2 cores, 2 threads | each state matches its processor; all vcpus on or all off once the calls have returned; what is off has left nothing behind; lambdas stay inside their broadcast; the destructor frees only what is off |
| `context` (GuestContext with Controls) | 25 kinds of processor, 14 registers, 3 values | VM entry is never refused; EPT and VPID are in effect; of the instructions with a control of their own the guest loses TPAUSE, UMONITOR and UMWAIT and no other; MOV to CR3 exits only where it must; the guest finds its registers after any exits, but for what it wrote by a WRMSR that exits; `handle_msr_read()` fetches its values; which of them `stop()` gives back |
| `segments` | 8 registers, 16 tables, selectors with RPL 0 and 3, with and without TI | VM entry accepts the fields, but of a null selector with RPL and of DS or ES from the LDT whose index meets a system or empty entry of the GDT; the guest's rights, limits and bases are the processor's |
| `ept` | 2-entry tables, large pages of 4 pages, 32 physical pages, one fixed register of 2 ranges and two variable ones | identity, nothing beyond, uncachable memory is never cachable |
| `pool` | 4 slots, up to 4 processors | everything is freed once, whatever could not be allocated; each core finds its own vcpu |
| `vcpu_cr0`, `vmexit_ping`, `vmexit_ud`, `vmexit_invlpg`, `ept_default` | as above, `vmexit_*` on VmExit alone | violated: see section 6 |

Bounds, and why they are enough. Cores interact only through the broadcast's
"everyone has answered" and "someone failed", so two cores show each combination of
one that fails and one that does not, and of one that has answered and one that has
not; the safety results do not rest on this, since the theorems hold for any
number. Two threads are the least that can overlap. Symmetry of the cores and threads
is used in `hv_two` only, which has no liveness. Two bits per control register tell a
missing fixed bit, an optional one and (CR4) a forbidden one apart. In `vcpu` the exits
are one or more of each way the host can answer: skipped, resumed at the same
instruction, an injected event, a break-in, and the `vmcall` of `stop()`; the other core
has no exits of its own, and cores do not share what an exit uses. In `context` each
processor differs from the ordinary one in one respect the code or VM entry looks at,
and three values tell the guest's, the host's and the system's CR3 apart. In `segments`
the tables have a null entry, code and data entries, a system entry of two slots with a
base above its lower half, and a limit with an upper part; indices of the LDT meet a data
segment, a system descriptor and an empty entry of the GDT. In `ept` the smallest tables
with more than one entry at each level that has one let indices be swapped or shifted;
blocks are less than, equal to, and larger than a large page; and, as on the
processor, the fixed ranges lie in the lower half of the first large page, so that
nothing is found about them that eleven real registers could not show. In `pool` the
machine may come to have exactly as many processors as the array has elements; with
one more, `SlotOf` is the element behind the array (section 6). `segments` follows one
`start()` to its end and is the only run without a deadlock check. No action of any
module has a cut-off counter.

HvLifecycle has no run of its own: that it is strong enough to be worth implementing is
the theorem `LifeConsistentHolds`. The types of Vcpu and Controls are part of
`HvTypeOK` and `ContextTypeOK`.

Every property has a mutant, listed in `PROJECT.json`: a definition next to the one it
replaces, with a plausible bug, under which the same run finds the property violated.

Fairness (`hv`, `vcpu` and `vmexit_ping` only). `HvFairness` is weak fairness of each
thread's steps inside a method and of each core's steps inside a broadcast: the
kernel schedules a runnable thread, and the lambda runs with interrupts masked on its
own core, so neither stops by itself. No call, no hot-add and no construction is
fair: nobody must make one. `ThreadRuns` of a thread that waits for another's
broadcast is enabled again and again but not always; with one thread this does not
arise, and liveness is claimed for one thread only. `ExitFairSpec` says that the
guest and the host keep executing instructions. `ComposedFairSpec` is weak fairness of the
host's steps, of `stop()`'s `vmcall` and of the rest of `start()` and `stop()`: a core that is
not stopped executes its next instruction, and the lambda cannot be interrupted. The
guest's own exits are not fair.

## 4. Proofs

The `*Proofs.tla` modules are checked by TLAPS. They hold for every value of the
constants that meets the named assumptions below, and state every safety property
and every action property of the passing runs. Each is the same argument: an invariant
of the specification, a lemma per action that it is kept, and the properties as its
consequences. The invariants stand at the end of the module they are about, and
each was also put into the configuration of its run and checked by TLC.

| Assumption | Says | Why the code justifies it |
|---|---|---|
| `FixedBitsAssumption` (Vcpu) | FIXED0 is a subset of FIXED1, VMXE may be set, nobody set it before | the processor's definition; another hypervisor is excluded |
| `ProcessorsAssumption` with `WellFormed` (Controls) | what must be one may be one, TRUE registers insist on no more, EPT and VPID capabilities come with their controls | what a capability register is |
| `MtrrAssumption`, `EptAssumption` | the registers hold types there are, table and page sizes are positive | the processor refuses others; sizes are constants of the code |
| none, but in Vcpu, Hypervisor and the cores of VcpuExits other than `Self`: a core leaves the guest by the `vmcall` of `stop()` only | `LeaveVmx` is the one step out of the guest | not enforced: `handle_vmcall` (`hv/vmcall.cpp:14-35`) asks neither caller nor privilege level. What happens otherwise is VcpuExits' `Self`, where the guest makes that call too: `StateTellsCpu`, `ImplementsVcpu` |
| `SegAssumption` | descriptors have fields of their widths; what a selector indexes in the GDT, and the entry behind it, can be read | the code reads both without asking; a read beyond mapped memory is not modelled |
| `OneCaller` (Hypervisor) | one thread calls | needed: see section 6 for two |
| `FitsArray` (Pool) | no more processors than the array has elements | needed: see section 6 |
| `ContiguousMasks` (Ept) | the set bits of a mask are those from the lowest on | firmware's duty; with others `_BitScanForward64` finds too small a range |
| `TableOf32` (SegmentsProofs) | selectors index at most 32 entries | needed: `0xf8` cuts an index, and a host CS or TR of 0 is refused |

The last four are hypotheses of single theorems, not of a module.

*VcpuProofs.* The properties are not inductive: that `vmxon` is legal says nothing
about the segments before it. `VcpuInv` adds, per core, what is true at each segment:
`ModeAgrees` (state and VMX operation agree, except past the `vmxoff` of `stop()`),
`OffIsBlank` (a vcpu that is off holds nothing of an earlier run), `InVmxIsBacked`,
`OnIsComplete`, `StartProgress` and `StopProgress` (how much has been established when a
segment is reached). A core's step changes that core only (`CoreStepIsLocal`), so
the argument is about one core: one lemma for the types and one for the invariant
for each of the two routines, then `VcpuNextInv`. From `VcpuInvariance` follow
`StateMatchesCpu`, `InstructionsLegal`, `GuestReady`, `RestartIsClean` and
`SetupsAreTornDown` (not two `setup_cb` without a `teardown_cb` between them; two
`teardown_cb` there may be, since every `stop()` runs it). What `vmxon` needs of CR0 and CR4 comes from the lemma
`AdjustMeetsFixedBits`.

*HypervisorProofs*, in three layers.

1. `HvInv` adds to `VcpuInv` that a core works only inside a broadcast that reached it
   and whose caller waits (`BroadcastCoversWork`), that a broadcast of `stop()` turns off
   what it has finished with (`BroadcastInv`), that every vcpu belongs to a processor the
   broadcast reaches (`OwnedAreReached`), and that the object outlives the calls on it
   (`Lifetime`). `DestroyQuiescent` needs all four: the vcpus are off when they are
   deleted because the destructor's broadcast reached each of them, and none works
   after it. The core steps are taken from VcpuProofs (`CoreStepEffects`,
   `CoreStepKeepsInv`).
2. `SettledInv`, on top of it and for any number of threads: between two broadcasts the
   cores are all in or all out, unless some thread still has to send the rollback of
   its failed start. That is inductive only together with what a broadcast has done
   to the cores it is through with: `StartTurnsOn`, and `StopCleans`, which follows VMXE
   and the pages through the last segments of `stop()`. It gives `AllOrNothing` and
   `NoResidue`.
3. `CallerInv`, for one caller: where its call is against what is on. It gives
   `HvStateAgrees`, and `HvImplementsLifecycle`, with a lemma per step of what it maps to
   (`ConstructMaps`, `SendMaps`, `GatherMaps`, `CommitMaps`, `FinishMaps`, `CoreRunsMaps`...). The
   constructor maps to `Create`; `Send` to `Begin` for a `start()` and to `Withdraw` for a
   `stop()`; `Gather` of a start that some core failed to `Withdraw` too; `CommitStart` to
   `Commit`; `MarkStopped` and `Free` to `Finish`; a core's `vmlaunch` and `vmxoff` to `Enter`
   and `Leave`; all else to a stutter. `HvInv` is needed for the
   cores (only one with a vcpu, reached by a broadcast of the right kind, enters or
   leaves), `CallerInv` for the commit and the end, whose abstract guards speak of all
   cores.

*LifecycleProofs.* `LifeConsistentHolds`, from `LifeInv`: what the driver gets from the
refinement.

*VcpuExitsProofs.* First VmExit alone, with any set `Exiting` of exits: `ExitInv` says
where the stack pointer is between the exit and the instruction that ends it
(`StackLevel`), whose values are in the registers and in `regs_t` (`GuestIsSaved`), and
that a handler finds the guest at its instruction with nothing to inject
(`HandlerStartsClean`). `StubFindsSlots`, `EmulatedOnce` and `LeaveRestoresCaller` are
about single points on that way, and none is inductive by itself. Its lemmas about
steps do not ask when the guest exits, so they are used again for the composition:
`ComposedInv` is `ExitInv`, the invariant of Vcpu for each core (`SelfInv` has another for
`Self` once its guest has left VMX by itself: `DesertedCore`), and the handshake between
the two (`HandshakeInv`): the exit path is in the host only while the core is in the guest,
and what it handles is either an exit no call waits for or the `vmcall` of the `stop()` that
runs (`ExitHasCause`). From it `ComposedImplementsVcpu`: the `vmxoff` `stop()` asked for maps to
`LeaveVmx`, the one the guest asked for to `GuestLeaves`, an exit, its handling and a resume
to a stutter (`ResumeIsStutter`: never of the `vmcall` of `stop()`), a break-in to Vcpu's; and
`HostIsBacked`.

*GuestContextProofs.* The control words first, for every set of processors that are
`WellFormed`. `ControlsInv` adds to the types which words hold adjusted requests at which
point; that VM entry accepts them (`EntryNeverRefused`) and that no requested bit was
dropped (`EptInEffect`, `GuestLosesOnlyWaits`, `Cr3StaysInGuest`) then follow from what
`Adjust` does to each word. `ContextInv` adds where the guest's value of a register is:
in the register until an exit saves it, then in the field (a WRMSR exit is lost because it
writes the register when the value is already in the field), and that the `vmxoff`
handler has put it back where `GivenBackHere`. Results: `ResumeKeepsContext`,
`ReadMsrFetchesGuests`, `LeaveGivesBack`, and the properties of the control words with the
guest's exits in between (`ControlsHoldInContext`).

*PoolProofs.* `PoolInv`: what is allocated is exactly what the pointers written and
not yet deleted hold (`HeapIsHeld`), at each position of the two loops. `NoLeak` is the case
where no pointer is left; `FreedOnce` and `EachCoreItsVcpu` need that the pointers are
distinct, hence `FitsArray`.

*EptProofs.* `EptInv` says of each entry whether it is written by now, and what is in it.
`IdentityMap` is then arithmetic: a page number is taken apart by the walk as the loops
put it together, for any table and page size. `UncachableWins` is about `GetTypeOr` on any
number of ranges. Induction over them is out of the prover's reach, and is not
needed with `LastHit`: a range that contains an uncachable page of the large page is hit
(`Touches` takes too much, never too little), and among the hit ranges of type
uncachable there is a first one, by the well-foundedness of the natural numbers
(`WFMin`, `LeastExists`); it is the last that is taken (`UncachableHitWins`).

*SegmentsProofs.* The arithmetic of access rights is done once for a word made of its
fields (`FieldsOfRights`, `RightsOfLar`): what `0xf0ff` keeps of LAR's result is the
descriptor's rights, whatever the four undefined bits are. `SegInv` says that a register
holds what its selector loads but for the base of FS and GS (`Loaded`), and that the
fields are what `read<segment_t>` makes of it (`FieldsRead`). The parts of a base make less
than 32 bits of it (`BaseFits`), so that only the upper half `base()` adds by itself can be too
much (`BaseTaken`). `EntryTakes` shows that only an odd null selector, a stray base or an
index that `0xf8` cuts can have VM entry refuse. `GuestSegmentsMatch` compares the register
after `EnterGuest` with the one before, and takes both halves of the invariant; for a
selector of the GDT the two definitions of a base agree (`LoadableDescriptor`).

Only model-checked: the liveness properties `CallsReturn`, `FailureRollsBack`,
`StopReturns`, which TLAPS cannot prove under fairness. The five properties of section 6
are violated.

## 5. Not modelled

* What CPUID and XSETBV return or set: the processor's own, a tag in VmExit.
* The results of `invept` and `invvpid`, which the code does not look at, and the
  translations a processor caches: the tables are never changed once they are built.
* `inject_bp()` and `inject_gp()`, which have no caller, and the parts of the layouts in `arch/`
  that nothing reads.
* Most routines of `registers.asm` and `memory.cpp`: one instruction or kernel call each,
  part of the action that uses it. Traits, logger, VMI, build: no part in the behaviour.
* What a processor caches of a VMCS that was never `vmclear`ed.
* The value of IA32_MTRR_DEF_TYPE, and the bit in it that enables the fixed ranges: the
  code looks at neither (`arch/mtrr.cpp:11`, section 6).
* The privilege level of the guest's code: an instruction that exits is any code's.

In the model, but in no property: the base of DS and ES loaded from the LDT, which is read
from the GDT, and the segment a null selector with an RPL becomes.

## 6. Where the code and its words differ

| Run | Words | Code |
|---|---|---|
| `vcpu_cr0` | `hv/vcpu.cpp:44` "Make sure CR0 meets CR0 fixed bits in VMX operation." | line 48 refuses a CR0 unless every bit FIXED1 allows is set |
| `vmexit_ud` | `hv/vmexit.cpp:128` "Inject undefined opcode." | `inject_ud()` (`hv/vmx.cpp:79`) injects #GP without the error code VM entry wants |
| `vmexit_invlpg` | `arch/vmx.hpp:576` "For INVLPG, the exit qualification contains the linear-address operand" | `hv/vcpu.cpp:355` initializes the first member of a structure, another one is read |
| `vmexit_ping` | `hv/vmcall.hpp:14` "Smoke test." | the ping case does not skip the `vmcall`, which is executed again for ever |
| `ept_default` | `arch/mtrr.hpp:26` "return default if not found" | ranges store their end as size and are used as if it were the size |

The model says what the code does in each case. In particular the other VmExit
properties hold of executions in which a refused event ends at the `int 3` of the stub.

Seen while modelling, in the model as the code has it, and in no run of this section
because the repository says nothing definite to hold against it:

* `hv/hypervisor.cpp:97`, `114`: `state` is written after the broadcast. Two threads can leave it
  on with all cores off, or off with all cores on (`Hypervisor!CommitStart`, `MarkStopped`);
  `HvStateAgrees` is checked for one caller, and `hv_two` shows what holds for two.
* `hv/hypervisor.cpp:43-46`: `supported()` reads VMX capability MSRs before it looks at CPUID
  (`Controls!AskSupported` faults on a processor without VMX).
* `arch/arch.hpp:106`: a null selector with an RPL is taken for a usable segment, and VM entry
  refuses it unless LAR's untouched register happens to look like one (`Segments!OddNull`).
* `arch/arch.hpp:118-120`: a selector with TI set is looked up in the GDT. If its index meets a
  system descriptor or an empty entry there, `base()` adds the next entry as bits 63:32, and
  VM entry refuses DS or ES (`Segments!StrayBase`); otherwise the base is that of another segment.
* `hv/vmcall.cpp:14-35`: any `vmcall` with 1 in `rcx` takes the core out of VMX, whoever makes it;
  `vcpu_t::state` stays on, and the next `stop()` executes `vmcall` outside VMX
  (`VcpuExits!Deserted`, `VmcallFaults`).
* `asm/vmm.asm:131-137`: `vmresume` follows the handler without a load of `regs_t`. What
  `handle_cpuid()` and `handle_msr_read()` store there does not reach the guest, and the
  volatile registers are what the C++ code left (`VmExit!VmResume`, `Repeats`). A `vmcall` that is
  executed again, as in `vmexit_ping`, need not be a ping any more.
* `hv/vmexit.cpp:90-124`: `handle_msr_write()` writes the processor's MSR, and for those with a
  guest field the next VM entry loads the field: the guest's WRMSR is lost. For the others the
  upper half of `rax` is mixed into the value (`GuestContext!HandleMsrWrite`, `Effective`).
* `hv/vcpu.cpp:223-230`: the control of TPAUSE, UMONITOR and UMWAIT is not asked for, so they fault
  in the guest (`Controls!GuestLosesOnlyWaits`); `hv/vmexit.cpp:195`: XSETBV always exits and has
  no case, so it breaks in (`VmExit!BreakInHandler`).
* `arch/mtrr.cpp:11`: the default type is write-back whatever IA32_MTRR_DEF_TYPE says, and the
  fixed ranges are used whether or not they are enabled.
* `arch/segments.hpp:169`: `limit()` shifts the high part by 8; nothing calls it.
* `hv/hypervisor.cpp:19`: the array is indexed unchecked; the vcpu of processor `max_cpu_count`
  would be written where the pointer to the EPT lies.
* `hv/vcpu.cpp:233`: DR7 and DEBUGCTL are lost to the guest at its first exit where the
  processor lets the debug controls be off (`GuestContext!Followed`).
* `hv/vmcall.cpp:31`: RFLAGS, DR7, DEBUGCTL, FS and GS base and the SYSENTER MSRs are the
  host's after `vmxoff` (`GuestContext!LeaveGivesBack` says of which registers this is visible).

## 7. Plan

1. *The model.* What can still be added: two cores of `hv_t` with their exits step by
   step (VcpuExits under Hypervisor instead of beside it), and the translations cached
   under EPT and VPID, should the code begin to change its tables.
2. *The proofs.* Every safety property a run checks is a theorem. What can be added: which
   part of `HvStateAgrees` two callers keep, as a refinement of a weaker life cycle
   whose `on` may lag behind the cores; `UncachableWins` for masks with holes, where the
   found range is too small, as a statement of which pages are missed; the refinement
   of Hypervisor by one whose cores have their exits, once that module exists.
