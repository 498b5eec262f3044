-------------------------------- MODULE Vcpu --------------------------------
(***************************************************************************)
(* vcpu_t (hv/vcpu.hpp, hv/vcpu.cpp): the virtual processor of each core,   *)
(* and the part of the processor that its start() and stop() drive.         *)
(*                                                                          *)
(* start() and stop() run on their own core, one segment between two VMX    *)
(* instructions (or calls out of the function) per action; job[c] is the    *)
(* segment core c executes next.  What the processor refuses (VMfail) and   *)
(* what a callback or an allocation may do is nondeterministic.             *)
(***************************************************************************)
EXTENDS CrBits

CONSTANTS
  Cores,       (* The logical processors the machine can ever have.          *)
  HostCr0s,    (* CR0 values a core may hold before the driver touches it.   *)
  HostCr4s,    (* The same for CR4.                                          *)
  Cr0Fixed0, Cr0Fixed1, Cr4Fixed0, Cr4Fixed1  (* IA32_VMX_CRx_FIXED0/1       *)

(* FIXED0 is always a subset of FIXED1, and a processor with VMX lets CR4.VMXE *)
(* be set; nobody but start() sets it.                                         *)
ASSUME FixedBitsAssumption ==
  /\ Cr0Fixed0 \subseteq Cr0Fixed1
  /\ Cr4Fixed0 \subseteq Cr4Fixed1
  /\ "vmxe" \in Cr4Fixed1
  /\ \A cr4 \in HostCr4s : "vmxe" \notin cr4

VARIABLES
  vcpu,    (* vcpu_t::state, or "null" when hv_t::vcpu[c] is a null pointer   *)
  job,     (* the segment of start() or stop() the core executes next         *)
  mode,    (* VMX operation of the core: "off", "root", or "guest" (non-root) *)
  cr0,     (* control registers, as sets of bits                              *)
  cr4,
  fc,      (* IA32_FEATURE_CONTROL                                            *)
  mem,     (* the vmxon/vmcs/bitmap pages: "none", "zero", or "ready"         *)
  vmcs,    (* VMCS: is it "current", and which groups of fields are written   *)
  stack,   (* does the host stack hold the handler and the vcpu pointer?      *)
  armed,   (* setup_cb has run, and teardown_cb has not since                 *)
  ept,     (* hv_t::ept: "none", "null" (allocation failed) or "ready"        *)
  down     (* the machine bug-checked                                         *)

coreVars == <<vcpu, job, mode, cr0, cr4, fc, mem, vmcs, stack, armed, ept, down>>

VcpuStates == {"null", "off", "init", "on"}

StartJobs == {"start", "feature", "enable", "vmxon", "load", "guest", "host",
              "controls", "callback", "launch"}
StopJobs  == {"stop", "disable", "zero", "mark"}
Jobs      == {"idle", "failed", "done"} \cup StartJobs \cup StopJobs

Cr0Bits == Cr0Fixed1 \cup UNION HostCr0s
Cr4Bits == Cr4Fixed1 \cup UNION HostCr4s

FeatureControl == [lock : BOOLEAN, vmxon : BOOLEAN]

\* The groups of VMCS fields vmlaunch needs, with the VMCS itself current.
VmcsGroups   == {"guest", "host", "controls"}
CompleteVmcs == VmcsGroups \cup {"current"}

-----------------------------------------------------------------------------
(* Control flow inside the two routines.                                      *)

Goto(c, next) == job' = [job EXCEPT ![c] = next]

At(c, here) == ~down /\ job[c] = here

-----------------------------------------------------------------------------
(* vcpu_t::start()                                                            *)

\* start() of a vcpu that is not off returns false at once.
StartNotOff(c) ==
  /\ At(c, "start")
  /\ vcpu[c] # "off"
  /\ Goto(c, "failed")
  /\ UNCHANGED <<vcpu, mode, cr0, cr4, fc, mem, vmcs, stack, armed, ept, down>>

CheckCr0(c) ==
  /\ At(c, "start")
  /\ vcpu[c] = "off"
  /\ \/ /\ Cr0Accepted(cr0[c], Cr0Fixed0, Cr0Fixed1)
        /\ Goto(c, "feature")
     \/ /\ ~Cr0Accepted(cr0[c], Cr0Fixed0, Cr0Fixed1)
        /\ Goto(c, "failed")
  /\ UNCHANGED <<vcpu, mode, cr0, cr4, fc, mem, vmcs, stack, armed, ept, down>>

\* Mutant: an unlocked register is left as it is.
FeatureControlAfter_NeverWritten(control) == control

\* What start() leaves in IA32_FEATURE_CONTROL: a locked register is only read.
FeatureControlAfter(control) ==
  IF control.lock THEN control ELSE [lock |-> TRUE, vmxon |-> TRUE]

CheckFeatureControl(c) ==
  /\ At(c, "feature")
  /\ \/ /\ fc[c].lock /\ ~fc[c].vmxon
        /\ Goto(c, "failed")
        /\ UNCHANGED fc
     \/ /\ ~fc[c].lock \/ fc[c].vmxon
        /\ fc' = [fc EXCEPT ![c] = FeatureControlAfter(@)]
        /\ Goto(c, "enable")
  /\ UNCHANGED <<vcpu, mode, cr0, cr4, mem, vmcs, stack, armed, ept, down>>

\* CR4.VMXE is set, both registers are adjusted, and the revision id makes the
\* VMXON and VMCS pages usable.
EnableVmx(c) ==
  /\ At(c, "enable")
  /\ cr0' = [cr0 EXCEPT ![c] = AdjustCr(@, Cr0Fixed0, Cr0Fixed1)]
  /\ cr4' = [cr4 EXCEPT ![c] = AdjustCr(@ \cup {"vmxe"}, Cr4Fixed0, Cr4Fixed1)]
  /\ mem' = [mem EXCEPT ![c] = "ready"]
  /\ Goto(c, "vmxon")
  /\ UNCHANGED <<vcpu, mode, fc, vmcs, stack, armed, ept, down>>

VmxOn(c) ==
  /\ At(c, "vmxon")
  /\ \/ /\ mode' = [mode EXCEPT ![c] = "root"]
        /\ vcpu' = [vcpu EXCEPT ![c] = "init"]
        /\ Goto(c, "load")
     \/ /\ Goto(c, "failed")
        /\ UNCHANGED <<mode, vcpu>>
  /\ UNCHANGED <<cr0, cr4, fc, mem, vmcs, stack, armed, ept, down>>

\* vmclear and vmptrld; a VMCS that was just cleared holds no fields.
LoadVmcs(c) ==
  /\ At(c, "load")
  /\ \/ /\ vmcs' = [vmcs EXCEPT ![c] = {"current"}]
        /\ Goto(c, "guest")
     \/ /\ Goto(c, "failed")
        /\ UNCHANGED vmcs
  /\ UNCHANGED <<vcpu, mode, cr0, cr4, fc, mem, stack, armed, ept, down>>

\* One of setup_guest(), setup_host() and setup_controls(): all its vmwrites
\* succeed, or start() gives up without calling the next one.
WriteVmcs(c, group, next) ==
  \/ /\ vmcs' = [vmcs EXCEPT ![c] = @ \cup {group}]
     /\ Goto(c, next)
  \/ /\ Goto(c, "failed")
     /\ UNCHANGED vmcs

SetupGuest(c) ==
  /\ At(c, "guest")
  /\ WriteVmcs(c, "guest", "host")
  /\ UNCHANGED <<vcpu, mode, cr0, cr4, fc, mem, stack, armed, ept, down>>

\* Mutant: setup_host() without the two stores into the host stack.
SetupHost_NoStackSlots(c) ==
  /\ At(c, "host")
  /\ WriteVmcs(c, "host", "controls")
  /\ UNCHANGED <<vcpu, mode, cr0, cr4, fc, mem, stack, armed, ept, down>>

\* The handler and the vcpu pointer go to the top of the host stack, where
\* vmexit_stub finds them, before the error of the vmwrites is looked at.
SetupHost(c) ==
  /\ At(c, "host")
  /\ stack' = [stack EXCEPT ![c] = TRUE]
  /\ WriteVmcs(c, "host", "controls")
  /\ UNCHANGED <<vcpu, mode, cr0, cr4, fc, mem, armed, ept, down>>

\* hv->ept->ept_pointer() reads through a null pointer when hv_t could not
\* allocate the ept_t.
SetupControls(c) ==
  /\ At(c, "controls")
  /\ \/ /\ ept = "ready"
        /\ WriteVmcs(c, "controls", "callback")
        /\ UNCHANGED down
     \/ /\ ept # "ready"
        /\ down' = TRUE
        /\ UNCHANGED <<vmcs, job>>
  /\ UNCHANGED <<vcpu, mode, cr0, cr4, fc, mem, stack, armed, ept>>

SetupCallback(c) ==
  /\ At(c, "callback")
  /\ armed' = [armed EXCEPT ![c] = TRUE]
  /\ Goto(c, "launch")
  /\ UNCHANGED <<vcpu, mode, cr0, cr4, fc, mem, vmcs, stack, ept, down>>

\* vmlaunch continues in the guest, fails with a status, or, when the guest
\* state is refused, exits to a handler that has no case for it and breaks in.
Launch(c) ==
  /\ At(c, "launch")
  /\ \/ /\ mode' = [mode EXCEPT ![c] = "guest"]
        /\ vcpu' = [vcpu EXCEPT ![c] = "on"]
        /\ Goto(c, "done")
        /\ UNCHANGED down
     \/ /\ Goto(c, "failed")
        /\ UNCHANGED <<mode, vcpu, down>>
     \/ /\ down' = TRUE
        /\ UNCHANGED <<mode, vcpu, job>>
  /\ UNCHANGED <<cr0, cr4, fc, mem, vmcs, stack, armed, ept>>

-----------------------------------------------------------------------------
(* vcpu_t::stop()                                                             *)

\* Mutant: stop() leaves VMX only from the guest.
LeaveVmx_OnlyGuest(c) ==
  /\ At(c, "stop")
  /\ \/ /\ vcpu[c] = "on"
        /\ mode' = [mode EXCEPT ![c] = "off"]
        /\ vmcs' = [vmcs EXCEPT ![c] = @ \ {"current"}]
     \/ /\ vcpu[c] # "on"
        /\ UNCHANGED <<mode, vmcs>>
  /\ Goto(c, "disable")
  /\ UNCHANGED <<vcpu, cr0, cr4, fc, mem, stack, armed, ept, down>>

\* From the guest, the vmxoff vmcall; from root operation, vmxoff; from off,
\* nothing.  The region is not vmcleared.
LeaveVmx(c) ==
  /\ At(c, "stop")
  /\ \/ /\ vcpu[c] \in {"on", "init"}
        /\ mode' = [mode EXCEPT ![c] = "off"]
        /\ vmcs' = [vmcs EXCEPT ![c] = @ \ {"current"}]
     \/ /\ vcpu[c] \notin {"on", "init"}
        /\ UNCHANGED <<mode, vmcs>>
  /\ Goto(c, "disable")
  /\ UNCHANGED <<vcpu, cr0, cr4, fc, mem, stack, armed, ept, down>>

\* Mutant: stop() leaves CR4 as start() set it.
DisableVmx_KeepVmxe(c) ==
  /\ At(c, "disable")
  /\ Goto(c, "zero")
  /\ UNCHANGED <<vcpu, mode, cr0, cr4, fc, mem, vmcs, stack, armed, ept, down>>

\* Only VMXE is taken back; the bits the adjustment added stay.
DisableVmx(c) ==
  /\ At(c, "disable")
  /\ cr4' = [cr4 EXCEPT ![c] = @ \ {"vmxe"}]
  /\ Goto(c, "zero")
  /\ UNCHANGED <<vcpu, mode, cr0, fc, mem, vmcs, stack, armed, ept, down>>

\* Mutant: the host stack is not wiped with the other regions.
ZeroRegions_KeepStack(c) ==
  /\ At(c, "zero")
  /\ mem' = [mem EXCEPT ![c] = "zero"]
  /\ vmcs' = [vmcs EXCEPT ![c] = {}]
  /\ Goto(c, "mark")
  /\ UNCHANGED <<vcpu, mode, cr0, cr4, fc, stack, armed, ept, down>>

ZeroRegions(c) ==
  /\ At(c, "zero")
  /\ mem' = [mem EXCEPT ![c] = "zero"]
  /\ vmcs' = [vmcs EXCEPT ![c] = {}]
  /\ stack' = [stack EXCEPT ![c] = FALSE]
  /\ Goto(c, "mark")
  /\ UNCHANGED <<vcpu, mode, cr0, cr4, fc, armed, ept, down>>

\* Mutant: teardown_cb is called only for a vcpu that reached the guest.
MarkOff_TeardownIfOn(c) ==
  /\ At(c, "mark")
  /\ vcpu' = [vcpu EXCEPT ![c] = "off"]
  /\ armed' = [armed EXCEPT ![c] = @ /\ vcpu[c] # "on"]
  /\ Goto(c, "done")
  /\ UNCHANGED <<mode, cr0, cr4, fc, mem, vmcs, stack, ept, down>>

\* state = off, then teardown_cb, whether setup_cb ran or not.
MarkOff(c) ==
  /\ At(c, "mark")
  /\ vcpu' = [vcpu EXCEPT ![c] = "off"]
  /\ armed' = [armed EXCEPT ![c] = FALSE]
  /\ Goto(c, "done")
  /\ UNCHANGED <<mode, cr0, cr4, fc, mem, vmcs, stack, ept, down>>

-----------------------------------------------------------------------------
(* What a core does by itself once start() or stop() was called on it.        *)

StartStep(c) ==
  \/ StartNotOff(c) \/ CheckCr0(c)  \/ CheckFeatureControl(c) \/ EnableVmx(c)
  \/ VmxOn(c)       \/ LoadVmcs(c)  \/ SetupGuest(c)          \/ SetupHost(c)
  \/ SetupControls(c) \/ SetupCallback(c) \/ Launch(c)

StopStep(c) == LeaveVmx(c) \/ DisableVmx(c) \/ ZeroRegions(c) \/ MarkOff(c)

CoreStep(c) == StartStep(c) \/ StopStep(c)

-----------------------------------------------------------------------------
(* vcpu_t by itself: the owner calls its two public methods, in any order, on *)
(* a vcpu that is not inside one of them.                                     *)

CallOnVcpu(c, routine) ==
  /\ At(c, "idle")
  /\ vcpu[c] # "null"
  /\ Goto(c, routine)
  /\ UNCHANGED <<vcpu, mode, cr0, cr4, fc, mem, vmcs, stack, armed, ept, down>>

CallVcpuStart(c) == CallOnVcpu(c, "start")
CallVcpuStop(c)  == CallOnVcpu(c, "stop")

ReturnFromVcpu(c) ==
  /\ ~down
  /\ job[c] \in {"done", "failed"}
  /\ Goto(c, "idle")
  /\ UNCHANGED <<vcpu, mode, cr0, cr4, fc, mem, vmcs, stack, armed, ept, down>>

\* A VM exit of the guest that its handler has no answer for: the host breaks in.
GuestBreaks(c) ==
  /\ ~down
  /\ mode[c] = "guest"
  /\ down' = TRUE
  /\ UNCHANGED <<vcpu, job, mode, cr0, cr4, fc, mem, vmcs, stack, armed, ept>>

\* After a bug check nothing runs.
VcpuDown == down /\ UNCHANGED coreVars

\* Mutant: the constructor does not store a state.
FreshState_Unset == "unset"

\* The state the constructor of vcpu_t stores; every page it allocates is zeroed.
FreshState == "off"

UntouchedCore ==
  /\ job   = [c \in Cores |-> "idle"]
  /\ mode  = [c \in Cores |-> "off"]
  /\ cr0   \in [Cores -> HostCr0s]
  /\ cr4   \in [Cores -> HostCr4s]
  /\ fc    \in [Cores -> FeatureControl]
  /\ vmcs  = [c \in Cores |-> {}]
  /\ stack = [c \in Cores |-> FALSE]
  /\ armed = [c \in Cores |-> FALSE]
  /\ down  = FALSE

VcpuInit ==
  /\ UntouchedCore
  /\ vcpu = [c \in Cores |-> FreshState]
  /\ mem  = [c \in Cores |-> "zero"]
  /\ ept  \in {"null", "ready"}

VcpuNext ==
  \/ \E c \in Cores : \/ CallVcpuStart(c) \/ CallVcpuStop(c) \/ ReturnFromVcpu(c)
                      \/ CoreStep(c) \/ GuestBreaks(c)
  \/ VcpuDown

VcpuSpec == VcpuInit /\ [][VcpuNext]_coreVars

-----------------------------------------------------------------------------
(* Properties.                                                                *)

VcpuTypeOK ==
  /\ vcpu  \in [Cores -> VcpuStates]
  /\ job   \in [Cores -> Jobs]
  /\ mode  \in [Cores -> {"off", "root", "guest"}]
  /\ cr0   \in [Cores -> SUBSET Cr0Bits]
  /\ cr4   \in [Cores -> SUBSET Cr4Bits]
  /\ fc    \in [Cores -> FeatureControl]
  /\ mem   \in [Cores -> {"none", "zero", "ready"}]
  /\ vmcs  \in [Cores -> SUBSET CompleteVmcs]
  /\ stack \in [Cores -> BOOLEAN]
  /\ armed \in [Cores -> BOOLEAN]
  /\ ept   \in {"none", "null", "ready"}
  /\ down  \in BOOLEAN

ModeOf(state) == CASE state = "on"   -> "guest"
                   [] state = "init" -> "root"
                   [] OTHER          -> "off"

\* Past the vmxoff of stop().
LeftVmx == {"disable", "zero", "mark"}

ModeAgrees(c) == mode[c] = IF job[c] \in LeftVmx THEN "off" ELSE ModeOf(vcpu[c])

\* vcpu_t::state tells in which VMX operation its core is, on every path out of
\* start(), whatever failed, and except while stop() is past its vmxoff: stop()
\* picks between vmcall, vmxoff and nothing by it, and each of the two
\* instructions faults in the wrong operation.
StateMatchesCpu == \A c \in Cores : ModeAgrees(c)

VmxOnLegal(c) ==
  /\ mode[c] = "off"
  /\ MeetsFixedBits(cr0[c], Cr0Fixed0, Cr0Fixed1)
  /\ MeetsFixedBits(cr4[c], Cr4Fixed0, Cr4Fixed1)
  /\ "vmxe" \in cr4[c]
  /\ fc[c].lock /\ fc[c].vmxon
  /\ mem[c] = "ready"

WriteLegal(c)  == mode[c] = "root" /\ "current" \in vmcs[c]
LaunchLegal(c) == mode[c] = "root" /\ CompleteVmcs \subseteq vmcs[c] /\ stack[c] /\ ept = "ready"

\* Whatever the cores held before and whatever calls came before, each VMX
\* instruction start() and stop() are about to execute is one the processor
\* accepts: vmxon with CR0/CR4 within the fixed bits and the feature MSR locked
\* on, vmwrites in root operation on a current VMCS, vmlaunch with every group
\* of fields written and the handler on the host stack, and CR4.VMXE is cleared
\* only outside VMX operation.  The vmcall of stop() is a matter of StateMatchesCpu.
InstructionsLegal ==
  \A c \in Cores :
    /\ job[c] = "vmxon" => VmxOnLegal(c)
    /\ job[c] = "load" => mode[c] = "root"
    /\ job[c] \in {"guest", "host", "controls"} => WriteLegal(c)
    /\ job[c] = "launch" => LaunchLegal(c)
    /\ job[c] = "disable" => mode[c] = "off"

\* A core in non-root operation can always take its next exit: its VMCS is
\* complete and current, the stub finds the handler and the vcpu on the host
\* stack, the EPT exists and VMX is enabled; and no page the processor uses is
\* zeroed while the core is in VMX operation.
GuestReady ==
  \A c \in Cores :
    /\ mode[c] = "guest" => /\ vmcs[c] = CompleteVmcs
                            /\ stack[c]
                            /\ ept = "ready"
    /\ mode[c] # "off" => mem[c] = "ready" /\ "vmxe" \in cr4[c]

\* start() enters VMX on pages that hold nothing of an earlier run, "since we
\* might re-enter vm later": no VMCS field and no stack slot is left over.
RestartIsClean ==
  \A c \in Cores : job[c] = "vmxon" => vmcs[c] = {} /\ ~stack[c]

\* setup_cb never runs a second time without teardown_cb between, no guest runs without
\* its setup, and a vcpu that is off has had the teardown of its last setup, also when
\* vmlaunch failed after it.  The converse is not claimed: stop() calls teardown_cb
\* whether setup_cb ran or not, and again when it is called again.
SetupsAreTornDown ==
  \A c \in Cores :
    /\ job[c] = "callback" => ~armed[c]
    /\ mode[c] = "guest" => armed[c]
    /\ vcpu[c] \in {"null", "off"} => ~armed[c]

\* "Make sure CR0 meets CR0 fixed bits in VMX operation" (vcpu.cpp:44): start()
\* refuses a core for its CR0 only when that CR0 does not meet them.
Cr0CheckIsExact ==
  [][\A c \in Cores :
       job[c] = "start" /\ vcpu[c] = "off" /\ job'[c] = "failed" =>
         ~MeetsFixedBits(cr0[c], Cr0Fixed0, Cr0Fixed1)]_coreVars

-----------------------------------------------------------------------------
(* The inductive invariant: what is true of a core at each point of the two   *)
(* routines.                                                                  *)

\* From vmxon to vmlaunch.
InRoot == {"load", "guest", "host", "controls", "callback", "launch"}

\* start() has come to this segment only with this much of the VMCS written.
VmcsAt(segment) ==
  CASE segment = "guest"    -> {"current"}
    [] segment = "host"     -> {"current", "guest"}
    [] segment = "controls" -> {"current", "guest", "host"}
    [] OTHER                -> CompleteVmcs

\* A vcpu that is off holds nothing of an earlier run.
OffIsBlank(c) == vcpu[c] \in {"null", "off"} => vmcs[c] = {} /\ ~stack[c] /\ ~armed[c]

\* A core in VMX operation has the pages and CR4.VMXE it entered with.
InVmxIsBacked(c) == mode[c] # "off" => mem[c] = "ready" /\ "vmxe" \in cr4[c]

\* A vcpu that is on, and not yet being taken down, is complete.
OnIsComplete(c) ==
  vcpu[c] = "on" /\ job[c] \notin LeftVmx =>
    vmcs[c] = CompleteVmcs /\ stack[c] /\ armed[c] /\ ept = "ready"

StartProgress(c) ==
  /\ job[c] \in {"feature", "enable", "vmxon"} => vcpu[c] = "off"
  /\ job[c] \in {"enable", "vmxon"} => fc[c].lock /\ fc[c].vmxon
  /\ job[c] = "vmxon" => /\ MeetsFixedBits(cr0[c], Cr0Fixed0, Cr0Fixed1)
                         /\ MeetsFixedBits(cr4[c], Cr4Fixed0, Cr4Fixed1)
                         /\ "vmxe" \in cr4[c]
                         /\ mem[c] = "ready"
  /\ job[c] \in InRoot => vcpu[c] = "init"
  /\ job[c] \in InRoot \ {"load"} => vmcs[c] = VmcsAt(job[c])
  /\ job[c] \in {"controls", "callback", "launch"} => stack[c]
  /\ job[c] \in {"callback", "launch"} => ept = "ready"
  /\ job[c] \in InRoot \ {"launch"} => ~armed[c]
  /\ job[c] = "launch" => armed[c]

StopProgress(c) ==
  /\ job[c] \in StopJobs => vcpu[c] # "null"
  /\ job[c] = "mark" => vmcs[c] = {} /\ ~stack[c]

CoreInv(c) ==
  ModeAgrees(c) /\ OffIsBlank(c) /\ InVmxIsBacked(c) /\ OnIsComplete(c)
  /\ StartProgress(c) /\ StopProgress(c)

VcpuInv == VcpuTypeOK /\ \A c \in Cores : CoreInv(c)

=============================================================================
