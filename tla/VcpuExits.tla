----------------------------- MODULE VcpuExits -----------------------------
(***************************************************************************)
(* vcpu_t together with its VM exits.  In Vcpu the vmcall of stop() leaves   *)
(* VMX in one step; here that step is an exit of core Self that goes through *)
(* vmexit_stub, passthrough() and handle_vmcall(), while the guest may have  *)
(* been interrupted anywhere, also in an instruction that exits again and    *)
(* again.  handle_vmcall() asks nobody who makes the call: the guest may     *)
(* leave VMX by itself, and its vcpu_t is not told.  The other cores take    *)
(* the steps of Vcpu, where nobody but stop() leaves.                        *)
(***************************************************************************)
EXTENDS Vcpu, VmExit

CONSTANT Self   (* The core whose VM exits are looked at.                      *)

ASSUME SelfAssumption == Self \in Cores

composedVars == <<coreVars, exitVars>>

\* The processor runs the code of the guest, or of the system outside VMX.
OutsideHost == pc \in {"guest", "native"}

-----------------------------------------------------------------------------
(* Into the guest                                                             *)

\* The vmlaunch of start(), and the segment of the guest it succeeds in.
LaunchSelf ==
  /\ pc = "native"
  /\ Launch(Self)
  /\ IF mode'[Self] = "guest" THEN LaunchAgain ELSE UNCHANGED exitVars

-----------------------------------------------------------------------------
(* VM exits                                                                   *)

\* While no lambda of the owner runs on the core, the guest executes anything, the
\* vmcall that leaves VMX included.
GuestExits ==
  /\ ~down
  /\ job[Self] \in {"idle", "done", "failed"}
  /\ \E instruction \in NextExits : ExitOn(instruction)
  /\ UNCHANGED coreVars

\* The lambda runs with interrupts masked, at the level of the IPI: stop() of a
\* vcpu that is on comes to its vmcall, whatever the guest was doing before.
StopExits ==
  /\ At(Self, "stop")
  /\ vcpu[Self] = "on"
  /\ ExitOn("vmcall_vmxoff")
  /\ UNCHANGED coreVars

\* The host's side of the exit, up to the instruction that ends it.
HostRuns ==
  /\ ~down
  /\ SaveRegisters \/ Emulate \/ SkipException \/ FallBack \/ IgnoreVmcall \/ VmcallVmxoff
  /\ UNCHANGED coreVars

\* vmresume.  If that is the answer to the vmcall of stop(), stop() goes on in the
\* guest, behind the vmcall or at it.
HostResumes ==
  /\ ~down
  /\ VmResume
  /\ pc' = "guest"
  /\ IF job[Self] = "stop" /\ rip = "past" THEN Goto(Self, "disable") ELSE UNCHANGED job
  /\ UNCHANGED <<vcpu, mode, cr0, cr4, fc, mem, vmcs, stack, armed, ept, down>>

\* vmxoff, and the jump to the address handle_vmcall() has put into regs().rip: into
\* stop() if that made the vmcall, else into the guest's code, with vcpu_t::state as
\* it was.
HostLeaves ==
  /\ ~down
  /\ VmxoffStub
  /\ mode' = [mode EXCEPT ![Self] = "off"]
  /\ vmcs' = [vmcs EXCEPT ![Self] = @ \ {"current"}]
  /\ IF job[Self] = "stop" /\ live'["rip"] = "next"
     THEN Goto(Self, "disable")
     ELSE UNCHANGED job
  /\ UNCHANGED <<vcpu, cr0, cr4, fc, mem, stack, armed, ept, down>>

\* The handler breaks in, or vmresume refuses the event it injects.
HostBreaks ==
  /\ ~down
  /\ BreakInHandler \/ (VmResume /\ pc' = "broken")
  /\ down' = TRUE
  /\ UNCHANGED <<vcpu, job, mode, cr0, cr4, fc, mem, vmcs, stack, armed, ept>>

-----------------------------------------------------------------------------
(* Everything else start() and stop() do on the core                          *)

RestOfStart ==
  \/ StartNotOff(Self) \/ CheckCr0(Self) \/ CheckFeatureControl(Self) \/ EnableVmx(Self)
  \/ VmxOn(Self) \/ LoadVmcs(Self) \/ SetupGuest(Self) \/ SetupHost(Self)
  \/ SetupControls(Self) \/ SetupCallback(Self)

\* The vmcall of stop() on a core that is out of VMX already is an invalid opcode, which
\* nothing in the kernel handles.
VmcallFaults ==
  /\ At(Self, "stop")
  /\ vcpu[Self] = "on"
  /\ mode[Self] = "off"
  /\ down' = TRUE
  /\ UNCHANGED <<vcpu, job, mode, cr0, cr4, fc, mem, vmcs, stack, armed, ept>>

\* stop() of a vcpu that is not on executes vmxoff itself, or nothing.
RestOfStop ==
  \/ vcpu[Self] # "on" /\ LeaveVmx(Self)
  \/ VmcallFaults
  \/ DisableVmx(Self) \/ ZeroRegions(Self) \/ MarkOff(Self)

SelfRuns == OutsideHost /\ (RestOfStart \/ RestOfStop) /\ UNCHANGED exitVars

SelfCalled ==
  /\ OutsideHost
  /\ CallVcpuStart(Self) \/ CallVcpuStop(Self) \/ ReturnFromVcpu(Self)
  /\ UNCHANGED exitVars

OtherCore(c) ==
  /\ c # Self
  /\ \/ CallVcpuStart(c) \/ CallVcpuStop(c) \/ ReturnFromVcpu(c)
     \/ CoreStep(c) \/ GuestBreaks(c)
  /\ UNCHANGED exitVars

MachineIsDown == VcpuDown /\ UNCHANGED exitVars

ComposedInit == VcpuInit /\ pc = "native" /\ ExitFresh

HostSteps == HostRuns \/ HostResumes \/ HostLeaves \/ HostBreaks

ComposedNext ==
  \/ LaunchSelf \/ GuestExits \/ StopExits
  \/ HostSteps
  \/ SelfRuns \/ SelfCalled
  \/ \E c \in Cores : OtherCore(c)
  \/ MachineIsDown

ComposedSpec == ComposedInit /\ [][ComposedNext]_composedVars

\* The host handles an exit to its end, and start() and stop(), once called, run on.
\* The guest need not exit by itself.
ComposedFairSpec ==
  /\ ComposedSpec
  /\ WF_composedVars(HostSteps)
  /\ WF_composedVars(StopExits)
  /\ WF_composedVars(SelfRuns)

-----------------------------------------------------------------------------
(* Properties.                                                                *)

\* The guest has left VMX by a vmcall of its own, and vcpu_t::state does not say so.
Deserted ==
  /\ pc = "native"
  /\ vcpu[Self] = "on"
  /\ mode[Self] = "off"
  /\ job[Self] \notin LeftVmx

\* vcpu_t::state tells in which VMX operation each core is, as StateMatchesCpu has it,
\* with the one exception the code allows: a guest that left VMX by itself is still
\* on.  No failure, and no order of the exits and the calls, makes another.
StateTellsCpu == \A c \in Cores : ModeAgrees(c) \/ (c = Self /\ Deserted)

\* The guest's own vmcall, as vcpu_t has it: the core leaves VMX and nothing is noted.
GuestLeaves ==
  /\ ~down
  /\ job[Self] \in {"idle", "done", "failed"}
  /\ vcpu[Self] = "on" /\ mode[Self] = "guest"
  /\ mode' = [mode EXCEPT ![Self] = "off"]
  /\ vmcs' = [vmcs EXCEPT ![Self] = @ \ {"current"}]
  /\ UNCHANGED <<vcpu, job, cr0, cr4, fc, mem, stack, armed, ept, down>>

\* The steps of Vcpu, in which stop() comes out of its vmcall from the guest only.
VcpuStep ==
  /\ VcpuNext
  /\ job[Self] = "stop" /\ vcpu[Self] = "on" /\ job'[Self] # "stop" => mode[Self] = "guest"

\* The exit path does for vcpu_t what the one step LeaveVmx assumes: stop() comes
\* out of its vmcall exactly once, behind it, and with the core out of VMX.  The only
\* other exits that change anything of the vcpu break in, or are the guest's own vmcall
\* that leaves VMX; after that one no call brings the vcpu back: start() returns false
\* and the vmcall of stop() faults.
ImplementsVcpu ==
  VcpuInit /\ [][VcpuStep \/ GuestLeaves \/ VmcallFaults]_coreVars

\* From an exit until the host has left it the processor is in the operation, on the
\* VMCS and on the stack that start() set up: no page the host is running on was
\* wiped, and the core has not been taken out of VMX by anything else.
HostIsBacked ==
  pc \in {"stub", "handler", "resume", "leave"} =>
    /\ mode[Self] = "guest"
    /\ vmcs[Self] = CompleteVmcs
    /\ stack[Self]
    /\ mem[Self] = "ready"

\* stop() returns whatever the guest was executing when its core was interrupted,
\* also a vmcall that is never passed over, unless the host breaks in or the guest has
\* left VMX before it.
StopReturns == job[Self] = "stop" ~> (job[Self] = "done" \/ down)

-----------------------------------------------------------------------------
(* The inductive invariant: the two halves agree where the core is.            *)

\* The host handles an exit of the guest that no call on the vcpu is waiting for, or
\* the vmcall of the stop() that runs.
ExitHasCause ==
  pc \in {"stub", "handler", "resume", "leave"} =>
    \/ job[Self] \in {"idle", "done", "failed"} /\ vcpu[Self] = "on"
    \/ job[Self] = "stop" /\ vcpu[Self] = "on" /\ insn = "vmcall_vmxoff"

HandshakeInv ==
  /\ pc = "native" <=> mode[Self] # "guest"
  /\ pc = "broken" => down
  /\ pc = "leave" => insn = "vmcall_vmxoff"
  /\ pc = "resume" => insn # "vmcall_vmxoff"
  /\ ExitHasCause

\* A core the guest took out of VMX has everything start() gave it, but for the VMCS
\* that is no longer current, and no call that gets any further.
DesertedCore ==
  /\ job[Self] \in {"idle", "start", "stop", "done", "failed"}
  /\ vmcs[Self] = VmcsGroups
  /\ stack[Self] /\ armed[Self]

SelfInv == IF Deserted THEN DesertedCore ELSE CoreInv(Self)

ComposedInv ==
  /\ VcpuTypeOK
  /\ \A c \in Cores \ {Self} : CoreInv(c)
  /\ SelfInv
  /\ ExitInv
  /\ HandshakeInv

=============================================================================
