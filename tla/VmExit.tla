------------------------------- MODULE VmExit -------------------------------
(***************************************************************************)
(* One core that runs the guest: the VM exit, vmexit_stub (asm/vmm.asm),    *)
(* vmexit::passthrough and its handlers (hv/vmexit.cpp, hv/vmcall.cpp), and *)
(* the way back by vmresume, or out of VMX by vmxoff.  The cores share      *)
(* nothing of this: each has its VMCS, its host stack and its registers.    *)
(*                                                                          *)
(* A register holds a tag for whose value it has: the guest's when it       *)
(* exited, the address after the guest's instruction, the result a handler  *)
(* computed, or the host's.                                                 *)
(***************************************************************************)
EXTENDS Integers

CONSTANT Exiting   (* The instructions that exit: what the processor always   *)
                   (* intercepts, and what setup_cb asks for.                 *)

\* The reasons passthrough() has a case for.  setup_controls() asks for no exception
\* and no NMI exiting; setup_cb may.
Emulated == {"cpuid", "invd", "invlpg", "rdmsr", "wrmsr"}
VmxInsns == {"vmclear", "vmptrld", "vmptrst", "vmread", "vmresume", "vmwrite", "vmxoff", "vmlaunch"}

\* vmcall by the reason in rcx.
Vmcalls  == {"vmcall_ping", "vmcall_vmxoff", "vmcall_other"}

\* Two reasons that break in by a case of their own, and some that do by default.
BreakIn  == {"ept_violation", "ept_misconfig", "vmxon", "invept", "xsetbv", "cr_access"}

Instructions == Emulated \cup VmxInsns \cup Vmcalls \cup BreakIn \cup {"exception_nmi"}

ASSUME ExitingAssumption == Exiting \subseteq Instructions

VARIABLES
  pc,      (* "guest", a point of the stub, "native" after vmxoff, "broken"   *)
  insn,    (* the guest instruction of the last exit                          *)
  rip,     (* guest_rip of the VMCS: "at" that instruction, "past" it, or      *)
           (* "astray"                                                        *)
  event,   (* what vm_entry_intr_info injects                                 *)
  live,    (* the registers of the processor                                  *)
  saved,   (* regs_t on the host stack                                        *)
  al,      (* what the handler returned                                       *)
  sp,      (* host rsp, as an offset from the end of stack_t                  *)
  flushed  (* the linear address of the last invvpid                          *)

exitVars == <<pc, insn, rip, event, live, saved, al, sp, flushed>>

-----------------------------------------------------------------------------
(* Registers and the host stack                                               *)

\* The general-purpose registers, as far as they are treated differently: the
\* other ones a C++ function may overwrite, and the other ones it must keep.
Gprs     == {"rax", "rbx", "rcx", "rdx", "scratch", "kept"}
Scratch  == {"rax", "rcx", "rdx", "scratch"}

\* What a VM exit loads from the host-state area.  "rest" stands for RFLAGS, CR0,
\* CR4, the segment bases, DR7, DEBUGCTL and the SYSENTER MSRs.
Switched == {"rip", "rsp", "cr3", "gdtr", "idtr", "rest"}

Regs     == Gprs \cup Switched
Frame    == Gprs \cup {"rip", "rsp"}
Tags     == {"guest", "next", "result", "host"}

SizeOfRegs  == 18 * 8 + 16 * 16
SizeOfFrame == 5 * 8
ShadowSpace == 32

\* Members of stack_t, from its end; host_rsp is the address of vmexit_handler.
VcpuSlot    == -8
HandlerSlot == -16
RegsSlot    == HandlerSlot - 8 - SizeOfFrame - SizeOfRegs

-----------------------------------------------------------------------------
(* Exit and save                                                              *)

NoEvent == [vector |-> "none", code |-> FALSE]

\* What executes as the same instruction: a vmcall that is executed again finds in rcx
\* what the C++ code left there, and so may ask for anything.
Repeats == {instruction \in Instructions :
              instruction = insn \/ {instruction, insn} \subseteq Vmcalls}

\* If the last exit left the guest at its instruction with no fault to deliver, it
\* executes that one again.
NextExits == IF rip = "at" /\ event = NoEvent THEN Repeats ELSE Exiting

\* The guest runs up to an instruction that exits.
ExitOn(instruction) ==
  /\ pc = "guest"
  /\ insn' = instruction
  /\ rip' = "at"
  /\ event' = NoEvent
  /\ live' = [r \in Regs |-> IF r \in Switched THEN "host" ELSE "guest"]
  /\ sp' = HandlerSlot
  /\ pc' = "stub"
  /\ UNCHANGED <<saved, al, flushed>>

VmExit == \E instruction \in NextExits : ExitOn(instruction)

\* Mutant: the trap frame without its alignment slot.
FrameSize_Unaligned == SizeOfFrame

\* The stub leaves a slot below vmexit_handler unused.
FrameSize == 8 + SizeOfFrame

\* The trap frame, the registers, and the shadow space of the call.
SaveRegisters ==
  /\ pc = "stub"
  /\ saved' = [r \in Frame |-> IF r \in Gprs THEN live[r] ELSE "guest"]
  /\ sp' = sp - FrameSize - SizeOfRegs - ShadowSpace
  /\ pc' = "handler"
  /\ UNCHANGED <<insn, rip, event, live, al, flushed>>

-----------------------------------------------------------------------------
(* vmexit::passthrough                                                        *)

\* The C++ code between the call and the return of the handler.
Clobbered(registers) == [r \in Regs |-> IF r \in Scratch THEN "host" ELSE registers[r]]

ReturnFromHandler(terminate) ==
  /\ al' = terminate
  /\ sp' = sp + ShadowSpace
  /\ pc' = IF terminate THEN "leave" ELSE "resume"

\* Mutant: handle_msr_write() returns without skip_instruction().
Skipped_NotWrmsr == IF insn = "wrmsr" THEN "at" ELSE "past"

\* vcpu_t::skip_instruction().
Skipped == "past"

\* exit_qualification_t is a structure, and its one initializer is the first
\* member's.
ExitQualification(field) == [displacement |-> field, linear_address |-> "zero"]

\* What the handlers of Emulated leave in regs().
EmulatedRegs ==
  CASE insn = "cpuid" -> [r \in Frame |-> IF r \in {"rax", "rbx", "rcx", "rdx"} THEN "result"
                                           ELSE saved[r]]
    [] insn = "rdmsr" -> [r \in Frame |-> IF r \in {"rax", "rdx"} THEN "result" ELSE saved[r]]
    [] OTHER          -> saved

Emulate ==
  /\ pc = "handler"
  /\ insn \in Emulated
  /\ saved' = EmulatedRegs
  /\ flushed' = IF insn = "invlpg" THEN ExitQualification("operand").linear_address ELSE flushed
  /\ rip' = Skipped
  /\ live' = Clobbered(live)
  /\ ReturnFromHandler(FALSE)
  /\ UNCHANGED <<insn, event>>

\* handle_exception() passes over the exception.  The instruction length it adds is
\* defined for software exceptions only.
SkipException ==
  /\ pc = "handler"
  /\ insn = "exception_nmi"
  /\ rip' \in {Skipped, "at", "astray"}
  /\ live' = Clobbered(live)
  /\ ReturnFromHandler(FALSE)
  /\ UNCHANGED <<insn, event, saved, flushed>>

\* vmx::inject_ud(): a hardware exception with the vector below, and no code.
InjectUd == [vector |-> "general_protection_fault", code |-> FALSE]

\* handle_vmx_fallback().
FallBack ==
  /\ pc = "handler"
  /\ insn \in VmxInsns
  /\ event' = InjectUd
  /\ live' = Clobbered(live)
  /\ ReturnFromHandler(FALSE)
  /\ UNCHANGED <<insn, rip, saved, flushed>>

\* handle_vmcall() of ping, and of a reason it does not know.
IgnoreVmcall ==
  /\ pc = "handler"
  /\ insn \in Vmcalls \ {"vmcall_vmxoff"}
  /\ live' = Clobbered(live)
  /\ ReturnFromHandler(FALSE)
  /\ UNCHANGED <<insn, rip, event, saved, flushed>>

\* Mutant: the guest's CR3 is not loaded.
GivenBack_NotCr3 == {"gdtr", "idtr"}

\* What handle_vmcall() loads from the guest-state area before it terminates.
GivenBack == {"cr3", "gdtr", "idtr"}

\* Mutant: the vmxoff case ends like the ping case.
VmcallVmxoff_Breaks ==
  /\ pc = "handler"
  /\ insn = "vmcall_vmxoff"
  /\ live' = Clobbered(live)
  /\ ReturnFromHandler(FALSE)
  /\ UNCHANGED <<insn, rip, event, saved, flushed>>

\* Mutant: it skips the vmcall and returns false.
VmcallVmxoff_Skips ==
  /\ pc = "handler"
  /\ insn = "vmcall_vmxoff"
  /\ rip' = Skipped
  /\ live' = Clobbered(live)
  /\ ReturnFromHandler(FALSE)
  /\ UNCHANGED <<insn, event, saved, flushed>>

VmcallVmxoff ==
  /\ pc = "handler"
  /\ insn = "vmcall_vmxoff"
  /\ saved' = [saved EXCEPT !["rip"] = "next"]
  /\ live' = [r \in Regs |-> IF r \in GivenBack THEN "guest" ELSE Clobbered(live)[r]]
  /\ ReturnFromHandler(TRUE)
  /\ UNCHANGED <<insn, rip, event, flushed>>

\* __debugbreak() in the host.
BreakInHandler ==
  /\ pc = "handler"
  /\ insn \in BreakIn
  /\ pc' = "broken"
  /\ UNCHANGED <<insn, rip, event, live, saved, al, sp, flushed>>

-----------------------------------------------------------------------------
(* The rest of vmexit_stub                                                     *)

\* The processor wants an error code exactly for the vectors that have one.
EntryAccepts(e) ==
  e.vector # "none" => (e.code <=> e.vector = "general_protection_fault")

\* vmresume with the registers as the handler left them; on failure, int 3.
VmResume ==
  /\ pc = "resume"
  /\ \/ /\ EntryAccepts(event)
        /\ live' = [r \in Regs |-> IF r \in Switched THEN "guest" ELSE live[r]]
        /\ pc' = "guest"
     \/ /\ ~EntryAccepts(event)
        /\ pc' = "broken"
        /\ UNCHANGED live
  /\ UNCHANGED <<insn, rip, event, saved, al, sp, flushed>>

\* vmxoff_stub: the registers are restored, rcx and rdx carry the address and the
\* stack to continue with.
VmxoffStub ==
  /\ pc = "leave"
  /\ live' = [r \in Regs |->
                CASE r \in {"rcx", "rdx"} -> "host"
                  [] r \in Frame \ {"rcx", "rdx"} -> saved[r]
                  [] OTHER -> live[r]]
  /\ sp' = sp + SizeOfRegs
  /\ pc' = "native"
  /\ UNCHANGED <<insn, rip, event, saved, al, flushed>>

\* vcpu_t::stop() has returned, and later start() enters the guest afresh.
LaunchAgain ==
  /\ pc = "native"
  /\ pc' = "guest"
  /\ rip' = "past"
  /\ live' = [r \in Regs |-> "guest"]
  /\ UNCHANGED <<insn, event, saved, al, sp, flushed>>

Broken == pc = "broken" /\ UNCHANGED exitVars

ExitFresh ==
  /\ insn \in Exiting
  /\ rip = "past"
  /\ event = NoEvent
  /\ live = [r \in Regs |-> "guest"]
  /\ saved = [r \in Frame |-> "host"]
  /\ al = FALSE
  /\ sp = HandlerSlot
  /\ flushed = "none"

ExitInit == pc = "guest" /\ ExitFresh

HostStep ==
  \/ SaveRegisters
  \/ Emulate \/ SkipException \/ FallBack \/ IgnoreVmcall \/ VmcallVmxoff \/ BreakInHandler
  \/ VmResume \/ VmxoffStub

ExitNext == VmExit \/ HostStep \/ LaunchAgain \/ Broken

ExitSpec == ExitInit /\ [][ExitNext]_exitVars

\* The host code and the guest both keep executing instructions.
ExitFairSpec == ExitSpec /\ WF_exitVars(HostStep) /\ WF_exitVars(VmExit)

-----------------------------------------------------------------------------
(* Properties.                                                                *)

Points == {"guest", "stub", "handler", "resume", "leave", "native", "broken"}

\* Every variable has its type; the host stack pointer is at one of the four levels
\* of vmexit_stub, so that no exit leaves anything behind on the host stack.
ExitTypeOK ==
  /\ pc \in Points
  /\ insn \in Instructions
  /\ rip \in {"at", "past", "astray"}
  /\ event \in [vector : {"none", "undefined_opcode", "general_protection_fault"}, code : BOOLEAN]
  /\ live \in [Regs -> Tags]
  /\ saved \in [Frame -> Tags]
  /\ al \in BOOLEAN
  /\ sp \in {HandlerSlot, RegsSlot - ShadowSpace, RegsSlot, RegsSlot + SizeOfRegs}
  /\ flushed \in {"none", "operand", "zero"}

\* Whichever exits went before, the stub finds the handler and the vcpu where
\* setup_host() put them, saves the registers where vcpu_t::regs() reads them,
\* and has the stack aligned for movaps and for the call.
StubFindsSlots ==
  pc = "handler" =>
    /\ sp + 40 + SizeOfFrame + SizeOfRegs = HandlerSlot
    /\ sp + 48 + SizeOfFrame + SizeOfRegs = VcpuSlot
    /\ sp + ShadowSpace = RegsSlot
    /\ sp % 16 = 0

\* An instruction the host executes for the guest is executed once: the guest
\* continues after it and with no fault; one that faults is not passed over.
EmulatedOnce ==
  pc = "resume" =>
    /\ insn \in Emulated => rip = "past" /\ event = NoEvent
    /\ insn \in VmxInsns => rip = "at" /\ event # NoEvent

\* The code that made the vmcall continues behind it on its own stack and address
\* space, with its own descriptor tables and general-purpose registers but rcx and rdx,
\* which a callee may overwrite.  Of everything else an exit loads it has the host's:
\* RFLAGS, the segment bases, the SYSENTER MSRs, DR7 and DEBUGCTL are not given back.
LeaveRestoresCaller ==
  pc = "native" /\ al =>
    /\ live["rip"] = "next"
    /\ \A r \in (Frame \cup {"cr3", "gdtr", "idtr"}) \ {"rip", "rcx", "rdx"} : live[r] = "guest"
    /\ live["rest"] = "host"

\* "Smoke test." (vmcall.hpp:14): the guest that pings gets past its vmcall.
PingReturns == (pc = "stub" /\ insn = "vmcall_ping") ~> (rip = "past")

\* "Inject undefined opcode." (vmexit.cpp:128): that is the fault of a guest that
\* executes a VMX instruction.
VmxInsnFaultsUd ==
  pc = "resume" /\ insn \in VmxInsns => event = [vector |-> "undefined_opcode", code |-> FALSE]

\* "For INVLPG, the exit qualification contains the linear-address operand"
\* (arch/vmx.hpp:576): what handle_invlpg() invalidates is that address.
InvlpgFlushesOperand == pc = "resume" /\ insn = "invlpg" => flushed = "operand"

-----------------------------------------------------------------------------
(* The inductive invariant: what is where at each point of the way through the *)
(* host.                                                                      *)

\* Where the host stack pointer is from the exit to the instruction that ends it.
StackLevel ==
  /\ pc = "stub" => sp = HandlerSlot
  /\ pc = "handler" => sp = RegsSlot - ShadowSpace
  /\ pc \in {"resume", "leave"} => sp = RegsSlot

\* The guest's registers go from the processor to regs_t before anything overwrites
\* them, and what the maker of the vmcall gets back comes from there; what no handler
\* touches stays the host's.
GuestIsSaved ==
  /\ pc = "stub" => \A r \in Gprs : live[r] = "guest"
  /\ pc = "handler" => \A r \in Frame : saved[r] = "guest"
  /\ pc = "leave" => /\ saved["rip"] = "next"
                     /\ \A r \in Frame \ {"rip"} : saved[r] = "guest"
                     /\ \A r \in GivenBack : live[r] = "guest"
  /\ pc \in {"stub", "handler", "leave"} => live["rest"] = "host"

\* The handler finds the guest at its instruction, with nothing to inject.
HandlerStartsClean == pc \in {"stub", "handler"} => rip = "at" /\ event = NoEvent

ExitInv ==
  ExitTypeOK /\ StackLevel /\ GuestIsSaved /\ HandlerStartsClean /\ EmulatedOnce /\ LeaveRestoresCaller

=============================================================================
