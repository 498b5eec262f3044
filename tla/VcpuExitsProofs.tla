--------------------------- MODULE VcpuExitsProofs ---------------------------
(***************************************************************************)
(* Theorems about the exit path, for any set of instructions that exit, in   *)
(* any order; then about vcpu_t together with its VM exits, for any cores,   *)
(* any exits and any values of the control registers.  What Vcpu calls one   *)
(* step, the vmcall of stop(), is proved to be one, and what the guest's own *)
(* vmcall of that kind does is proved to be all it does.  The lemmas about   *)
(* the steps of the exit path do not ask when the guest exits, and are used  *)
(* again where vcpu_t decides that.                                          *)
(***************************************************************************)
EXTENDS VcpuExits, VcpuProofs

-----------------------------------------------------------------------------
(* The exit path by itself                                                    *)

\* What an instruction set, an event and the levels of the host stack are.
LEMMA ExitFacts ==
  /\ NoEvent \in [vector : {"none", "undefined_opcode", "general_protection_fault"}, code : BOOLEAN]
  /\ InjectUd \in [vector : {"none", "undefined_opcode", "general_protection_fault"}, code : BOOLEAN]
  /\ InjectUd # NoEvent
  /\ HandlerSlot - FrameSize - SizeOfRegs - ShadowSpace = RegsSlot - ShadowSpace
  /\ (RegsSlot - ShadowSpace) + ShadowSpace = RegsSlot
  /\ Gprs \subseteq Regs /\ Frame \subseteq Regs /\ Gprs \subseteq Frame
  /\ Emulated \cap VmxInsns = {}
  BY DEF NoEvent, InjectUd, HandlerSlot, FrameSize, SizeOfFrame, SizeOfRegs, ShadowSpace, RegsSlot,
     Gprs, Regs, Frame, Switched, Emulated, VmxInsns

\* The variables keep their types across the C++ code.
LEMMA ClobberedType ==
  ASSUME NEW registers \in [Regs -> Tags]
  PROVE  Clobbered(registers) \in [Regs -> Tags]
  BY DEF Clobbered, Tags

-----------------------------------------------------------------------------
(* One lemma per step                                                         *)

\* Before the first exit.
LEMMA FreshInv == pc \in {"guest", "native"} /\ ExitFresh => ExitInv
  BY ExitFacts, ExitingAssumption
     DEF ExitFresh, ExitInv, ExitTypeOK, StackLevel, GuestIsSaved, HandlerStartsClean, EmulatedOnce,
         LeaveRestoresCaller, Points, Tags

\* An exit, of whatever instruction, switches to the level of the handler's slot.
LEMMA ExitOnInv ==
  ASSUME ExitInv, NEW instruction \in Instructions, ExitOn(instruction)
  PROVE  ExitInv'
<1>1. ExitTypeOK'
  BY ExitFacts DEF ExitOn, ExitInv, ExitTypeOK, Points, Tags
<1>2. \A r \in Gprs : live'[r] = "guest"
  BY ExitFacts DEF ExitOn, Gprs, Switched
<1>3. live'["rest"] = "host"
  BY DEF ExitOn, Regs, Switched
<1>4. QED
  BY <1>1, <1>2, <1>3 DEF ExitOn, ExitInv, StackLevel, GuestIsSaved, HandlerStartsClean, EmulatedOnce,
     LeaveRestoresCaller

\* The stub stores the guest's registers before it calls anything.
LEMMA SaveRegistersInv ==
  ASSUME ExitInv, SaveRegisters
  PROVE  ExitInv'
<1> USE DEF SaveRegisters
<1>1. sp = HandlerSlot /\ sp' = RegsSlot - ShadowSpace
  BY ExitFacts DEF ExitInv, StackLevel
<1>2. saved' = [r \in Frame |-> "guest"]
  BY DEF ExitInv, GuestIsSaved
<1>3. ExitTypeOK'
  BY <1>1, <1>2 DEF ExitInv, ExitTypeOK, Points, Tags
<1>4. QED
  BY <1>1, <1>2, <1>3 DEF ExitInv, StackLevel, GuestIsSaved, HandlerStartsClean, EmulatedOnce,
     LeaveRestoresCaller

\* A handler that comes back to the guest leaves the stack where vmexit_stub resumes.
LEMMA HandlerResumes ==
  ASSUME ExitInv, pc = "handler", ReturnFromHandler(FALSE), insn' = insn,
         live' = Clobbered(live), saved' \in [Frame -> Tags],
         rip' \in {"at", "past", "astray"}, event' \in {NoEvent, InjectUd},
         flushed' \in {"none", "operand", "zero"},
         EmulatedOnce'
  PROVE  ExitInv'
<1>1. pc' = "resume" /\ sp' = RegsSlot /\ al' = FALSE
  BY ExitFacts DEF ReturnFromHandler, ExitInv, StackLevel
<1>2. ExitTypeOK'
  BY <1>1, ClobberedType, ExitFacts DEF ExitInv, ExitTypeOK, Points
<1>3. QED
  BY <1>1, <1>2 DEF ExitInv, StackLevel, GuestIsSaved, HandlerStartsClean, LeaveRestoresCaller

\* The handlers of passthrough() that return to the guest: those that execute its
\* instruction skip it, those that fault it do not.
LEMMA HandlersInv ==
  ASSUME ExitInv, Emulate \/ SkipException \/ FallBack \/ IgnoreVmcall
  PROVE  ExitInv'
<1>1. pc = "handler" => rip = "at" /\ event = NoEvent
  BY DEF ExitInv, HandlerStartsClean
<1>2. CASE Emulate
  <2>1. saved' \in [Frame -> Tags]
    BY <1>2 DEF Emulate, EmulatedRegs, ExitInv, ExitTypeOK, Tags
  <2>2. flushed' \in {"none", "operand", "zero"}
    BY <1>2 DEF Emulate, ExitQualification, ExitInv, ExitTypeOK
  <2>3. EmulatedOnce'
    BY <1>1, <1>2, ExitFacts DEF Emulate, EmulatedOnce, Skipped
  <2>4. QED
    BY <1>1, <1>2, <2>1, <2>2, <2>3, HandlerResumes DEF Emulate, Skipped
<1>3. CASE SkipException
  <2>1. EmulatedOnce'
    BY <1>3 DEF SkipException, EmulatedOnce, Emulated, VmxInsns
  <2>2. QED
    BY <1>1, <1>3, <2>1, HandlerResumes DEF SkipException, Skipped, ExitInv, ExitTypeOK
<1>4. CASE FallBack
  <2>1. EmulatedOnce'
    BY <1>1, <1>4, ExitFacts DEF FallBack, EmulatedOnce
  <2>2. QED
    BY <1>1, <1>4, <2>1, HandlerResumes DEF FallBack, ExitInv, ExitTypeOK
<1>5. CASE IgnoreVmcall
  <2>1. EmulatedOnce'
    BY <1>5 DEF IgnoreVmcall, EmulatedOnce, Emulated, VmxInsns, Vmcalls
  <2>2. QED
    BY <1>1, <1>5, <2>1, HandlerResumes DEF IgnoreVmcall, ExitInv, ExitTypeOK
<1>6. QED
  BY <1>2, <1>3, <1>4, <1>5

\* The vmcall that leaves VMX puts the address behind it into regs_t, and the guest's
\* page table and descriptor tables back into the processor.
LEMMA VmcallVmxoffInv ==
  ASSUME ExitInv, VmcallVmxoff
  PROVE  ExitInv'
<1> USE DEF VmcallVmxoff
<1>1. pc' = "leave" /\ sp' = RegsSlot /\ al' = TRUE
  BY ExitFacts DEF ReturnFromHandler, ExitInv, StackLevel
<1>2. saved = [r \in Frame |-> "guest"]
  BY DEF ExitInv, ExitTypeOK, GuestIsSaved
<1>3. saved' = [r \in Frame |-> IF r = "rip" THEN "next" ELSE "guest"]
  BY <1>2
<1>4. live' \in [Regs -> Tags]
  BY ClobberedType DEF ExitInv, ExitTypeOK, Tags
<1>5. \A r \in GivenBack : live'[r] = "guest"
  BY DEF GivenBack, Regs, Switched
<1>6. ExitTypeOK'
  BY <1>1, <1>3, <1>4 DEF ExitInv, ExitTypeOK, Points, Tags
<1>7. saved'["rip"] = "next" /\ \A r \in Frame \ {"rip"} : saved'[r] = "guest"
  BY <1>3 DEF Frame
<1>8. live'["rest"] = "host"
  BY DEF ExitInv, GuestIsSaved, Clobbered, Scratch, GivenBack, Regs, Switched
<1>9. QED
  BY <1>1, <1>5, <1>6, <1>7, <1>8 DEF ExitInv, StackLevel, GuestIsSaved, HandlerStartsClean,
     EmulatedOnce, LeaveRestoresCaller

\* A handler that breaks in.
LEMMA BreakInInv ==
  ASSUME ExitInv, BreakInHandler
  PROVE  ExitInv'
  BY DEF BreakInHandler, ExitInv, ExitTypeOK, Points, StackLevel, GuestIsSaved, HandlerStartsClean,
     EmulatedOnce, LeaveRestoresCaller

\* vmresume, whether the processor enters the guest or refuses.
LEMMA VmResumeInv ==
  ASSUME ExitInv, VmResume
  PROVE  ExitInv'
<1>1. live' \in [Regs -> Tags]
  BY DEF VmResume, ExitInv, ExitTypeOK, Tags
<1>2. pc' \in {"guest", "broken"} /\ UNCHANGED <<insn, rip, event, saved, al, sp, flushed>>
  BY DEF VmResume
<1>3. QED
  BY <1>1, <1>2 DEF ExitInv, ExitTypeOK, Points, StackLevel, GuestIsSaved, HandlerStartsClean,
     EmulatedOnce, LeaveRestoresCaller

\* vmxoff_stub gives back what handle_vmcall() and the stub have saved.
LEMMA VmxoffStubInv ==
  ASSUME ExitInv, VmxoffStub
  PROVE  ExitInv'
<1> USE DEF VmxoffStub
<1>1. pc' = "native" /\ sp' = RegsSlot + SizeOfRegs
  BY DEF ExitInv, StackLevel
<1>2. \A r \in Frame \ {"rip"} : saved[r] = "guest"
  BY DEF ExitInv, GuestIsSaved
<1>3. live' \in [Regs -> Tags]
  BY DEF ExitInv, ExitTypeOK, Tags
<1>4. live'["rip"] = "next"
  BY DEF ExitInv, GuestIsSaved, Regs, Frame, Switched
<1>5. \A r \in Frame \ {"rip", "rcx", "rdx"} : live'[r] = "guest"
  BY <1>2, ExitFacts
<1>6. \A r \in {"cr3", "gdtr", "idtr"} : live'[r] = "guest"
  BY DEF ExitInv, GuestIsSaved, GivenBack, Regs, Frame, Gprs, Switched
<1>7. live'["rest"] = "host"
  BY DEF ExitInv, GuestIsSaved, Regs, Frame, Gprs, Switched
<1>8. ExitTypeOK'
  BY <1>1, <1>3 DEF ExitInv, ExitTypeOK, Points
<1>9. LeaveRestoresCaller'
  BY <1>4, <1>5, <1>6, <1>7 DEF LeaveRestoresCaller, Frame, Gprs
<1>10. QED
  BY <1>1, <1>8, <1>9 DEF ExitInv, StackLevel, GuestIsSaved, HandlerStartsClean, EmulatedOnce

\* A later start() enters the guest with all its own registers.
LEMMA LaunchAgainInv ==
  ASSUME ExitInv, LaunchAgain
  PROVE  ExitInv'
  BY DEF LaunchAgain, ExitInv, ExitTypeOK, Points, Tags, StackLevel, GuestIsSaved,
     HandlerStartsClean, EmulatedOnce, LeaveRestoresCaller

\* A step that leaves the exit path alone.
LEMMA StutterInv ==
  ASSUME ExitInv, UNCHANGED exitVars
  PROVE  ExitInv'
  BY DEF exitVars, ExitInv, ExitTypeOK, StackLevel, GuestIsSaved, HandlerStartsClean, EmulatedOnce,
     LeaveRestoresCaller

\* Every step of the host.
LEMMA HostStepInv ==
  ASSUME ExitInv, HostStep
  PROVE  ExitInv'
  BY SaveRegistersInv, HandlersInv, VmcallVmxoffInv, BreakInInv, VmResumeInv, VmxoffStubInv
     DEF HostStep

\* The invariant puts the stub's fixed offsets where setup_host() put its slots.
LEMMA ExitInvIsEnough ==
  ASSUME ExitInv
  PROVE  ExitTypeOK /\ StubFindsSlots /\ EmulatedOnce /\ LeaveRestoresCaller
<1>1. pc = "handler" => sp = RegsSlot - ShadowSpace
  BY DEF ExitInv, StackLevel
<1>2. StubFindsSlots
  BY <1>1 DEF StubFindsSlots, RegsSlot, ShadowSpace, SizeOfRegs, SizeOfFrame, HandlerSlot, VcpuSlot
<1>3. QED
  BY <1>2 DEF ExitInv

-----------------------------------------------------------------------------
(* Theorems                                                                   *)

\* The inductive invariant of the exit path.
THEOREM ExitInvariance == ExitSpec => []ExitInv
<1>1. ExitInit => ExitInv
  BY FreshInv DEF ExitInit
<1>2. ExitInv /\ [ExitNext]_exitVars => ExitInv'
  <2> SUFFICES ASSUME ExitInv, [ExitNext]_exitVars PROVE ExitInv'
    OBVIOUS
  <2>1. CASE VmExit
    <3>1. PICK instruction \in NextExits : ExitOn(instruction)
      BY <2>1 DEF VmExit
    <3>2. instruction \in Instructions
      BY <3>1, ExitingAssumption DEF NextExits, Repeats
    <3>3. QED
      BY <3>1, <3>2, ExitOnInv
  <2>2. CASE HostStep
    BY <2>2, HostStepInv
  <2>3. CASE LaunchAgain
    BY <2>3, LaunchAgainInv
  <2>4. CASE Broken \/ UNCHANGED exitVars
    BY <2>4, StutterInv DEF Broken
  <2>5. QED
    BY <2>1, <2>2, <2>3, <2>4 DEF ExitNext
<1>3. QED
  BY <1>1, <1>2, PTL DEF ExitSpec

\* Type correctness of the exit path; no exit leaves anything on the host stack.
THEOREM ExitTypeCorrect == ExitSpec => []ExitTypeOK
<1>1. ExitInv => ExitTypeOK
  BY ExitInvIsEnough
<1>2. QED
  BY <1>1, ExitInvariance, PTL

\* The offsets written into vmm.asm find the handler, the vcpu and regs_t at every exit.
THEOREM StubFindsSlotsHolds == ExitSpec => []StubFindsSlots
<1>1. ExitInv => StubFindsSlots
  BY ExitInvIsEnough
<1>2. QED
  BY <1>1, ExitInvariance, PTL

\* An instruction is executed for the guest, or faults, but not both.
THEOREM EmulatedOnceHolds == ExitSpec => []EmulatedOnce
<1>1. ExitInv => EmulatedOnce
  BY ExitInvIsEnough
<1>2. QED
  BY <1>1, ExitInvariance, PTL

\* The vmcall that leaves VMX returns with the caller's stack, address space, descriptor
\* tables and general-purpose registers but rcx and rdx, and with the host's RFLAGS,
\* segment bases, SYSENTER MSRs and debug registers.
THEOREM LeaveRestoresCallerHolds == ExitSpec => []LeaveRestoresCaller
<1>1. ExitInv => LeaveRestoresCaller
  BY ExitInvIsEnough
<1>2. QED
  BY <1>1, ExitInvariance, PTL

-----------------------------------------------------------------------------
(* The exit path in the composition                                           *)

\* The steps of the composition are, for the exit path, exits and steps of the host.
LEMMA ComposedKeepsExit ==
  ASSUME ExitInv, ComposedNext \/ UNCHANGED composedVars
  PROVE  ExitInv'
<1>1. CASE UNCHANGED exitVars
  BY <1>1, StutterInv
<1>2. CASE LaunchSelf
  BY <1>1, <1>2, LaunchAgainInv DEF LaunchSelf
<1>3. CASE GuestExits
  <2>1. PICK instruction \in NextExits : ExitOn(instruction)
    BY <1>3 DEF GuestExits
  <2>2. instruction \in Instructions
    BY <2>1, ExitingAssumption DEF NextExits, Repeats
  <2>3. QED
    BY <2>1, <2>2, ExitOnInv
<1>4. CASE StopExits
  BY <1>4, ExitOnInv DEF StopExits, Instructions, Vmcalls
<1>5. CASE HostSteps
  <2>1. HostStep
    BY <1>5 DEF HostSteps, HostRuns, HostResumes, HostLeaves, HostBreaks, HostStep
  <2>2. QED
    BY <2>1, HostStepInv
<1>6. CASE SelfRuns \/ SelfCalled \/ (\E c \in Cores : OtherCore(c)) \/ MachineIsDown
  BY <1>1, <1>6 DEF SelfRuns, SelfCalled, OtherCore, MachineIsDown
<1>7. CASE UNCHANGED composedVars
  BY <1>1, <1>7 DEF composedVars
<1>8. QED
  BY <1>2, <1>3, <1>4, <1>5, <1>6, <1>7 DEF ComposedNext

-----------------------------------------------------------------------------
(* The core                                                                   *)

\* As long as the guest has not left VMX by itself, every core is as in Vcpu.
LEMMA NotDeserted == ComposedInv /\ ~Deserted => VcpuInv
  BY DEF ComposedInv, SelfInv, VcpuInv

\* A core that is as in Vcpu is not one the guest has left.
LEMMA CoreIsNotDeserted == CoreInv(Self) => ~Deserted
  BY DEF CoreInv, ModeAgrees, ModeOf, Deserted

\* A guest that has left has no exits.
LEMMA HostIsNotDeserted == pc # "native" => ~Deserted
  BY DEF Deserted

\* vmresume never answers the vmcall of stop(), so it changes nothing of the vcpu.
LEMMA ResumeIsStutter ==
  ASSUME ComposedInv, HostResumes
  PROVE  UNCHANGED coreVars
<1>1. pc = "resume" /\ job[Self] # "stop"
  BY DEF HostResumes, VmResume, ComposedInv, HandshakeInv, ExitHasCause
<1>2. QED
  BY <1>1 DEF HostResumes, coreVars

\* What the vmxoff at the end of an exit finds.
LEMMA LeaveFacts ==
  ASSUME ComposedInv, HostLeaves
  PROVE  /\ pc = "leave" /\ pc' = "native" /\ ~down
         /\ mode[Self] = "guest" /\ vcpu[Self] = "on"
         /\ job[Self] \in {"idle", "done", "failed", "stop"}
         /\ live'["rip"] = "next"
<1>1. pc = "leave" /\ pc' = "native" /\ ~down
  BY DEF HostLeaves, VmxoffStub
<1>2. live'["rip"] = "next"
  BY <1>1 DEF HostLeaves, VmxoffStub, ComposedInv, ExitInv, GuestIsSaved, Regs, Frame, Switched
<1>3. QED
  BY <1>1, <1>2 DEF ComposedInv, HandshakeInv, ExitHasCause

\* If stop() made the vmcall, that vmxoff is the one step LeaveVmx.
LEMMA LeaveIsOneStep ==
  ASSUME ComposedInv, HostLeaves, job[Self] = "stop"
  PROVE  LeaveVmx(Self)
  BY LeaveFacts DEF HostLeaves, LeaveVmx, At

\* If nobody called stop(), the guest made it.
LEMMA LeaveIsGuests ==
  ASSUME ComposedInv, HostLeaves, job[Self] # "stop"
  PROVE  GuestLeaves
<1>1. UNCHANGED job
  BY DEF HostLeaves
<1>2. QED
  BY <1>1, LeaveFacts DEF HostLeaves, GuestLeaves

\* The host breaks in only on behalf of a guest.
LEMMA BreakIsGuestBreak ==
  ASSUME ComposedInv, HostBreaks
  PROVE  GuestBreaks(Self)
<1>1. pc \in {"handler", "resume"}
  BY DEF HostBreaks, BreakInHandler, VmResume
<1>2. mode[Self] = "guest"
  BY <1>1 DEF ComposedInv, HandshakeInv
<1>3. QED
  BY <1>2 DEF HostBreaks, GuestBreaks

\* What core Self does when another one moves.
LEMMA OtherIsLocal ==
  ASSUME VcpuTypeOK, NEW c \in Cores, OtherCore(c)
  PROVE  /\ c # Self
         /\ \A d \in Cores \ {c} : Untouched(d)
         /\ ept' = ept
         /\ ~down
<1> USE DEF OtherCore
<1>1. ~down
  BY DEF CallVcpuStart, CallVcpuStop, CallOnVcpu, ReturnFromVcpu, GuestBreaks,
     CoreStep, StartStep, StopStep, StartNotOff, CheckCr0, CheckFeatureControl, EnableVmx, VmxOn,
     LoadVmcs, SetupGuest, SetupHost, SetupControls, SetupCallback, Launch, LeaveVmx, DisableVmx,
     ZeroRegions, MarkOff, At
<1>2. CASE CoreStep(c)
  BY <1>1, <1>2, SelfAssumption, CoreStepIsLocal
<1>3. CASE CallVcpuStart(c) \/ CallVcpuStop(c) \/ ReturnFromVcpu(c)
  BY <1>1, <1>3, SelfAssumption, CallIsLocal
<1>4. CASE GuestBreaks(c)
  BY <1>1, <1>4 DEF GuestBreaks, Untouched
<1>5. QED
  BY <1>2, <1>3, <1>4

\* Every step of the composition is a step of vcpu_t by itself, changes nothing of it, or
\* is a vmcall: one of the guest that leaves VMX, or one of stop() that comes after it.
LEMMA ComposedMaps ==
  ASSUME ComposedInv, ComposedNext \/ UNCHANGED composedVars
  PROVE  \/ VcpuStep \/ VmcallFaults \/ UNCHANGED coreVars
         \/ HostLeaves /\ job[Self] # "stop"
<1>1. ASSUME NEW c \in Cores,
             \/ CallVcpuStart(c) \/ CallVcpuStop(c) \/ ReturnFromVcpu(c)
             \/ CoreStep(c) \/ GuestBreaks(c)
      PROVE  VcpuNext
  BY <1>1 DEF VcpuNext
<1>2. CASE LaunchSelf
  BY <1>1, <1>2, SelfAssumption DEF LaunchSelf, Launch, At, CoreStep, StartStep, VcpuStep
<1>3. CASE GuestExits \/ StopExits \/ HostRuns
  BY <1>3 DEF GuestExits, StopExits, HostRuns
<1>4. CASE HostResumes
  BY <1>4, ResumeIsStutter
<1>5. CASE HostLeaves
  <2>1. CASE job[Self] = "stop"
    <3>1. VcpuNext
      BY <1>1, <1>5, <2>1, LeaveIsOneStep, SelfAssumption DEF CoreStep, StopStep
    <3>2. QED
      BY <1>5, <3>1, LeaveFacts DEF VcpuStep
  <2>2. CASE job[Self] # "stop"
    BY <1>5, <2>2
  <2>3. QED
    BY <2>1, <2>2
<1>6. CASE HostBreaks
  <2>1. GuestBreaks(Self)
    BY <1>6, BreakIsGuestBreak
  <2>2. QED
    BY <1>1, <2>1, SelfAssumption DEF GuestBreaks, VcpuStep
<1>7. CASE SelfRuns
  <2>1. CASE VmcallFaults
    BY <2>1
  <2>2. CASE ~VmcallFaults
    <3>1. CoreStep(Self)
      BY <1>7, <2>2 DEF SelfRuns, RestOfStart, RestOfStop, CoreStep, StartStep, StopStep
    <3>2. ~(job[Self] = "stop" /\ vcpu[Self] = "on")
      BY <1>7, <2>2 DEF SelfRuns, RestOfStart, RestOfStop, At, StartNotOff, CheckCr0,
         CheckFeatureControl, EnableVmx, VmxOn, LoadVmcs, SetupGuest, SetupHost, SetupControls,
         SetupCallback, DisableVmx, ZeroRegions, MarkOff
    <3>3. QED
      BY <1>1, <3>1, <3>2, SelfAssumption DEF VcpuStep
  <2>3. QED
    BY <2>1, <2>2
<1>8. CASE SelfCalled
  <2>1. job[Self] # "stop"
    BY <1>8 DEF SelfCalled, CallVcpuStart, CallVcpuStop, CallOnVcpu, ReturnFromVcpu, At
  <2>2. QED
    BY <1>1, <1>8, <2>1, SelfAssumption DEF SelfCalled, VcpuStep
<1>9. ASSUME NEW c \in Cores, OtherCore(c) PROVE VcpuStep
  <2>1. job'[Self] = job[Self]
    BY <1>9, OtherIsLocal, SelfAssumption DEF ComposedInv, Untouched
  <2>2. VcpuNext
    BY <1>1, <1>9 DEF OtherCore
  <2>3. QED
    BY <2>1, <2>2 DEF VcpuStep
<1>10. CASE MachineIsDown
  BY <1>10 DEF MachineIsDown, VcpuDown
<1>11. CASE UNCHANGED composedVars
  BY <1>11 DEF composedVars
<1>12. QED
  BY <1>2, <1>3, <1>4, <1>5, <1>6, <1>7, <1>8, <1>9, <1>10, <1>11 DEF ComposedNext, HostSteps

\* What is true of the cores, after a step that changes nothing of them.
LEMMA StutterKeepsCores ==
  ASSUME ComposedInv, UNCHANGED coreVars, pc' = "native" <=> pc = "native"
  PROVE  VcpuTypeOK' /\ (\A c \in Cores \ {Self} : CoreInv(c)') /\ SelfInv'
<1> USE DEF ComposedInv
<1>1. VcpuTypeOK'
  BY DEF VcpuTypeOK, coreVars
<1>2. ASSUME NEW c \in Cores, CoreInv(c) PROVE CoreInv(c)'
  BY <1>2, UntouchedKeepsInv DEF Untouched, coreVars
<1>3. Deserted' <=> Deserted
  BY DEF Deserted, coreVars
<1>4. Deserted => DesertedCore'
  BY DEF SelfInv, DesertedCore, coreVars
<1>5. SelfInv'
  BY <1>2, <1>3, <1>4, SelfAssumption DEF SelfInv
<1>6. QED
  BY <1>1, <1>2, <1>5

\* The guest's own vmcall leaves the core with all it had but the current VMCS.
LEMMA LeavingDeserts ==
  ASSUME ComposedInv, HostLeaves, job[Self] # "stop"
  PROVE  VcpuTypeOK' /\ (\A c \in Cores \ {Self} : CoreInv(c)') /\ SelfInv'
<1>1. GuestLeaves /\ pc = "leave" /\ pc' = "native"
  BY LeaveIsGuests, LeaveFacts
<1>2. VcpuInv
  BY <1>1, NotDeserted, HostIsNotDeserted
<1>3. VcpuTypeOK'
  BY <1>1, <1>2, SelfAssumption DEF GuestLeaves, VcpuInv, VcpuTypeOK
<1>4. ASSUME NEW c \in Cores \ {Self} PROVE CoreInv(c)'
  <2>1. Untouched(c) /\ ept' = ept
    BY <1>1, <1>2 DEF GuestLeaves, Untouched, VcpuInv, VcpuTypeOK
  <2>2. QED
    BY <1>2, <2>1, UntouchedKeepsInv DEF VcpuInv
<1>5. vmcs[Self] = CompleteVmcs /\ stack[Self] /\ armed[Self]
  BY <1>1, <1>2, SelfAssumption DEF GuestLeaves, VcpuInv, CoreInv, OnIsComplete, LeftVmx
<1>6. vmcs'[Self] = VmcsGroups /\ mode'[Self] = "off"
  BY <1>1, <1>2, <1>5, SelfAssumption
     DEF GuestLeaves, VcpuInv, VcpuTypeOK, CompleteVmcs, VmcsGroups
<1>7. Deserted' /\ DesertedCore'
  BY <1>1, <1>5, <1>6 DEF GuestLeaves, Deserted, DesertedCore, LeftVmx
<1>8. QED
  BY <1>3, <1>4, <1>7 DEF SelfInv

\* Once the guest has left, the calls on its vcpu come back with nothing done, or take
\* the machine down; the other cores go on.
LEMMA DesertedStaysSo ==
  ASSUME ComposedInv, Deserted, ComposedNext
  PROVE  VcpuTypeOK' /\ (\A c \in Cores \ {Self} : CoreInv(c)') /\ SelfInv'
<1> USE SelfAssumption
<1>1. /\ VcpuTypeOK /\ DesertedCore
      /\ \A c \in Cores \ {Self} : CoreInv(c)
      /\ pc = "native" /\ vcpu[Self] = "on" /\ mode[Self] = "off"
  BY DEF ComposedInv, SelfInv, Deserted
<1>2. ASSUME VcpuTypeOK', pc' = pc, ept' = ept, \A c \in Cores \ {Self} : Untouched(c),
             vcpu'[Self] = vcpu[Self], mode'[Self] = mode[Self], vmcs'[Self] = vmcs[Self],
             stack'[Self] = stack[Self], armed'[Self] = armed[Self],
             job'[Self] \in {"idle", "start", "stop", "done", "failed"}
      PROVE  VcpuTypeOK' /\ (\A c \in Cores \ {Self} : CoreInv(c)') /\ SelfInv'
  <2>1. Deserted' /\ DesertedCore'
    BY <1>1, <1>2 DEF Deserted, DesertedCore, LeftVmx
  <2>2. \A c \in Cores \ {Self} : CoreInv(c)'
    BY <1>1, <1>2, UntouchedKeepsInv
  <2>3. QED
    BY <1>2, <2>1, <2>2 DEF SelfInv
<1>3. CASE SelfCalled
  <2>1. VcpuTypeOK' /\ ept' = ept /\ \A c \in Cores \ {Self} : Untouched(c)
    BY <1>1, <1>3, CallTypes, CallIsLocal DEF SelfCalled, CallVcpuStart, CallVcpuStop, CallOnVcpu,
       ReturnFromVcpu
  <2>2. job'[Self] \in {"idle", "start", "stop"}
    BY <1>1, <1>3 DEF SelfCalled, CallVcpuStart, CallVcpuStop, CallOnVcpu, ReturnFromVcpu, Goto,
       VcpuTypeOK
  <2>3. QED
    BY <1>2, <1>3, <2>1, <2>2 DEF SelfCalled, CallVcpuStart, CallVcpuStop, CallOnVcpu,
       ReturnFromVcpu, exitVars
<1>4. CASE SelfRuns
  <2>1. StartNotOff(Self) \/ VmcallFaults
    BY <1>1, <1>4 DEF SelfRuns, RestOfStart, RestOfStop, DesertedCore, At, CheckCr0,
       CheckFeatureControl, EnableVmx, VmxOn, LoadVmcs, SetupGuest, SetupHost, SetupControls,
       SetupCallback, DisableVmx, ZeroRegions, MarkOff, LeaveVmx
  <2>2. CASE StartNotOff(Self)
    <3>1. VcpuTypeOK' /\ ept' = ept /\ \A c \in Cores \ {Self} : Untouched(c)
      <4>1. StartStep(Self) /\ CoreStep(Self)
        BY <2>2 DEF StartStep, CoreStep
      <4>2. VcpuTypeOK'
        BY <1>1, <4>1, StartStepTypes
      <4>3. ept' = ept
        BY <2>2 DEF StartNotOff
      <4>4. ASSUME NEW c \in Cores \ {Self} PROVE Untouched(c)
        BY <1>1, <4>1, CoreStepIsLocal
      <4>5. QED
        BY <4>2, <4>3, <4>4
    <3>2. job'[Self] = "failed"
      BY <1>1, <2>2 DEF StartNotOff, Goto, VcpuTypeOK
    <3>3. QED
      BY <1>2, <1>4, <2>2, <3>1, <3>2 DEF SelfRuns, StartNotOff, exitVars
  <2>3. CASE VmcallFaults
    <3>1. VcpuTypeOK'
      BY <1>1, <2>3 DEF VmcallFaults, VcpuTypeOK
    <3>2. QED
      BY <1>1, <1>2, <1>4, <2>3, <3>1 DEF SelfRuns, VmcallFaults, At, Untouched, exitVars
  <2>4. QED
    BY <2>1, <2>2, <2>3
<1>5. ASSUME NEW c \in Cores, OtherCore(c)
      PROVE  VcpuTypeOK' /\ (\A d \in Cores \ {Self} : CoreInv(d)') /\ SelfInv'
  <2>1. c # Self /\ ept' = ept /\ (\A d \in Cores \ {c} : Untouched(d)) /\ pc' = pc
    BY <1>1, <1>5, OtherIsLocal DEF OtherCore, exitVars
  <2>2. VcpuTypeOK' /\ CoreInv(c)'
    <3>1. CASE CoreStep(c)
      BY <1>1, <2>1, <3>1, StartStepTypes, StopStepTypes, StartStepKeepsInv, StopStepKeepsInv
         DEF CoreStep
    <3>2. CASE CallVcpuStart(c) \/ CallVcpuStop(c) \/ ReturnFromVcpu(c)
      BY <1>1, <2>1, <3>2, CallTypes, CallKeepsCore
    <3>3. CASE GuestBreaks(c)
      <4>1. VcpuTypeOK'
        BY <1>1, <3>3 DEF GuestBreaks, VcpuTypeOK
      <4>2. Untouched(c)
        BY <3>3 DEF GuestBreaks, Untouched
      <4>3. QED
        BY <1>1, <2>1, <4>1, <4>2, UntouchedKeepsInv
    <3>4. QED
      BY <1>5, <3>1, <3>2, <3>3 DEF OtherCore
  <2>3. ASSUME NEW d \in Cores \ {Self} PROVE CoreInv(d)'
    BY <1>1, <2>1, <2>2, UntouchedKeepsInv
  <2>4. Deserted' /\ DesertedCore'
    BY <1>1, <2>1 DEF Untouched, Deserted, DesertedCore, LeftVmx
  <2>5. QED
    BY <2>2, <2>3, <2>4 DEF SelfInv
<1>6. CASE MachineIsDown
  BY <1>6, StutterKeepsCores DEF MachineIsDown, VcpuDown, exitVars
<1>7. ~(LaunchSelf \/ GuestExits \/ StopExits \/ HostSteps)
  BY <1>1 DEF LaunchSelf, Launch, At, DesertedCore, GuestExits, StopExits, ExitOn, HostSteps,
     HostRuns, SaveRegisters, Emulate, SkipException, FallBack, IgnoreVmcall, VmcallVmxoff,
     HostResumes, VmResume, HostLeaves, VmxoffStub, HostBreaks, BreakInHandler
<1>8. QED
  BY <1>3, <1>4, <1>5, <1>6, <1>7 DEF ComposedNext

\* Every step keeps what is true of the cores.
LEMMA ComposedKeepsCores ==
  ASSUME ComposedInv, ComposedNext \/ UNCHANGED composedVars
  PROVE  VcpuTypeOK' /\ (\A c \in Cores \ {Self} : CoreInv(c)') /\ SelfInv'
<1>1. CASE Deserted
  <2>1. CASE ComposedNext
    BY <1>1, <2>1, DesertedStaysSo
  <2>2. CASE UNCHANGED composedVars
    BY <2>2, StutterKeepsCores DEF composedVars, exitVars
  <2>3. QED
    BY <2>1, <2>2
<1>2. CASE ~Deserted
  <2>1. VcpuInv
    BY <1>2, NotDeserted
  <2>2. ~VmcallFaults
    BY <2>1, SelfAssumption DEF VcpuInv, CoreInv, ModeAgrees, ModeOf, LeftVmx, VmcallFaults, At
  <2>3. CASE HostLeaves /\ job[Self] # "stop"
    BY <2>3, LeavingDeserts
  <2>4. CASE ~(HostLeaves /\ job[Self] # "stop")
    <3>1. [VcpuNext]_coreVars
      BY <2>2, <2>4, ComposedMaps DEF VcpuStep
    <3>2. VcpuInv'
      BY <2>1, <3>1, VcpuNextInv
    <3>3. QED
      BY <3>2, SelfAssumption, CoreIsNotDeserted DEF VcpuInv, SelfInv, CoreInv, ModeAgrees, ModeOf,
         Deserted
  <2>5. QED
    BY <2>3, <2>4
<1>3. QED
  BY <1>1, <1>2

-----------------------------------------------------------------------------
(* The handshake                                                              *)

\* What the handshake relates, when neither the exit path nor core Self moves.
LEMMA ApartKeepsHandshake ==
  ASSUME HandshakeInv, UNCHANGED exitVars, job'[Self] = job[Self], vcpu'[Self] = vcpu[Self],
         mode'[Self] = mode[Self], down => down'
  PROVE  HandshakeInv'
  BY DEF HandshakeInv, ExitHasCause, exitVars

\* The guest goes into the host, or the host runs: a call on the vcpu waits meanwhile.
LEMMA HostKeepsHandshake ==
  ASSUME ComposedInv, GuestExits \/ StopExits \/ HostSteps
  PROVE  HandshakeInv'
<1> USE DEF ComposedInv, HandshakeInv, ExitHasCause
<1>1. CASE GuestExits
  <2>1. pc = "guest" /\ pc' = "stub" /\ UNCHANGED coreVars
        /\ job[Self] \in {"idle", "done", "failed"}
    BY <1>1 DEF GuestExits, ExitOn
  <2>2. mode[Self] = "guest"
    BY <2>1
  <2>3. vcpu[Self] = "on"
    BY <2>1, <2>2, HostIsNotDeserted, NotDeserted, SelfAssumption
       DEF VcpuInv, CoreInv, ModeAgrees, ModeOf, LeftVmx
  <2>4. QED
    BY <2>1, <2>2, <2>3 DEF coreVars
<1>2. CASE StopExits
  BY <1>2 DEF StopExits, ExitOn, At, coreVars
<1>3. CASE HostRuns
  <2>1. UNCHANGED <<insn, coreVars>>
    BY <1>3 DEF HostRuns, SaveRegisters, Emulate, SkipException, FallBack, IgnoreVmcall,
       VmcallVmxoff
  <2>2. \/ pc = "stub" /\ pc' = "handler"
        \/ pc = "handler" /\ pc' = "resume" /\ insn # "vmcall_vmxoff"
        \/ pc = "handler" /\ pc' = "leave" /\ insn = "vmcall_vmxoff"
    BY <1>3 DEF HostRuns, SaveRegisters, Emulate, SkipException, FallBack, IgnoreVmcall,
       VmcallVmxoff, ReturnFromHandler, Emulated, VmxInsns
  <2>3. QED
    BY <2>1, <2>2 DEF coreVars
<1>4. CASE HostResumes
  <2>1. UNCHANGED coreVars /\ pc = "resume" /\ pc' = "guest"
    BY <1>4, ResumeIsStutter DEF HostResumes, VmResume
  <2>2. QED
    BY <2>1 DEF coreVars
<1>5. CASE HostLeaves
  <2>1. pc' = "native" /\ mode'[Self] = "off"
    BY <1>5, SelfAssumption DEF HostLeaves, VmxoffStub, VcpuTypeOK
  <2>2. QED
    BY <2>1
<1>6. CASE HostBreaks
  <2>1. pc' = "broken" /\ down' /\ mode'[Self] = mode[Self] /\ pc \in {"handler", "resume"}
    BY <1>6 DEF HostBreaks, BreakInHandler, VmResume
  <2>2. QED
    BY <2>1
<1>7. QED
  BY <1>1, <1>2, <1>3, <1>4, <1>5, <1>6 DEF HostSteps

\* start() and stop() run on the core outside the host; only the vmlaunch that succeeds
\* brings it into the guest, and only a vcpu that is on is in there.
LEMMA SelfKeepsHandshake ==
  ASSUME ComposedInv, LaunchSelf \/ SelfRuns \/ SelfCalled
  PROVE  HandshakeInv'
<1> USE SelfAssumption DEF ComposedInv, HandshakeInv, ExitHasCause, VcpuTypeOK
<1>1. ASSUME UNCHANGED exitVars, pc \in {"guest", "native"},
             mode'[Self] = "guest" <=> mode[Self] = "guest"
      PROVE  HandshakeInv'
  BY <1>1 DEF exitVars
<1>2. CASE LaunchSelf
  <2>1. pc = "native"
    BY <1>2 DEF LaunchSelf
  <2>2. CASE mode'[Self] = "guest"
    BY <1>2, <2>2 DEF LaunchSelf, LaunchAgain
  <2>3. CASE mode'[Self] # "guest"
    BY <1>1, <1>2, <2>1, <2>3 DEF LaunchSelf
  <2>4. QED
    BY <2>2, <2>3
<1>3. CASE SelfRuns
  <2>1. mode'[Self] = "guest" <=> mode[Self] = "guest"
    <3>1. CASE VmxOn(Self)
      <4>1. ~Deserted
        BY <3>1 DEF VmxOn, At, SelfInv, DesertedCore
      <4>2. QED
        BY <3>1, <4>1 DEF VmxOn, At, SelfInv, CoreInv, StartProgress, ModeAgrees, ModeOf, LeftVmx
    <3>2. CASE vcpu[Self] # "on" /\ LeaveVmx(Self)
      <4>1. ~Deserted
        BY <3>2 DEF Deserted
      <4>2. QED
        BY <3>2, <4>1 DEF LeaveVmx, At, SelfInv, CoreInv, ModeAgrees, ModeOf, LeftVmx
    <3>3. CASE mode' = mode
      BY <3>3
    <3>4. QED
      BY <1>3, <3>1, <3>2, <3>3 DEF SelfRuns, RestOfStart, RestOfStop, StartNotOff, CheckCr0,
         CheckFeatureControl, EnableVmx, LoadVmcs, SetupGuest, SetupHost, SetupControls,
         SetupCallback, VmcallFaults, DisableVmx, ZeroRegions, MarkOff
  <2>2. QED
    BY <1>1, <1>3, <2>1 DEF SelfRuns, OutsideHost
<1>4. CASE SelfCalled
  BY <1>1, <1>4 DEF SelfCalled, OutsideHost, CallVcpuStart, CallVcpuStop, CallOnVcpu,
     ReturnFromVcpu
<1>5. QED
  BY <1>2, <1>3, <1>4

\* Another core touches neither.
LEMMA OtherKeepsHandshake ==
  ASSUME ComposedInv, NEW c \in Cores, OtherCore(c)
  PROVE  HandshakeInv'
<1>1. Untouched(Self) /\ ~down /\ UNCHANGED exitVars
  BY OtherIsLocal, SelfAssumption DEF ComposedInv, OtherCore
<1>2. QED
  BY <1>1, ApartKeepsHandshake DEF ComposedInv, Untouched

-----------------------------------------------------------------------------
(* Theorems                                                                   *)

\* The inductive invariant of the composition.
THEOREM ComposedInvariance == ComposedSpec => []ComposedInv
<1>1. ComposedInit => ComposedInv
  <2> SUFFICES ASSUME ComposedInit PROVE ComposedInv
    OBVIOUS
  <2>1. VcpuInv /\ ExitInv
    BY VcpuInitInv, FreshInv DEF ComposedInit
  <2>2. HandshakeInv
    BY SelfAssumption DEF ComposedInit, VcpuInit, UntouchedCore, HandshakeInv, ExitHasCause
  <2>3. SelfInv
    BY <2>1, SelfAssumption, CoreIsNotDeserted DEF VcpuInv, SelfInv
  <2>4. QED
    BY <2>1, <2>2, <2>3 DEF ComposedInv, VcpuInv
<1>2. ComposedInv /\ [ComposedNext]_composedVars => ComposedInv'
  <2> SUFFICES ASSUME ComposedInv, ComposedNext \/ UNCHANGED composedVars PROVE ComposedInv'
    OBVIOUS
  <2>1. ExitInv'
    BY ComposedKeepsExit DEF ComposedInv
  <2>2. VcpuTypeOK' /\ (\A c \in Cores \ {Self} : CoreInv(c)') /\ SelfInv'
    BY ComposedKeepsCores
  <2>3. HandshakeInv'
    <3>1. CASE MachineIsDown \/ UNCHANGED composedVars
      BY <3>1, ApartKeepsHandshake DEF MachineIsDown, VcpuDown, composedVars, coreVars, ComposedInv
    <3>2. QED
      BY <3>1, HostKeepsHandshake, SelfKeepsHandshake, OtherKeepsHandshake DEF ComposedNext
  <2>4. QED
    BY <2>1, <2>2, <2>3 DEF ComposedInv
<1>3. QED
  BY <1>1, <1>2, PTL DEF ComposedSpec

\* The exit path does for vcpu_t what the one step LeaveVmx assumes.  Every other exit is
\* a stutter of vcpu_t or breaks in, but for the guest's own vmcall that leaves VMX, after
\* which the vmcall of stop() faults.
THEOREM ComposedImplementsVcpu == ComposedSpec => ImplementsVcpu
<1>1. ComposedInit => VcpuInit
  BY DEF ComposedInit
<1>2. ComposedInv /\ [ComposedNext]_composedVars =>
        [VcpuStep \/ GuestLeaves \/ VmcallFaults]_coreVars
  BY ComposedMaps, LeaveIsGuests
<1>3. QED
  BY <1>1, <1>2, ComposedInvariance, PTL DEF ComposedSpec, ImplementsVcpu

\* From an exit to its end the host runs on what start() set up, and nothing takes it
\* away from under it.
THEOREM HostIsBackedHolds == ComposedSpec => []HostIsBacked
<1>1. ComposedInv => HostIsBacked
  <2> SUFFICES ASSUME ComposedInv, pc \in {"stub", "handler", "resume", "leave"}
               PROVE  /\ mode[Self] = "guest" /\ vmcs[Self] = CompleteVmcs
                      /\ stack[Self] /\ mem[Self] = "ready"
    BY DEF HostIsBacked
  <2>1. mode[Self] = "guest"
    BY DEF ComposedInv, HandshakeInv
  <2>2. GuestReady
    BY InvImpliesProperties, NotDeserted, HostIsNotDeserted
  <2>3. QED
    BY <2>1, <2>2, SelfAssumption DEF GuestReady
<1>2. QED
  BY <1>1, ComposedInvariance, PTL

\* What Vcpu guarantees of a core holds of each one on its own.
LEMMA ComposedProperties ==
  ASSUME ComposedInv
  PROVE  StateTellsCpu /\ InstructionsLegal /\ GuestReady /\ RestartIsClean /\ SetupsAreTornDown
<1>1. CASE ~Deserted
  <2>1. VcpuInv
    BY <1>1, NotDeserted
  <2>2. StateTellsCpu
    BY <2>1 DEF VcpuInv, CoreInv, StateTellsCpu
  <2>3. QED
    BY <2>1, <2>2, InvImpliesProperties
<1>2. CASE Deserted
  <2>1. /\ job[Self] \in {"idle", "start", "stop", "done", "failed"}
        /\ vcpu[Self] = "on" /\ mode[Self] = "off"
    BY <1>2 DEF ComposedInv, SelfInv, DesertedCore, Deserted
  <2>2. ASSUME NEW c \in Cores, c # Self
        PROVE  CoreInv(c) /\ vcpu[c] \in VcpuStates /\ vmcs[c] \in SUBSET CompleteVmcs
    BY <2>2 DEF ComposedInv, VcpuTypeOK
  <2>3. StateTellsCpu
    BY <1>2, <2>2 DEF StateTellsCpu, CoreInv
  <2>4. InstructionsLegal
    BY <2>1, <2>2 DEF InstructionsLegal, VmxOnLegal, WriteLegal, LaunchLegal, CoreInv, ModeAgrees,
       ModeOf, StartProgress, VmcsAt, InRoot, LeftVmx, CompleteVmcs
  <2>5. GuestReady
    BY <2>1, <2>2 DEF GuestReady, CoreInv, ModeAgrees, ModeOf, OnIsComplete, InVmxIsBacked,
       VcpuStates, LeftVmx
  <2>6. RestartIsClean
    BY <2>1, <2>2 DEF RestartIsClean, CoreInv, StartProgress, OffIsBlank
  <2>7. SetupsAreTornDown
    BY <2>1, <2>2 DEF SetupsAreTornDown, CoreInv, ModeAgrees, ModeOf, StartProgress, OffIsBlank,
       OnIsComplete, InRoot, LeftVmx, VcpuStates
  <2>8. QED
    BY <2>3, <2>4, <2>5, <2>6, <2>7
<1>3. QED
  BY <1>1, <1>2

\* With exits at any point of the guest, each core's state tells its VMX operation unless
\* the guest has left by itself; what Vcpu says of the other VMX instructions, of the next
\* exit, of restarts and of the callbacks holds in that case too.
THEOREM ComposedStaysLegal ==
  ComposedSpec => [](StateTellsCpu /\ InstructionsLegal /\ GuestReady /\ RestartIsClean
                     /\ SetupsAreTornDown)
<1>1. ComposedInv => StateTellsCpu /\ InstructionsLegal /\ GuestReady /\ RestartIsClean
                     /\ SetupsAreTornDown
  BY ComposedProperties
<1>2. QED
  BY <1>1, ComposedInvariance, PTL

\* With stop() interrupting the guest anywhere, each exit finds its slots, is handled
\* once, and the vmcall of stop() comes back to its caller.
THEOREM ComposedExitsHold ==
  ComposedSpec => [](ExitTypeOK /\ StubFindsSlots /\ EmulatedOnce /\ LeaveRestoresCaller)
<1>1. ComposedInv => ExitTypeOK /\ StubFindsSlots /\ EmulatedOnce /\ LeaveRestoresCaller
  BY ExitInvIsEnough DEF ComposedInv
<1>2. QED
  BY <1>1, ComposedInvariance, PTL

=============================================================================
