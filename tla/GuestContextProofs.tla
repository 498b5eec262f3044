------------------------- MODULE GuestContextProofs -------------------------
(***************************************************************************)
(* Theorems about the control words and about the guest's registers that go *)
(* with them, for any well-formed processors and any values of registers.   *)
(***************************************************************************)
EXTENDS GuestContext, TLAPS

-----------------------------------------------------------------------------
(* The control words                                                          *)

\* adjust() makes any word one the processor takes, with the TRUE registers and
\* without (vmx::adjust, hv/vmx.hpp).
LEMMA AdjustIsAllowed ==
  ASSUME NEW p \in Processors, NEW w \in Words, NEW value
  PROVE  WordAllowed(p, w, Adjust(p, w, value))
<1>1. /\ p.controls[w].must \subseteq p.controls[w].may
      /\ p.trues[w].must \subseteq p.trues[w].may
      /\ w = "proc2" => p.trues[w] = p.controls[w]
  <2>1. WellFormed(p)
    BY ProcessorsAssumption
  <2>2. QED
    BY <2>1 DEF WellFormed
<1>2. CASE p.true_controls /\ w # "proc2"
  BY <1>1, <1>2 DEF WordAllowed, Adjust, Mask
<1>3. CASE ~(p.true_controls /\ w # "proc2")
  BY <1>1, <1>3 DEF WordAllowed, Adjust, Mask
<1>4. QED
  BY <1>2, <1>3

\* A bit that is asked for and that the plain register allows is not dropped; the TRUE
\* registers allow the same bits.
LEMMA AdjustKeepsAllowed ==
  ASSUME NEW p \in Processors, NEW w \in Words, NEW value, NEW bit \in value,
         bit \in p.controls[w].may
  PROVE  bit \in Adjust(p, w, value)
<1>1. p.trues[w].may = p.controls[w].may
  <2>1. WellFormed(p)
    BY ProcessorsAssumption
  <2>2. QED
    BY <2>1 DEF WellFormed
<1>2. QED
  BY <1>1 DEF Adjust, Mask

\* The words are sets of control bits.
LEMMA AdjustType ==
  ASSUME NEW p \in Processors, NEW w \in Words, NEW value \in SUBSET ControlBits
  PROVE  Adjust(p, w, value) \in SUBSET ControlBits
<1>1. p.controls[w] \in Capability /\ p.trues[w] \in Capability
  BY ProcessorsAssumption DEF Processor
<1>2. QED
  BY <1>1 DEF Adjust, Mask, Capability

\* What supported() has seen of the EPT and VPID capabilities is enough for the
\* bits setup_controls() asks for to be allowed.
LEMMA SupportedAllows ==
  ASSUME NEW p \in Processors, SupportedBy(p), HasEptVpidCap(p)
  PROVE  /\ "use_secondary_controls" \in p.controls["proc"].may
         /\ "enable_ept" \in p.controls["proc2"].may
         /\ "enable_vpid" \in p.controls["proc2"].may
         /\ "host_address_space_size" \in p.controls["exit"].may
         /\ "ia32_mode_guest" \in p.controls["entry"].may
<1>1. WellFormed(p)
  BY ProcessorsAssumption
<1>2. "page_walk_length_4" \in p.ept_vpid \cap EptBits /\ "invvpid" \in p.ept_vpid \cap VpidBits
  BY DEF SupportedBy, EptBits, VpidBits
<1>3. QED
  BY <1>1, <1>2 DEF WellFormed, SupportedBy, HasEptVpidCap

-----------------------------------------------------------------------------
(* The invariant                                                              *)

\* The words a guest runs with, or is about to, have the bits that were asked for.
LEMMA WrittenWords ==
  ASSUME ControlsInv, at \in {"launch", "guest"}
  PROVE  /\ \A w \in Words : word[w] = Adjust(cpu, w, Requested[w])
         /\ "use_secondary_controls" \in word["proc"]
         /\ {"enable_ept", "enable_vpid"} \subseteq word["proc2"]
         /\ "host_address_space_size" \in word["exit"]
         /\ "ia32_mode_guest" \in word["entry"]
         /\ cpu.instructions \ word["proc2"] =
              (cpu.instructions \cap {"enable_user_wait_pause"}) \ cpu.controls["proc2"].must
<1>1. /\ cpu \in Processors /\ SupportedBy(cpu) /\ HasEptVpidCap(cpu)
      /\ \A w \in Words : word[w] = Adjust(cpu, w, Requested[w])
  BY DEF ControlsInv
<1>2. "proc" \in Words /\ "proc2" \in Words /\ "exit" \in Words /\ "entry" \in Words
  BY DEF Words
<1>3. "use_secondary_controls" \in word["proc"]
  BY <1>1, <1>2, SupportedAllows, AdjustKeepsAllowed DEF Requested
<1>4. "enable_ept" \in word["proc2"]
  BY <1>1, <1>2, SupportedAllows, AdjustKeepsAllowed DEF Requested
<1>5. "enable_vpid" \in word["proc2"]
  BY <1>1, <1>2, SupportedAllows, AdjustKeepsAllowed DEF Requested
<1>6. "host_address_space_size" \in word["exit"]
  BY <1>1, <1>2, SupportedAllows, AdjustKeepsAllowed DEF Requested
<1>7. "ia32_mode_guest" \in word["entry"]
  BY <1>1, <1>2, SupportedAllows, AdjustKeepsAllowed DEF Requested
<1>8. ASSUME NEW i \in cpu.instructions
      PROVE  i \in word["proc2"] <=>
               i # "enable_user_wait_pause" \/ i \in cpu.controls["proc2"].must
  <2>1. cpu \in Processor /\ WellFormed(cpu)
    BY <1>1, ProcessorsAssumption
  <2>2. i \in GuardedInstructions
    BY <2>1 DEF Processor
  <2>3. i \in Requested["proc2"] <=> i # "enable_user_wait_pause"
    BY <2>2 DEF Requested, GuardedInstructions
  <2>4. i \in cpu.controls["proc2"].may
    BY <2>1 DEF WellFormed
  <2>5. word["proc2"] = (Requested["proc2"] \cap cpu.controls["proc2"].may)
                          \cup cpu.controls["proc2"].must
    BY <1>1, <1>2 DEF Adjust, Mask
  <2>6. QED
    BY <2>3, <2>4, <2>5
<1>9. cpu.instructions \ word["proc2"] =
        (cpu.instructions \cap {"enable_user_wait_pause"}) \ cpu.controls["proc2"].must
  BY <1>8
<1>10. QED
  BY <1>1, <1>3, <1>4, <1>5, <1>6, <1>7, <1>9

\* VM entry takes what a supported processor was given.
LEMMA EntryIsAllowed ==
  ASSUME ControlsInv, at = "launch"
  PROVE  EntryAllowed
<1>1. cpu \in Processors /\ SupportedBy(cpu) /\ eptp = EptPointer(cpu)
  BY DEF ControlsInv
<1>2. ASSUME NEW w \in Words PROVE WordAllowed(cpu, w, word[w])
  BY <1>1, AdjustIsAllowed, WrittenWords
<1>3. EptpAllowed(cpu, eptp)
  BY <1>1 DEF EptpAllowed, EptPointer, SupportedBy, EptBits
<1>4. QED
  BY <1>2, <1>3, WrittenWords DEF EntryAllowed, Words

\* Whatever processor it is, the driver begins with nothing set up.
LEMMA ControlsInitInv == ControlsInit => ControlsInv
<1> SUFFICES ASSUME ControlsInit PROVE ControlsInv
  OBVIOUS
<1>1. ControlsTypeOK
  BY ProcessorsAssumption DEF ControlsInit, ControlsTypeOK, NoEptp
<1>2. QED
  BY <1>1 DEF ControlsInit, ControlsInv, EntryNeverRefused

\* Every step keeps the invariant.
LEMMA ControlsNextInv == ControlsInv /\ [ControlsNext]_controlVars => ControlsInv'
<1> SUFFICES ASSUME ControlsInv, [ControlsNext]_controlVars PROVE ControlsInv'
  OBVIOUS
<1> USE DEF ControlsInv, EntryNeverRefused
<1>1. CASE UNCHANGED controlVars
  BY <1>1 DEF controlVars, ControlsTypeOK, EptPointer, SupportedBy, HasEptVpidCap, Adjust, Mask
<1>2. CASE AskSupported
  BY <1>2 DEF AskSupported, ControlsTypeOK
<1>3. CASE ConstructEpt
  <2>1. EptPointer(cpu) \in [memory_type : {"none", "write_back", "uncachable"},
                             page_walk_length : {0, 3}, access_flags : BOOLEAN]
    BY DEF EptPointer
  <2>2. QED
    BY <1>3, <2>1 DEF ConstructEpt, ControlsTypeOK
<1>4. CASE StartCore
  BY <1>4 DEF StartCore, ControlsTypeOK
<1>5. CASE SetupControlWords
  <2>1. \A w \in Words : Requested[w] \in SUBSET ControlBits
    BY DEF Requested, Words, ControlBits, PinBits, ProcBits, Proc2Bits, ExitBits, EntryBits
  <2>2. word' \in [Words -> SUBSET ControlBits]
    BY <1>5, <2>1, AdjustType DEF SetupControlWords
  <2>3. QED
    BY <1>5, <2>2 DEF SetupControlWords, ControlsTypeOK
<1>6. CASE EnterGuest
  BY <1>6, EntryIsAllowed DEF EnterGuest, ControlsTypeOK
<1>7. CASE StopCore
  BY <1>7 DEF StopCore, ControlsTypeOK
<1>8. CASE Faulted
  BY <1>1, <1>8 DEF Faulted
<1>9. QED
  BY <1>1, <1>2, <1>3, <1>4, <1>5, <1>6, <1>7, <1>8 DEF ControlsNext

\* The invariant is enough for what the control words are for.
LEMMA ControlsInvIsEnough ==
  ASSUME ControlsInv
  PROVE  EptInEffect /\ GuestLosesOnlyWaits /\ Cr3StaysInGuest
<1>1. EptInEffect /\ GuestLosesOnlyWaits
  BY WrittenWords DEF EptInEffect, GuestLosesOnlyWaits, Secondary
<1>2. Cr3StaysInGuest
  <2> SUFFICES ASSUME at = "guest", "cr3_load_exiting" \in word["proc"]
               PROVE  "cr3_load_exiting" \in Mask(cpu, "proc").must
    BY DEF Cr3StaysInGuest, Mask
  <2>1. word["proc"] = Adjust(cpu, "proc", Requested["proc"])
    BY WrittenWords DEF Words
  <2>2. "cr3_load_exiting" \notin Requested["proc"]
    BY DEF Requested
  <2>3. QED
    BY <2>1, <2>2 DEF Adjust
<1>3. QED
  BY <1>1, <1>2

-----------------------------------------------------------------------------
(* Theorems                                                                   *)

\* The inductive invariant of the control words.
THEOREM ControlsInvariance == ControlsSpec => []ControlsInv
<1>1. QED
  BY ControlsInitInv, ControlsNextInv, PTL DEF ControlsSpec

\* Type correctness of Controls.
THEOREM ControlsTypeCorrect == ControlsSpec => []ControlsTypeOK
<1>1. ControlsInv => ControlsTypeOK
  BY DEF ControlsInv
<1>2. QED
  BY <1>1, ControlsInvariance, PTL

\* On every processor supported() accepts, VM entry takes the controls.
THEOREM EntryNeverRefusedHolds == ControlsSpec => []EntryNeverRefused
<1>1. ControlsInv => EntryNeverRefused
  BY DEF ControlsInv
<1>2. QED
  BY <1>1, ControlsInvariance, PTL

\* A running guest is behind the EPT and has a VPID.
THEOREM EptInEffectHolds == ControlsSpec => []EptInEffect
<1>1. ControlsInv => EptInEffect
  BY ControlsInvIsEnough
<1>2. QED
  BY <1>1, ControlsInvariance, PTL

\* Of the instructions a control lets through, a running guest lacks the waits, where the
\* processor does not insist on them, and no other.
THEOREM GuestLosesOnlyWaitsHolds == ControlsSpec => []GuestLosesOnlyWaits
<1>1. ControlsInv => GuestLosesOnlyWaits
  BY ControlsInvIsEnough
<1>2. QED
  BY <1>1, ControlsInvariance, PTL

\* Moves to CR3 exit only from a guest whose processor insists on it.
THEOREM Cr3StaysInGuestHolds == ControlsSpec => []Cr3StaysInGuest
<1>1. ControlsInv => Cr3StaysInGuest
  BY ControlsInvIsEnough
<1>2. QED
  BY <1>1, ControlsInvariance, PTL

-----------------------------------------------------------------------------
(* The guest's registers                                                      *)

\* The variables of this module other than those of Controls.
registerVars == <<item, intercept, reg, field, host, exit, answer, ghosts>>

\* A step of Controls, or one that leaves its variables alone, keeps its invariant.
LEMMA ControlsSide ==
  ASSUME ControlsInv, ContextNext \/ UNCHANGED contextVars
  PROVE  ControlsInv'
<1>1. CASE ControlsNext \/ UNCHANGED controlVars
  BY <1>1, ControlsNextInv
<1>2. CASE Cr3WriteBreaks
  BY <1>2 DEF Cr3WriteBreaks, ControlsInv, ControlsTypeOK, EntryNeverRefused
<1>3. CASE ~Cr3WriteBreaks
  <2>1. ControlsNext \/ UNCHANGED controlVars
    BY <1>3 DEF ContextNext, contextVars, Prepare, Capture, FirstEntry, SystemWrites, Exits,
        HandleMsrRead, HandleMsrWrite, HandleOther, Resume, HandleVmxoff, Leave, Stuck,
        ControlsNext
  <2>2. QED
    BY <2>1, <1>1
<1>4. QED
  BY <1>2, <1>3

\* The values stay registers' contents.
LEMMA TypeStep ==
  ASSUME ContextTypeOK, ContextNext \/ UNCHANGED contextVars, ControlsTypeOK'
  PROVE  ContextTypeOK'
<1> USE DEF ContextTypeOK, ghosts
<1>1. CASE UNCHANGED registerVars
  BY <1>1 DEF registerVars
<1>2. CASE Capture
  BY <1>2, ValuesAssumption DEF Capture, GuestArea, HostArea, Contents, Artefacts
<1>3. CASE FirstEntry
  BY <1>3 DEF FirstEntry
<1>4. CASE SystemWrites
  BY <1>4 DEF SystemWrites, Contents, Artefacts
<1>5. CASE Exits
  BY <1>5 DEF Exits, MsrExits
<1>6. CASE HandleMsrRead
  BY <1>6 DEF HandleMsrRead, ReadMsr
<1>7. CASE HandleMsrWrite
  <2>1. PICK value \in Values, clean \in BOOLEAN :
          /\ reg' = IF clean THEN value ELSE "mixed"
          /\ view' = value
          /\ lost' = (Loaded \/ ~clean)
          /\ instead' = IF Loaded THEN Effective ELSE "mixed"
    BY <1>7 DEF HandleMsrWrite
  <2>2. lost' \in BOOLEAN /\ instead' \in Contents
    BY <2>1 DEF Effective, Contents, Artefacts
  <2>3. QED
    BY <1>7, <2>1, <2>2 DEF HandleMsrWrite, Contents, Artefacts
<1>8. CASE HandleOther
  BY <1>8 DEF HandleOther
<1>9. CASE Resume
  BY <1>9 DEF Resume
<1>10. CASE HandleVmxoff
  BY <1>10 DEF HandleVmxoff
<1>11. CASE Leave
  BY <1>11 DEF Leave, Contents, Artefacts
<1>12. CASE Prepare \/ Cr3WriteBreaks \/ Stuck \/ UNCHANGED contextVars
  BY <1>1, <1>12 DEF Prepare, Cr3WriteBreaks, Stuck, contextVars, registerVars
<1>13. QED
  BY <1>2, <1>3, <1>4, <1>5, <1>6, <1>7, <1>8, <1>9, <1>10, <1>11, <1>12 DEF ContextNext

\* At the start nothing is in the VMCS, and the register is the system's.
LEMMA ContextInitInv == ContextInit => ContextInv
<1> SUFFICES ASSUME ContextInit PROVE ContextInv
  OBVIOUS
<1>1. ControlsInv
  BY ControlsInitInv DEF ContextInit
<1>2. ContextTypeOK
  BY <1>1 DEF ContextInit, ContextTypeOK, ControlsInv, Contents, Artefacts
<1>3. at = "driver" /\ exit = "none" /\ lost = FALSE /\ reg = view
  BY DEF ContextInit, ControlsInit
<1>4. QED
  BY <1>1, <1>2, <1>3 DEF ContextInit, ContextInv, ValueIsKept, InGuest

\* Every step keeps the guest's value where the invariant says it is.
LEMMA ContextNextInv == ContextInv /\ [ContextNext]_contextVars => ContextInv'
<1> SUFFICES ASSUME ContextInv, ContextNext \/ UNCHANGED contextVars PROVE ContextInv'
  OBVIOUS
<1>1. ControlsInv'
  BY ControlsSide DEF ContextInv
<1>2. ContextTypeOK'
  BY <1>1, TypeStep DEF ContextInv, ControlsInv
<1>3. at' \in {"driver", "controls", "launch", "guest", "fault"}
  BY <1>1 DEF ControlsInv, ControlsTypeOK, EntryNeverRefused
<1> DEFINE Rest ==
      /\ intercept # {} => item \in Msrs
      /\ exit # "none" => at = "guest"
      /\ exit = "msr_read" => exit \in intercept
      /\ at \notin {"guest", "fault"} => ~lost
      /\ ValueIsKept
      /\ exit = "vmxoff" /\ InVmcs(item) => reg = host
      /\ exit = "leave" /\ InVmcs(item) => reg = (IF GivenBackHere THEN field ELSE host)
<1>4. Rest
  BY DEF ContextInv
<1> USE DEF ValueIsKept, InGuest, Followed, Effective, ghosts
<1>5. Rest'
  <2>1. CASE UNCHANGED contextVars
    BY <1>4, <2>1 DEF contextVars, controlVars, Saved, Loaded, GuestArea, GivenBackHere
  <2>2. CASE Prepare
    BY <1>4, <2>2 DEF Prepare, AskSupported, ConstructEpt, StartCore, Saved, Loaded
  <2>3. CASE Capture
    BY <1>4, <2>3 DEF Capture, SetupControlWords, GuestArea
  <2>4. CASE FirstEntry
    BY <1>3, <1>4, <2>4 DEF FirstEntry, EnterGuest, GuestArea, Loaded, Saved, InVmcs, Debug
  <2>5. CASE SystemWrites
    BY <1>4, <2>5 DEF SystemWrites, controlVars
  <2>6. CASE Cr3WriteBreaks
    BY <1>4, <2>6 DEF Cr3WriteBreaks
  <2>7. CASE Exits
    <3>1. exit' \in {"vmxoff", "other"} \cup intercept
      BY <2>7 DEF Exits
    <3>2. exit' \in {"vmxoff", "other", "msr_read", "msr_write"}
      BY <3>1 DEF ContextInv, ContextTypeOK, MsrExits
    <3>3. exit' = "msr_read" => exit' \in intercept'
      BY <2>7, <3>1 DEF Exits
    <3>4. QED
      BY <1>4, <2>7, <3>2, <3>3 DEF Exits, controlVars, Saved, Loaded, InVmcs
  <2>8. CASE HandleMsrRead
    BY <1>4, <2>8 DEF HandleMsrRead, controlVars, Saved, Loaded
  <2>9. CASE HandleMsrWrite
    BY <1>4, <2>9 DEF HandleMsrWrite, controlVars, Saved, Loaded, InVmcs
  <2>10. CASE HandleOther
    BY <1>4, <2>10 DEF HandleOther, controlVars, Saved, Loaded
  <2>11. CASE Resume
    BY <1>4, <2>11 DEF Resume, controlVars, Saved, Loaded
  <2>12. CASE HandleVmxoff
    BY <1>4, <2>12 DEF HandleVmxoff, controlVars, Saved, Loaded, InVmcs, GivenBackHere
  <2>13. CASE Leave
    BY <1>4, <2>13 DEF Leave, StopCore
  <2>14. CASE Stuck
    BY <2>1, <2>14 DEF Stuck
  <2>15. QED
    BY <2>1, <2>2, <2>3, <2>4, <2>5, <2>6, <2>7, <2>8, <2>9, <2>10, <2>11, <2>12, <2>13,
       <2>14 DEF ContextNext
<1>6. QED
  BY <1>1, <1>2, <1>5 DEF ContextInv

-----------------------------------------------------------------------------
(* Theorems                                                                   *)

\* The inductive invariant of the guest's registers.
THEOREM ContextInvariance == ContextSpec => []ContextInv
<1>1. QED
  BY ContextInitInv, ContextNextInv, PTL DEF ContextSpec

\* What is true of the control words stays true however the guest's exits, its MSR
\* accesses and the vmcall that leaves VMX come between.
THEOREM ControlsHoldInContext ==
  ContextSpec => [](EntryNeverRefused /\ EptInEffect /\ GuestLosesOnlyWaits /\ Cr3StaysInGuest)
<1>1. ContextInv => EntryNeverRefused /\ EptInEffect /\ GuestLosesOnlyWaits /\ Cr3StaysInGuest
  BY ControlsInvIsEnough DEF ContextInv, ControlsInv
<1>2. QED
  BY <1>1, ContextInvariance, PTL

\* Type correctness of GuestContext.
THEOREM ContextTypeCorrect == ContextSpec => []ContextTypeOK
<1>1. ContextInv => ContextTypeOK
  BY DEF ContextInv
<1>2. QED
  BY <1>1, ContextInvariance, PTL

\* The guest finds its registers after any number of exits as it left them; what it wrote
\* by a WRMSR that exits is lost (handle_msr_write()).
THEOREM ResumeKeepsContextHolds == ContextSpec => []ResumeKeepsContext
<1>1. ContextInv => ResumeKeepsContext
  BY DEF ContextInv, ValueIsKept, ResumeKeepsContext
<1>2. QED
  BY <1>1, ContextInvariance, PTL

\* For an intercepted RDMSR handle_msr_read() puts the guest's value into regs().
THEOREM ReadMsrFetchesGuestsHolds == ContextSpec => ReadMsrFetchesGuests
<1>1. ContextInv /\ [ContextNext]_contextVars =>
        [HandleMsrRead /\ Followed => answer' = Effective]_contextVars
  <2> SUFFICES ASSUME ContextInv, HandleMsrRead, Followed PROVE answer' = Effective
    OBVIOUS
  <2>1. item \in Msrs
    BY DEF ContextInv, HandleMsrRead
  <2>2. QED
    BY <2>1 DEF ContextInv, ValueIsKept, HandleMsrRead, ReadMsr, InVmcs, Msrs, NamedMsrs
<1>2. QED
  BY <1>1, ContextInvariance, PTL DEF ContextSpec, ReadMsrFetchesGuests

\* What the vmcall that leaves VMX gives back (handle_vmcall()).
THEOREM LeaveGivesBackHolds == ContextSpec => []LeaveGivesBack
<1>1. ContextInv => LeaveGivesBack
  <2> SUFFICES ASSUME ContextInv, exit = "leave", item \notin Debug \cup {"rflags"}
               PROVE  \/ reg = Effective
                      \/ /\ item \notin {"cr3", "gdtr", "idtr", "other_msr"}
                         /\ Effective # host
    BY DEF LeaveGivesBack
  <2>1. (IF InVmcs(item) THEN field ELSE reg) = Effective
    BY DEF ContextInv, ValueIsKept, Followed, Debug
  <2>2. InVmcs(item) => reg = (IF GivenBackHere THEN field ELSE host)
    BY DEF ContextInv
  <2>3. QED
    BY <2>1, <2>2 DEF InVmcs, GivenBackHere
<1>2. QED
  BY <1>1, ContextInvariance, PTL

=============================================================================
