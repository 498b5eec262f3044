------------------------------ MODULE Controls ------------------------------
(***************************************************************************)
(* What setup_controls() (hv/vcpu.cpp) asks the processor for and what it   *)
(* gets: vmx::adjust (hv/vmx.hpp) on the five control words, the EPT        *)
(* pointer of ept_t (hv/ept.cpp), and supported() (hv/hypervisor.cpp), which *)
(* decides on which processors they are used.                               *)
(*                                                                          *)
(* A control word is the set of its one bits.  A capability MSR holds the   *)
(* bits that must be one (its low half) and those that may be (its high     *)
(* half).                                                                   *)
(***************************************************************************)

CONSTANT Processors   (* The processors the driver may be loaded on.          *)

-----------------------------------------------------------------------------
(* The MSRs of a processor                                                    *)

Words == {"pin", "proc", "proc2", "exit", "entry"}

\* The bits the code asks for or a property is about; every other reserved bit that
\* an older processor wants set behaves like cr3_load_exiting.
PinBits   == {"nmi_exiting"}
ProcBits  == {"use_msr_bitmaps", "use_secondary_controls", "cr3_load_exiting"}
Proc2Bits == {"enable_ept", "enable_vpid", "enable_rdtcp", "enable_invpcid", "enable_xsaves",
              "enable_user_wait_pause"}
ExitBits  == {"save_debug_controls", "host_address_space_size"}
EntryBits == {"load_debug_controls", "ia32_mode_guest"}

ControlBits == PinBits \cup ProcBits \cup Proc2Bits \cup ExitBits \cup EntryBits

\* The bits that must be one unless the TRUE register lets them be zero.
Default1(w) == CASE w = "proc"  -> {"cr3_load_exiting"}
                    [] w = "exit"  -> {"save_debug_controls"}
                    [] w = "entry" -> {"load_debug_controls"}
                    [] OTHER          -> {}

EptBits  == {"page_walk_length_4", "memory_type_uc", "memory_type_wb", "ept_access_dirty",
             "invept", "invept_single_context", "invept_all_contexts"}
VpidBits == {"invvpid", "invvpid_indiv_addr", "invvpid_single_context",
             "invvpid_single_context_retain_globals", "invvpid_all_contexts"}

\* Instructions that fault in the guest unless their control is set: RDTSCP, INVPCID,
\* XSAVES and XRSTORS, and the waits TPAUSE, UMONITOR and UMWAIT.
GuardedInstructions ==
  {"enable_rdtcp", "enable_invpcid", "enable_xsaves", "enable_user_wait_pause"}

Capability == [must : SUBSET ControlBits, may : SUBSET ControlBits]

Processor ==
  [vmx : BOOLEAN,            \* CPUID
   vmxon : BOOLEAN,          \* IA32_FEATURE_CONTROL
   mtrr_enable : BOOLEAN,    \* IA32_MTRR_DEF_TYPE
   true_controls : BOOLEAN,  \* IA32_VMX_BASIC
   controls : [Words -> Capability],
   trues : [Words -> Capability],
   ept_vpid : SUBSET (EptBits \cup VpidBits),
   instructions : SUBSET GuardedInstructions]

\* IA32_VMX_EPT_VPID_CAP exists on a processor with EPT or VPID; the registers before
\* it exist on one with VMX.
HasEptVpidCap(p) ==
  /\ p.vmx
  /\ "use_secondary_controls" \in p.controls["proc"].may
  /\ "enable_ept" \in p.controls["proc2"].may \/ "enable_vpid" \in p.controls["proc2"].may

\* What the architecture says of a processor: the TRUE registers differ from the
\* others in the default settings only; EPT and VPID come with their controls; an
\* instruction the processor has may be let through; and a 64-bit system runs.
WellFormed(p) ==
  /\ \A w \in Words :
       /\ Default1(w) \subseteq p.controls[w].must
       /\ p.controls[w].must \subseteq p.controls[w].may
       /\ p.trues[w].must \subseteq p.controls[w].must
       /\ p.trues[w].may = p.controls[w].may
  /\ p.trues["proc2"] = p.controls["proc2"]
  /\ p.ept_vpid \cap EptBits # {} => "enable_ept" \in p.controls["proc2"].may
  /\ p.ept_vpid \cap VpidBits # {} => "enable_vpid" \in p.controls["proc2"].may
  /\ p.instructions \subseteq p.controls["proc2"].may
  /\ p.vmx => /\ "host_address_space_size" \in p.controls["exit"].may
              /\ "ia32_mode_guest" \in p.controls["entry"].may

ASSUME ProcessorsAssumption == \A p \in Processors : p \in Processor /\ WellFormed(p)

VARIABLES
  cpu,      (* the processor                                                  *)
  at,       (* "driver", a point of start(), "guest", "refused" or "fault"     *)
  eptp,     (* ept_t::ept, or NoEptp before the constructor wrote it           *)
  word      (* the control words in the VMCS                                  *)

controlVars == <<cpu, at, eptp, word>>

-----------------------------------------------------------------------------
(* Asking                                                                     *)

\* Mutant: the length of the page walk is not looked at.
Supported_AnyWalk(p) ==
  /\ p.vmx /\ p.vmxon /\ p.mtrr_enable
  /\ {"memory_type_wb", "invept", "invept_single_context", "invept_all_contexts"} \cup VpidBits
       \subseteq p.ept_vpid

\* The answer of supported(); that the memory type uc or the dirty flags are
\* there is not asked.
SupportedBy(p) ==
  /\ p.vmx /\ p.vmxon /\ p.mtrr_enable
  /\ (EptBits \ {"memory_type_uc", "ept_access_dirty"}) \cup VpidBits \subseteq p.ept_vpid

\* supported() reads every MSR before it looks at the first bit; only then it returns
\* its answer.
AskSupported ==
  /\ at = "driver"
  /\ at' = IF HasEptVpidCap(cpu) THEN "driver" ELSE "fault"
  /\ UNCHANGED <<cpu, eptp, word>>

-----------------------------------------------------------------------------
(* The EPT pointer                                                            *)

NoEptp == [memory_type |-> "none", page_walk_length |-> 0, access_flags |-> FALSE]

\* Mutant: the length of the page walk as it is, where the field holds one less.
EptPointer_WalkOfFour(p) ==
  [memory_type |-> IF "memory_type_wb" \in p.ept_vpid THEN "write_back" ELSE "uncachable",
   page_walk_length |-> 4, access_flags |-> "ept_access_dirty" \in p.ept_vpid]

\* ept_t::ept_t() and ept_pointer(), without the address of the table.
EptPointer(p) ==
  [memory_type      |-> IF "memory_type_wb" \in p.ept_vpid THEN "write_back" ELSE "uncachable",
   page_walk_length |-> 3,
   access_flags     |-> "ept_access_dirty" \in p.ept_vpid]

ConstructEpt ==
  /\ at = "driver"
  /\ eptp = NoEptp
  /\ \/ /\ HasEptVpidCap(cpu)
        /\ eptp' = EptPointer(cpu)
        /\ UNCHANGED at
     \/ /\ ~HasEptVpidCap(cpu)
        /\ at' = "fault"
        /\ UNCHANGED eptp
  /\ UNCHANGED <<cpu, word>>

-----------------------------------------------------------------------------
(* The control words                                                          *)

\* Mutant: the guest may not execute XSAVES.
Requested_NoXsaves ==
  [pin   |-> {},
   proc  |-> {"use_msr_bitmaps", "use_secondary_controls"},
   proc2 |-> {"enable_ept", "enable_rdtcp", "enable_vpid", "enable_invpcid"},
   exit  |-> {"host_address_space_size"},
   entry |-> {"ia32_mode_guest"}]

\* Mutant: the secondary controls are set but not activated.
Requested_NotActivated ==
  [pin   |-> {},
   proc  |-> {"use_msr_bitmaps"},
   proc2 |-> {"enable_ept", "enable_rdtcp", "enable_vpid", "enable_invpcid", "enable_xsaves"},
   exit  |-> {"host_address_space_size"},
   entry |-> {"ia32_mode_guest"}]

\* What setup_controls() asks for.
Requested ==
  [pin   |-> {},
   proc  |-> {"use_msr_bitmaps", "use_secondary_controls"},
   proc2 |-> {"enable_ept", "enable_rdtcp", "enable_vpid", "enable_invpcid", "enable_xsaves"},
   exit  |-> {"host_address_space_size"},
   entry |-> {"ia32_mode_guest"}]

\* Mutant: the TRUE registers are not used.
Mask_NeverTrue(p, w) == p.controls[w]

\* The MSR adjust() reads for a word: there is no TRUE one for the secondary controls.
Mask(p, w) == IF p.true_controls /\ w # "proc2" THEN p.trues[w] ELSE p.controls[w]

Adjust(p, w, value) == (value \cap Mask(p, w).may) \cup Mask(p, w).must

\* From the broadcast of start() to setup_controls(), and its vmwrites.
StartCore ==
  /\ at = "driver"
  /\ eptp # NoEptp
  /\ SupportedBy(cpu)
  /\ at' = "controls"
  /\ UNCHANGED <<cpu, eptp, word>>

SetupControlWords ==
  /\ at = "controls"
  /\ word' = [w \in Words |-> Adjust(cpu, w, Requested[w])]
  /\ at' = "launch"
  /\ UNCHANGED <<cpu, eptp>>

-----------------------------------------------------------------------------
(* VM entry                                                                   *)

\* The processor enforces the TRUE registers where it has them.
WordAllowed(p, w, value) ==
  LET limits == IF p.true_controls THEN p.trues[w] ELSE p.controls[w]
  IN  limits.must \subseteq value /\ value \subseteq limits.may

Secondary == IF "use_secondary_controls" \in word["proc"] THEN word["proc2"] ELSE {}

EptpAllowed(p, pointer) ==
  /\ pointer.memory_type = "write_back" => "memory_type_wb" \in p.ept_vpid
  /\ pointer.memory_type = "uncachable" => "memory_type_uc" \in p.ept_vpid
  /\ pointer.page_walk_length = 3 /\ "page_walk_length_4" \in p.ept_vpid
  /\ pointer.access_flags => "ept_access_dirty" \in p.ept_vpid

\* The checks of VM entry on the control fields, from a 64-bit host to the 64-bit
\* guest it becomes; setup_controls() wrote a VPID other than zero.
EntryAllowed ==
  /\ \A w \in Words \ {"proc2"} : WordAllowed(cpu, w, word[w])
  /\ "use_secondary_controls" \in word["proc"] => WordAllowed(cpu, "proc2", word["proc2"])
  /\ "enable_ept" \in Secondary => EptpAllowed(cpu, eptp)
  /\ "host_address_space_size" \in word["exit"]
  /\ "ia32_mode_guest" \in word["entry"]

EnterGuest ==
  /\ at = "launch"
  /\ at' = IF EntryAllowed THEN "guest" ELSE "refused"
  /\ UNCHANGED <<cpu, eptp, word>>

\* stop(), of a vcpu that is on or that was not let in.
StopCore ==
  /\ at \in {"guest", "refused"}
  /\ at' = "driver"
  /\ UNCHANGED <<cpu, eptp, word>>

Faulted == at = "fault" /\ UNCHANGED controlVars

ControlsInit ==
  /\ cpu \in Processors
  /\ at = "driver"
  /\ eptp = NoEptp
  /\ word = [w \in Words |-> {}]

ControlsNext ==
  \/ AskSupported \/ ConstructEpt
  \/ StartCore \/ SetupControlWords \/ EnterGuest \/ StopCore
  \/ Faulted

ControlsSpec == ControlsInit /\ [][ControlsNext]_controlVars

-----------------------------------------------------------------------------
(* Properties.                                                                *)

ControlsTypeOK ==
  /\ cpu \in Processor
  /\ at \in {"driver", "controls", "launch", "guest", "refused", "fault"}
  /\ eptp \in [memory_type : {"none", "write_back", "uncachable"},
               page_walk_length : {0, 3}, access_flags : BOOLEAN]
  /\ word \in [Words -> SUBSET ControlBits]

\* On every processor supported() accepts, with or without TRUE registers, whatever
\* bits it wants set or does not have, VM entry takes the control words and the EPT
\* pointer: start() does not fail, or break in, because of them.
EntryNeverRefused == at # "refused"

\* A guest that runs, runs behind the EPT and with its own VPID: adjust() has not
\* silently dropped the bits the isolation rests on.
EptInEffect == at = "guest" => {"enable_ept", "enable_vpid"} \subseteq Secondary

\* Of the instructions that fault unless a control lets them through, the system that
\* finds itself in the guest loses the waits, wherever the processor does not insist on
\* them, and no other: nobody asks for their control.  It is not about instructions that
\* always exit: XSETBV breaks in, and the VMX instructions are faulted by their handler.
GuestLosesOnlyWaits ==
  at = "guest" =>
    cpu.instructions \ Secondary =
      (cpu.instructions \cap {"enable_user_wait_pause"}) \ cpu.controls["proc2"].must

\* passthrough() has no case for CR accesses, and breaks in: where the processor lets
\* the exit be turned off it is off.
Cr3StaysInGuest ==
  at = "guest" /\ "cr3_load_exiting" \in word["proc"] =>
    "cr3_load_exiting" \in (IF cpu.true_controls THEN cpu.trues ELSE cpu.controls)["proc"].must

-----------------------------------------------------------------------------
(* The inductive invariant: what has been established at each point of start() *)

ControlsInv ==
  /\ ControlsTypeOK
  /\ cpu \in Processors
  /\ eptp = NoEptp \/ (eptp = EptPointer(cpu) /\ HasEptVpidCap(cpu))
  /\ at \in {"controls", "launch", "guest"} => SupportedBy(cpu) /\ eptp # NoEptp
  /\ at \in {"launch", "guest"} => word = [w \in Words |-> Adjust(cpu, w, Requested[w])]
  /\ EntryNeverRefused

=============================================================================
