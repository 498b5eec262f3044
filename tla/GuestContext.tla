---------------------------- MODULE GuestContext ----------------------------
(***************************************************************************)
(* One register of a core that is not in regs_t, followed through start(),  *)
(* the VM exits and stop(): what setup_guest() and setup_host() capture of   *)
(* it (hv/vcpu.cpp), what an exit saves and replaces under the control words *)
(* of Controls, what the MSR handlers do to it (hv/vmexit.cpp), and what the *)
(* vmcall that leaves VMX gives back (hv/vmcall.cpp).  The registers do not  *)
(* depend on each other, so each behaviour follows a single one.            *)
(***************************************************************************)
EXTENDS Controls

CONSTANTS
  Values,      (* What a register may hold.                                   *)
  SystemCr3    (* The page table of the system process.                       *)

ASSUME ValuesAssumption == SystemCr3 \in Values

VARIABLES
  item,        (* the register looked at                                      *)
  intercept,   (* which of RDMSR and WRMSR of it setup_cb lets exit           *)
  reg,         (* the register itself                                         *)
  field,       (* its guest-state field in the VMCS                           *)
  host,        (* its host-state field, or what the exit loads without one    *)
  exit,        (* "none" outside the host, or a point of the exit             *)
  answer,      (* what the last handle_msr_read() left in regs().rax and rdx; *)
               (* the stub resumes the guest without loading it from there    *)
  view,        (* ghost: what its user has last written to it                 *)
  lost,        (* ghost: whether that was a WRMSR exit that                   *)
               (* handle_msr_write() did not deliver                          *)
  instead      (* ghost: if so, what the guest is left with instead           *)

ghosts == <<view, lost, instead>>

contextVars == <<controlVars, item, intercept, reg, field, host, exit, answer, ghosts>>

-----------------------------------------------------------------------------
(* Registers                                                                  *)

\* The MSRs passthrough() knows by name, and all the others.
NamedMsrs == {"sysenter_cs", "sysenter_eip", "sysenter_esp", "fsbase", "gsbase", "debugctl"}
Msrs      == NamedMsrs \cup {"other_msr"}

\* The exits setup_cb may ask for in the MSR bitmap.
MsrExits == {"msr_read", "msr_write"}

Debug  == {"dr7", "debugctl"}
Tables == {"gdtr", "idtr"}
Items  == Msrs \cup Debug \cup Tables \cup {"cr0", "cr3", "cr4", "rflags"}

\* Everything but the other MSRs has a guest-state field, which an exit saves and an
\* entry loads; for the debug registers the controls decide.
InVmcs(r) == r # "other_msr"
Saved  == InVmcs(item) /\ (item \in Debug => "save_debug_controls" \in word["exit"])
Loaded == InVmcs(item) /\ (item \in Debug => "load_debug_controls" \in word["entry"])

\* The values a register can have that no program has put there.
Artefacts == {"none", "reset", "widened", "mixed"}
Contents  == Values \cup Artefacts

\* What an exit loads.  setup_host() takes CR3 from the system process and the rest as
\* they are; the limits of the tables have no field and become 64K; RFLAGS and the debug
\* registers are reset.
HostArea ==
  CASE item = "cr3"                        -> SystemCr3
    [] item \in Tables                     -> "widened"
    [] item \in Debug \cup {"rflags"}      -> "reset"
    [] OTHER                               -> reg

-----------------------------------------------------------------------------
(* start()                                                                    *)

\* Mutant: setup_guest() forgets IA32_DEBUGCTL, which has just been zeroed.
GuestArea_NoDebugctl == IF item \in {"rflags", "other_msr", "debugctl"} THEN "none" ELSE reg

\* What setup_guest() writes; RFLAGS is left to asm_vmlaunch.
GuestArea == IF item \in {"rflags", "other_msr"} THEN "none" ELSE reg

Capture ==
  /\ SetupControlWords
  /\ field' = GuestArea
  /\ host' = HostArea
  /\ UNCHANGED <<item, intercept, reg, exit, answer, ghosts>>

\* asm_vmlaunch writes RFLAGS, and the processor loads the guest state.
FirstEntry ==
  /\ EnterGuest
  /\ field' = IF item = "rflags" THEN reg ELSE field
  /\ reg' = IF at' = "guest" /\ Loaded THEN field' ELSE reg
  /\ UNCHANGED <<item, intercept, host, exit, answer, ghosts>>

-----------------------------------------------------------------------------
(* The system, in and outside the guest                                       *)

InGuest == at = "guest" /\ exit = "none"

\* A write that does not exit.  A WRMSR that is intercepted does, and so does MOV to
\* CR3 on a processor that insists on it.
SystemWrites ==
  /\ \/ at = "driver"
     \/ /\ InGuest
        /\ "msr_write" \notin intercept
        /\ ~(item = "cr3" /\ "cr3_load_exiting" \in word["proc"])
  /\ \E value \in Values : reg' = value /\ view' = value
  /\ lost' = FALSE /\ instead' = "none"
  /\ UNCHANGED <<controlVars, item, intercept, field, host, exit, answer>>

\* MOV to CR3 exits with a reason passthrough() breaks in on.
Cr3WriteBreaks ==
  /\ InGuest
  /\ item = "cr3" /\ "cr3_load_exiting" \in word["proc"]
  /\ at' = "fault"
  /\ UNCHANGED <<cpu, eptp, word, item, intercept, reg, field, host, exit, answer, ghosts>>

-----------------------------------------------------------------------------
(* VM exits                                                                   *)

\* RDMSR and WRMSR of the register looked at, the vmcall of stop(), and any exit whose
\* handler has nothing to do with the register.
Exits ==
  /\ InGuest
  /\ \E cause \in {"vmxoff", "other"} \cup intercept : exit' = cause
  /\ field' = IF Saved THEN reg ELSE field
  /\ reg' = IF InVmcs(item) THEN host ELSE reg
  /\ UNCHANGED <<controlVars, item, intercept, host, answer, ghosts>>

\* Mutant: no case for one of the SYSENTER registers.
ReadMsr_NoEsp == IF item \in NamedMsrs \ {"sysenter_esp"} THEN field ELSE reg

ReadMsr == IF item \in NamedMsrs THEN field ELSE reg

HandleMsrRead ==
  /\ exit = "msr_read"
  /\ answer' = ReadMsr
  /\ exit' = "resume"
  /\ UNCHANGED <<controlVars, item, intercept, reg, field, host, ghosts>>

\* What the guest is to find in the register.
Effective == IF lost THEN instead ELSE view

\* The register is written, the field is not, and the next entry loads the field; rax is
\* not masked, so what the guest has in its upper half is mixed into the value.
HandleMsrWrite ==
  /\ exit = "msr_write"
  /\ \E value \in Values, clean \in BOOLEAN :
       /\ reg' = IF clean THEN value ELSE "mixed"
       /\ view' = value
       /\ lost' = (Loaded \/ ~clean)
       /\ instead' = IF Loaded THEN Effective ELSE "mixed"
  /\ exit' = "resume"
  /\ UNCHANGED <<controlVars, item, intercept, field, host, answer>>

HandleOther ==
  /\ exit = "other"
  /\ exit' = "resume"
  /\ UNCHANGED <<controlVars, item, intercept, reg, field, host, answer, ghosts>>

Resume ==
  /\ exit = "resume"
  /\ reg' = IF Loaded THEN field ELSE reg
  /\ exit' = "none"
  /\ UNCHANGED <<controlVars, item, intercept, field, host, answer, ghosts>>

-----------------------------------------------------------------------------
(* stop()                                                                     *)

\* Mutant: the vmxoff call does not load the guest's GDTR.
GivenBackHere_NotGdtr == item \in {"cr3", "idtr"}

GivenBackHere == item \in {"cr3", "gdtr", "idtr"}

HandleVmxoff ==
  /\ exit = "vmxoff"
  /\ reg' = IF GivenBackHere THEN field ELSE reg
  /\ exit' = "leave"
  /\ UNCHANGED <<controlVars, item, intercept, field, host, answer, ghosts>>

\* vmxoff, and the rest of stop(); the system lives with what it finds.
Leave ==
  /\ exit = "leave"
  /\ StopCore
  /\ exit' = "none"
  /\ view' = reg
  /\ lost' = FALSE /\ instead' = "none"
  /\ UNCHANGED <<item, intercept, reg, field, host, answer>>

-----------------------------------------------------------------------------
ContextInit ==
  /\ ControlsInit
  /\ item \in Items
  /\ intercept \in (IF item \in Msrs THEN SUBSET MsrExits ELSE {{}})
  /\ reg \in Values
  /\ view = reg
  /\ field = "none" /\ host = "none" /\ answer = "none"
  /\ exit = "none"
  /\ lost = FALSE /\ instead = "none"

\* The steps of Controls that touch no register.
Prepare ==
  /\ AskSupported \/ ConstructEpt \/ StartCore
  /\ UNCHANGED <<item, intercept, reg, field, host, exit, answer, ghosts>>

Stuck == Faulted /\ UNCHANGED contextVars

ContextNext ==
  \/ Prepare \/ Capture \/ FirstEntry
  \/ SystemWrites \/ Cr3WriteBreaks
  \/ Exits \/ HandleMsrRead \/ HandleMsrWrite \/ HandleOther \/ Resume
  \/ HandleVmxoff \/ Leave
  \/ Stuck

ContextSpec == ContextInit /\ [][ContextNext]_contextVars

-----------------------------------------------------------------------------
(* Properties.                                                                *)

\* setup_controls() does not ask for the debug registers to be saved and loaded; what
\* is said of them here holds where the processor does not let that be turned off.
Followed == item \in Debug => Saved /\ Loaded

ContextTypeOK ==
  /\ ControlsTypeOK
  /\ item \in Items
  /\ intercept \subseteq MsrExits
  /\ {reg, field, host, answer, view, instead} \subseteq Contents
  /\ exit \in {"none", "msr_read", "msr_write", "other", "vmxoff", "resume", "leave"}
  /\ lost \in BOOLEAN

\* However many exits there have been, with whatever the guest wrote in between, the
\* guest finds its registers as it left them and not as the host or the reset has them,
\* but for what it wrote by a WRMSR that exits: a register the entry loads it finds as it
\* was before that write, and another one with the upper half of its rax mixed in.
ResumeKeepsContext == InGuest /\ Followed => reg = Effective

\* For an RDMSR that exits handle_msr_read() fetches what the guest has in the MSR,
\* although the processor's MSR holds the host's value meanwhile.  It puts it into
\* regs(), from where vmexit_stub does not load it: that the guest receives it is not
\* claimed.
ReadMsrFetchesGuests ==
  [][HandleMsrRead /\ Followed => answer' = Effective]_contextVars

\* When vmxoff is executed, CR3, the descriptor tables and the MSRs no exit touches are
\* as the guest had them, whatever it wrote to them since start(); the other registers
\* are if they have not been written since.  RFLAGS, DR7 and DEBUGCTL are not.
LeaveGivesBack ==
  exit = "leave" /\ item \notin Debug \cup {"rflags"} =>
    \/ reg = Effective
    \/ item \notin {"cr3", "gdtr", "idtr", "other_msr"} /\ Effective # host

-----------------------------------------------------------------------------
(* The inductive invariant: where the guest's value is at each point           *)

\* The guest's value is in the register until an exit saves it, then in the field.
ValueIsKept ==
  /\ at \in {"driver", "controls", "launch"} => reg = view
  /\ at = "launch" => field = GuestArea
  /\ InGuest /\ Followed => reg = Effective
  /\ exit # "none" /\ Followed => (IF InVmcs(item) THEN field ELSE reg) = Effective

ContextInv ==
  /\ ContextTypeOK
  /\ ControlsInv
  /\ intercept # {} => item \in Msrs
  /\ exit # "none" => at = "guest"
  /\ exit = "msr_read" => exit \in intercept
  /\ at \notin {"guest", "fault"} => ~lost
  /\ ValueIsKept
  /\ exit = "vmxoff" /\ InVmcs(item) => reg = host
  /\ exit = "leave" /\ InVmcs(item) => reg = (IF GivenBackHere THEN field ELSE host)

=============================================================================
