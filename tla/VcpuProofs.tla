----------------------------- MODULE VcpuProofs -----------------------------
(***************************************************************************)
(* Theorems about vcpu_t for any set of cores, any values of CR0 and CR4    *)
(* and any fixed bits.  The lemmas about CoreStep are used again for hv_t.  *)
(***************************************************************************)
EXTENDS Vcpu, TLAPS

-----------------------------------------------------------------------------
(* The control registers                                                      *)

\* Adjusting a control register makes it acceptable, whatever it held, as long
\* as no bit is fixed to both values (vmx::adjust, hv/vmx.hpp).
LEMMA AdjustMeetsFixedBits ==
  ASSUME NEW cr, NEW fixed0, NEW fixed1, fixed0 \subseteq fixed1
  PROVE  MeetsFixedBits(AdjustCr(cr, fixed0, fixed1), fixed0, fixed1)
  BY DEF AdjustCr, MeetsFixedBits

\* A CR0 the test of start() lets through is one VMX operation allows, if it has
\* no bit outside fixed1; the converse does not hold.
LEMMA AcceptedMeetsFixedBits ==
  ASSUME NEW cr, NEW fixed0, NEW fixed1, cr \subseteq fixed1, Cr0Accepted(cr, fixed0, fixed1)
  PROVE  MeetsFixedBits(cr, fixed0, fixed1)
  BY DEF Cr0Accepted, MeetsFixedBits

-----------------------------------------------------------------------------
(* Types                                                                      *)

\* A segment of start() keeps the types.
LEMMA StartStepTypes ==
  ASSUME NEW c \in Cores, VcpuTypeOK, StartStep(c)
  PROVE  VcpuTypeOK'
<1> USE DEF VcpuTypeOK, At, Goto, Jobs, StartJobs, StopJobs, VcpuStates
<1>1. CASE StartNotOff(c)
  BY <1>1 DEF StartNotOff
<1>2. CASE CheckCr0(c)
  BY <1>2 DEF CheckCr0
<1>3. CASE CheckFeatureControl(c)
  <2>1. FeatureControlAfter(fc[c]) \in FeatureControl
    BY DEF FeatureControlAfter, FeatureControl
  <2>2. fc' \in [Cores -> FeatureControl]
    BY <1>3, <2>1 DEF CheckFeatureControl
  <2>3. QED
    BY <1>3, <2>2 DEF CheckFeatureControl
<1>4. CASE EnableVmx(c)
  <2>1. AdjustCr(cr0[c], Cr0Fixed0, Cr0Fixed1) \subseteq Cr0Bits
    BY DEF AdjustCr, Cr0Bits
  <2>2. AdjustCr(cr4[c] \cup {"vmxe"}, Cr4Fixed0, Cr4Fixed1) \subseteq Cr4Bits
    BY DEF AdjustCr, Cr4Bits
  <2>3. QED
    BY <1>4, <2>1, <2>2 DEF EnableVmx
<1>5. CASE VmxOn(c)
  BY <1>5 DEF VmxOn
<1>6. CASE LoadVmcs(c)
  BY <1>6 DEF LoadVmcs, CompleteVmcs
<1>7. CASE SetupGuest(c)
  BY <1>7 DEF SetupGuest, WriteVmcs, CompleteVmcs, VmcsGroups
<1>8. CASE SetupHost(c)
  BY <1>8 DEF SetupHost, WriteVmcs, CompleteVmcs, VmcsGroups
<1>9. CASE SetupControls(c)
  <2>1. CASE ept = "ready"
    BY <1>9, <2>1 DEF SetupControls, WriteVmcs, CompleteVmcs, VmcsGroups
  <2>2. CASE ept # "ready"
    BY <1>9, <2>2 DEF SetupControls
  <2>3. QED
    BY <2>1, <2>2
<1>10. CASE SetupCallback(c)
  BY <1>10 DEF SetupCallback
<1>11. CASE Launch(c)
  BY <1>11 DEF Launch
<1>12. QED
  BY <1>1, <1>2, <1>3, <1>4, <1>5, <1>6, <1>7, <1>8, <1>9, <1>10, <1>11 DEF StartStep

\* A segment of stop() keeps the types.
LEMMA StopStepTypes ==
  ASSUME NEW c \in Cores, VcpuTypeOK, StopStep(c)
  PROVE  VcpuTypeOK'
<1> USE DEF VcpuTypeOK, At, Goto, Jobs, StartJobs, StopJobs, VcpuStates
<1>1. CASE LeaveVmx(c)
  BY <1>1 DEF LeaveVmx
<1>2. CASE DisableVmx(c)
  BY <1>2 DEF DisableVmx
<1>3. CASE ZeroRegions(c)
  BY <1>3 DEF ZeroRegions
<1>4. CASE MarkOff(c)
  BY <1>4 DEF MarkOff
<1>5. QED
  BY <1>1, <1>2, <1>3, <1>4 DEF StopStep

-----------------------------------------------------------------------------
(* The invariant of a core                                                    *)

\* What a step must leave alone for a core to keep its invariant.
Untouched(d) ==
  /\ vcpu'[d] = vcpu[d] /\ job'[d] = job[d] /\ mode'[d] = mode[d]
  /\ cr0'[d] = cr0[d] /\ cr4'[d] = cr4[d] /\ fc'[d] = fc[d]
  /\ mem'[d] = mem[d] /\ vmcs'[d] = vmcs[d]
  /\ stack'[d] = stack[d] /\ armed'[d] = armed[d]

\* What is true of a core depends on that core's state alone: a core whose variables
\* stay as they are keeps its invariant.
LEMMA UntouchedKeepsInv ==
  ASSUME NEW d \in Cores, CoreInv(d), Untouched(d), ept' = ept
  PROVE  CoreInv(d)'
  BY DEF Untouched, CoreInv, ModeAgrees, ModeOf, OffIsBlank, InVmxIsBacked, OnIsComplete,
         StartProgress, StopProgress, VmcsAt, MeetsFixedBits

\* A core's step touches only that core, and never the EPT.
LEMMA CoreStepIsLocal ==
  ASSUME VcpuTypeOK, NEW c \in Cores, CoreStep(c), NEW d \in Cores, d # c
  PROVE  Untouched(d) /\ ept' = ept
<1> USE DEF VcpuTypeOK, Untouched, Goto
<1>1. CASE StartStep(c)
  BY <1>1 DEF StartStep, StartNotOff, CheckCr0, CheckFeatureControl, EnableVmx, VmxOn,
     LoadVmcs, SetupGuest, SetupHost, SetupControls, SetupCallback, Launch, WriteVmcs
<1>2. CASE StopStep(c)
  BY <1>2 DEF StopStep, LeaveVmx, DisableVmx, ZeroRegions, MarkOff
<1>3. QED
  BY <1>1, <1>2 DEF CoreStep

\* The same core, one lemma per segment of start().
LEMMA StartStepKeepsInv ==
  ASSUME VcpuTypeOK, NEW c \in Cores, CoreInv(c), StartStep(c)
  PROVE  CoreInv(c)'
<1> USE DEF VcpuTypeOK, CoreInv, ModeAgrees, ModeOf, OffIsBlank, InVmxIsBacked, OnIsComplete,
            StartProgress, StopProgress, At, Goto, StopJobs, LeftVmx, InRoot
<1>1. CASE StartNotOff(c)
  BY <1>1 DEF StartNotOff
<1>2. CASE CheckCr0(c)
  BY <1>2 DEF CheckCr0
<1>3. CASE CheckFeatureControl(c)
  BY <1>3 DEF CheckFeatureControl, FeatureControlAfter
<1>4. CASE EnableVmx(c)
  <2>1. MeetsFixedBits(cr0'[c], Cr0Fixed0, Cr0Fixed1)
    BY <1>4, AdjustMeetsFixedBits, FixedBitsAssumption DEF EnableVmx
  <2>2. MeetsFixedBits(cr4'[c], Cr4Fixed0, Cr4Fixed1)
    BY <1>4, AdjustMeetsFixedBits, FixedBitsAssumption DEF EnableVmx
  <2>3. "vmxe" \in cr4'[c]
    BY <1>4, FixedBitsAssumption DEF EnableVmx, AdjustCr
  <2>4. QED
    BY <1>4, <2>1, <2>2, <2>3 DEF EnableVmx
<1>5. CASE VmxOn(c)
  BY <1>5 DEF VmxOn
<1>6. CASE LoadVmcs(c)
  BY <1>6 DEF LoadVmcs, VmcsAt
<1>7. CASE SetupGuest(c)
  BY <1>7 DEF SetupGuest, WriteVmcs, VmcsAt
<1>8. CASE SetupHost(c)
  BY <1>8 DEF SetupHost, WriteVmcs, VmcsAt
<1>9. CASE SetupControls(c)
  BY <1>9 DEF SetupControls, WriteVmcs, VmcsAt, CompleteVmcs, VmcsGroups
<1>10. CASE SetupCallback(c)
  BY <1>10 DEF SetupCallback, VmcsAt
<1>11. CASE Launch(c)
  BY <1>11 DEF Launch, VmcsAt
<1>12. QED
  BY <1>1, <1>2, <1>3, <1>4, <1>5, <1>6, <1>7, <1>8, <1>9, <1>10, <1>11 DEF StartStep

\* The same core, one step per segment of stop().
LEMMA StopStepKeepsInv ==
  ASSUME VcpuTypeOK, NEW c \in Cores, CoreInv(c), StopStep(c)
  PROVE  CoreInv(c)'
<1> USE DEF VcpuTypeOK, CoreInv, ModeAgrees, ModeOf, OffIsBlank, InVmxIsBacked, OnIsComplete,
            StartProgress, StopProgress, At, Goto, StopJobs, LeftVmx, InRoot
<1>1. CASE LeaveVmx(c)
  BY <1>1 DEF LeaveVmx
<1>2. CASE DisableVmx(c)
  BY <1>2 DEF DisableVmx
<1>3. CASE ZeroRegions(c)
  BY <1>3 DEF ZeroRegions
<1>4. CASE MarkOff(c)
  BY <1>4 DEF MarkOff
<1>5. QED
  BY <1>1, <1>2, <1>3, <1>4 DEF StopStep

\* A step of any core keeps the invariant of every core; this is all hv_t needs
\* to know of start() and stop().
LEMMA CoreStepKeepsInv ==
  ASSUME VcpuInv, NEW c \in Cores, CoreStep(c)
  PROVE  VcpuInv'
<1>1. VcpuTypeOK'
  BY StartStepTypes, StopStepTypes DEF VcpuInv, CoreStep
<1>2. ASSUME NEW d \in Cores PROVE CoreInv(d)'
  <2>1. CASE d = c
    BY <2>1, StartStepKeepsInv, StopStepKeepsInv DEF VcpuInv, CoreStep
  <2>2. CASE d # c
    BY <2>2, CoreStepIsLocal, UntouchedKeepsInv DEF VcpuInv
  <2>3. QED
    BY <2>1, <2>2
<1>3. QED
  BY <1>1, <1>2 DEF VcpuInv

-----------------------------------------------------------------------------
(* vcpu_t by itself                                                           *)

\* What the invariant says is enough for each of the properties.
LEMMA InvImpliesProperties ==
  ASSUME VcpuInv
  PROVE  StateMatchesCpu /\ InstructionsLegal /\ GuestReady /\ RestartIsClean /\ SetupsAreTornDown
<1> USE DEF VcpuInv, VcpuTypeOK, CoreInv, ModeAgrees, ModeOf
<1>1. StateMatchesCpu
  BY DEF StateMatchesCpu
<1>2. InstructionsLegal
  BY DEF InstructionsLegal, VmxOnLegal, WriteLegal, LaunchLegal, StartProgress, VmcsAt,
         InRoot, LeftVmx, CompleteVmcs
<1>3. GuestReady
  BY DEF GuestReady, OnIsComplete, InVmxIsBacked, VcpuStates
<1>4. RestartIsClean
  BY DEF RestartIsClean, StartProgress, OffIsBlank
<1>5. SetupsAreTornDown
  BY DEF SetupsAreTornDown, StartProgress, OffIsBlank, OnIsComplete, InRoot
<1>6. QED
  BY <1>1, <1>2, <1>3, <1>4, <1>5

\* A freshly constructed vcpu_t on an untouched core satisfies the invariant.
LEMMA VcpuInitInv == VcpuInit => VcpuInv
<1> SUFFICES ASSUME VcpuInit PROVE VcpuInv
  OBVIOUS
<1>1. VcpuTypeOK
  BY DEF VcpuInit, UntouchedCore, VcpuTypeOK, FreshState, VcpuStates, Jobs, Cr0Bits, Cr4Bits
<1>2. ASSUME NEW c \in Cores PROVE CoreInv(c)
  BY DEF VcpuInit, UntouchedCore, FreshState, CoreInv, ModeAgrees, ModeOf, OffIsBlank,
         InVmxIsBacked, OnIsComplete, StartProgress, StopProgress, StopJobs, LeftVmx, InRoot
<1>3. QED
  BY <1>1, <1>2 DEF VcpuInv

\* A call, or a return, keeps the types.
LEMMA CallTypes ==
  ASSUME VcpuTypeOK, NEW c \in Cores,
         CallVcpuStart(c) \/ CallVcpuStop(c) \/ ReturnFromVcpu(c)
  PROVE  VcpuTypeOK'
  BY DEF CallVcpuStart, CallVcpuStop, ReturnFromVcpu, CallOnVcpu, At, Goto, VcpuTypeOK, Jobs,
         StartJobs, StopJobs

\* It touches no other core.
LEMMA CallIsLocal ==
  ASSUME VcpuTypeOK, NEW c \in Cores,
         CallVcpuStart(c) \/ CallVcpuStop(c) \/ ReturnFromVcpu(c),
         NEW d \in Cores, d # c
  PROVE  Untouched(d) /\ ept' = ept
  BY DEF CallVcpuStart, CallVcpuStop, ReturnFromVcpu, CallOnVcpu, At, Goto, Untouched, VcpuTypeOK

\* Its own core keeps its invariant.
LEMMA CallKeepsCore ==
  ASSUME VcpuTypeOK, NEW c \in Cores, CoreInv(c),
         CallVcpuStart(c) \/ CallVcpuStop(c) \/ ReturnFromVcpu(c)
  PROVE  CoreInv(c)'
  BY DEF CallVcpuStart, CallVcpuStop, ReturnFromVcpu, CallOnVcpu, At, Goto, VcpuTypeOK, CoreInv,
         ModeAgrees, ModeOf, OffIsBlank, InVmxIsBacked, OnIsComplete, StartProgress, StopProgress,
         StopJobs, LeftVmx, InRoot

\* A call, or a return, on one core.
LEMMA CallKeepsInv ==
  ASSUME VcpuInv, NEW c \in Cores,
         CallVcpuStart(c) \/ CallVcpuStop(c) \/ ReturnFromVcpu(c)
  PROVE  VcpuInv'
<1>1. ASSUME NEW d \in Cores PROVE CoreInv(d)'
  BY CallIsLocal, CallKeepsCore, UntouchedKeepsInv DEF VcpuInv
<1>2. QED
  BY <1>1, CallTypes DEF VcpuInv

\* Every step of the owner or of a core preserves the invariant.
LEMMA VcpuNextInv == VcpuInv /\ [VcpuNext]_coreVars => VcpuInv'
<1> SUFFICES ASSUME VcpuInv, [VcpuNext]_coreVars PROVE VcpuInv'
  OBVIOUS
<1>1. CASE UNCHANGED coreVars
  <2>1. VcpuTypeOK'
    BY <1>1 DEF VcpuInv, VcpuTypeOK, coreVars
  <2>2. ASSUME NEW d \in Cores PROVE CoreInv(d)'
    BY <1>1, UntouchedKeepsInv DEF VcpuInv, Untouched, coreVars
  <2>3. QED
    BY <2>1, <2>2 DEF VcpuInv
<1>2. CASE \E c \in Cores : CoreStep(c)
  BY <1>2, CoreStepKeepsInv
<1>3. CASE \E c \in Cores : CallVcpuStart(c) \/ CallVcpuStop(c) \/ ReturnFromVcpu(c)
  BY <1>3, CallKeepsInv
<1>4. CASE \E c \in Cores : GuestBreaks(c)
  <2>1. VcpuTypeOK'
    BY <1>4 DEF VcpuInv, VcpuTypeOK, GuestBreaks
  <2>2. ASSUME NEW d \in Cores PROVE CoreInv(d)'
    BY <1>4, UntouchedKeepsInv DEF VcpuInv, Untouched, GuestBreaks
  <2>3. QED
    BY <2>1, <2>2 DEF VcpuInv
<1>5. QED
  BY <1>1, <1>2, <1>3, <1>4 DEF VcpuNext, VcpuDown

\* The inductive invariant of vcpu_t.
THEOREM VcpuInvariance == VcpuSpec => []VcpuInv
<1>1. QED
  BY VcpuInitInv, VcpuNextInv, PTL DEF VcpuSpec

\* Type correctness of vcpu_t.
THEOREM VcpuTypeCorrect == VcpuSpec => []VcpuTypeOK
<1>1. VcpuInv => VcpuTypeOK
  BY DEF VcpuInv
<1>2. QED
  BY <1>1, VcpuInvariance, PTL

\* vcpu_t::state always tells in which VMX operation the core is.
THEOREM StateMatchesCpuHolds == VcpuSpec => []StateMatchesCpu
<1>1. VcpuInv => StateMatchesCpu
  BY InvImpliesProperties
<1>2. QED
  BY <1>1, VcpuInvariance, PTL

\* Every VMX instruction of start() and stop() is executed where it is legal.
THEOREM InstructionsLegalHolds == VcpuSpec => []InstructionsLegal
<1>1. VcpuInv => InstructionsLegal
  BY InvImpliesProperties
<1>2. QED
  BY <1>1, VcpuInvariance, PTL

\* A core in the guest can take its exits.
THEOREM GuestReadyHolds == VcpuSpec => []GuestReady
<1>1. VcpuInv => GuestReady
  BY InvImpliesProperties
<1>2. QED
  BY <1>1, VcpuInvariance, PTL

\* start() enters VMX on blank pages, whatever the vcpu ran before.
THEOREM RestartIsCleanHolds == VcpuSpec => []RestartIsClean
<1>1. VcpuInv => RestartIsClean
  BY InvImpliesProperties
<1>2. QED
  BY <1>1, VcpuInvariance, PTL

\* No setup_cb is left without its teardown_cb, also when a start fails between the two.
THEOREM SetupsAreTornDownHolds == VcpuSpec => []SetupsAreTornDown
<1>1. VcpuInv => SetupsAreTornDown
  BY InvImpliesProperties
<1>2. QED
  BY <1>1, VcpuInvariance, PTL

=============================================================================
