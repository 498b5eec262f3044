-------------------------- MODULE HypervisorProofs --------------------------
(***************************************************************************)
(* Theorems about hv_t for any set of cores and any number of threads that  *)
(* call it.                                                                 *)
(***************************************************************************)
EXTENDS Hypervisor, VcpuProofs

-----------------------------------------------------------------------------
(* One core                                                                   *)

\* What a core's step does to what hv_t looks at: a segment of stop() is followed
\* by one of stop() or by an off vcpu, and no vcpu appears or starts to work.
LEMMA CoreStepEffects ==
  ASSUME VcpuInv, NEW c \in Cores, CoreStep(c), NEW d \in Cores
  PROVE  /\ job'[d] # "idle" => job[d] # "idle"
         /\ vcpu'[d] # "null" => vcpu[d] # "null"
         /\ job[d] \in StopJobs =>
              job'[d] \in StopJobs \/ (job'[d] = "done" /\ vcpu'[d] = "off")
         /\ job[d] \in {"idle", "done"} => job'[d] = job[d] /\ vcpu'[d] = vcpu[d]
<1> USE DEF At, Goto, StopJobs
<1>1. CASE d # c
  BY <1>1, CoreStepIsLocal DEF VcpuInv, Untouched
<1>2. CASE d = c /\ StartStep(c)
  BY <1>2 DEF VcpuInv, VcpuTypeOK, StartStep, StartNotOff, CheckCr0, CheckFeatureControl,
     EnableVmx, VmxOn, LoadVmcs, SetupGuest, SetupHost, SetupControls, SetupCallback, Launch,
     WriteVmcs, CoreInv, StartProgress, InRoot
<1>3. CASE d = c /\ StopStep(c)
  BY <1>3 DEF VcpuInv, VcpuTypeOK, StopStep, LeaveVmx, DisableVmx, ZeroRegions, MarkOff,
     CoreInv, StopProgress
<1>4. QED
  BY <1>1, <1>2, <1>3 DEF CoreStep

\* A step that leaves every core alone keeps their invariants.
LEMMA IdleCoresKeepInv ==
  ASSUME VcpuInv, UNCHANGED <<vcpu, job, mode, cr0, cr4, fc, mem, vmcs, stack, armed, ept>>,
         down' \in BOOLEAN
  PROVE  VcpuInv'
<1>1. VcpuTypeOK'
  BY DEF VcpuInv, VcpuTypeOK
<1>2. ASSUME NEW d \in Cores PROVE CoreInv(d)'
  BY UntouchedKeepsInv DEF VcpuInv, Untouched
<1>3. QED
  BY <1>1, <1>2 DEF VcpuInv

-----------------------------------------------------------------------------
(* The steps of Hypervisor                                                     *)

\* Before the first hv_t there is nothing to get wrong.
LEMMA HvInitInv == HvInit => HvInv
<1> SUFFICES ASSUME HvInit PROVE HvInv
  OBVIOUS
<1>1. VcpuTypeOK
  BY DEF HvInit, UntouchedCore, VcpuTypeOK, VcpuStates, Jobs, Cr0Bits, Cr4Bits
<1>2. ASSUME NEW c \in Cores PROVE CoreInv(c)
  BY DEF HvInit, UntouchedCore, CoreInv, ModeAgrees, ModeOf, OffIsBlank, InVmxIsBacked,
         OnIsComplete, StartProgress, StopProgress, StopJobs, LeftVmx, InRoot
<1>3. HvTypeOK
  BY <1>1 DEF HvInit, HvTypeOK, Ops
<1>4. BroadcastCoversWork /\ BroadcastInv /\ OwnedAreReached /\ Lifetime
  BY DEF HvInit, UntouchedCore, BroadcastCoversWork, BroadcastInv, OwnedAreReached, Lifetime,
         Quiescent
<1>5. QED
  BY <1>1, <1>2, <1>3, <1>4 DEF HvInv, VcpuInv

\* The constructor of hv_t leaves vcpus that are off, on active processors.
LEMMA ConstructInv ==
  ASSUME HvInv, Construct
  PROVE  HvInv'
<1>1. \A c \in Cores : job[c] = "idle" /\ vcpu[c] = "null"
  BY DEF HvInv, Construct, Lifetime, Quiescent, BroadcastCoversWork, BroadcastInv, Broadcasts,
         HvTypeOK
<1>2. ipi = NoThread
  BY DEF HvInv, Construct, Lifetime, Quiescent, BroadcastInv, Broadcasts, HvTypeOK
<1>3. VcpuTypeOK'
  BY DEF HvInv, VcpuInv, Construct, VcpuTypeOK, VcpuStates, FreshState
<1>4. ASSUME NEW c \in Cores PROVE CoreInv(c)'
  <2>1. vcpu'[c] \in {"null", "off"} /\ job'[c] = "idle"
    BY <1>1 DEF Construct, FreshState
  <2>2. mode'[c] = "off" /\ vmcs'[c] = {} /\ ~stack'[c] /\ ~armed'[c]
    BY <1>1 DEF HvInv, VcpuInv, Construct, CoreInv, ModeAgrees, ModeOf, OffIsBlank, LeftVmx
  <2>3. QED
    BY <2>1, <2>2 DEF CoreInv, ModeAgrees, ModeOf, OffIsBlank, InVmxIsBacked,
       OnIsComplete, StartProgress, StopProgress, StopJobs, LeftVmx, InRoot
<1>5. HvTypeOK'
  BY <1>3 DEF HvInv, Construct, HvTypeOK
<1>6. BroadcastCoversWork' /\ BroadcastInv'
  BY <1>1, <1>2 DEF Construct, BroadcastCoversWork, BroadcastInv
<1>7. OwnedAreReached'
  BY <1>2 DEF Construct, OwnedAreReached
<1>8. Lifetime'
  BY DEF HvInv, Construct, Lifetime, Quiescent, FreshState
<1>9. QED
  BY <1>3, <1>4, <1>5, <1>6, <1>7, <1>8 DEF HvInv, VcpuInv

\* A thread enters a method.
LEMMA CallInv ==
  ASSUME HvInv, NEW t \in Threads, ThreadCalls(t)
  PROVE  HvInv'
<1> USE DEF ThreadCalls, CallStart, CallStop, CallDelete
<1>1. VcpuInv'
  BY IdleCoresKeepInv DEF HvInv, VcpuInv, VcpuTypeOK, coreVars
<1>2. HvTypeOK'
  BY <1>1 DEF HvInv, VcpuInv, HvTypeOK, Ops
<1>3. BroadcastCoversWork' /\ BroadcastInv' /\ OwnedAreReached'
  BY DEF HvInv, HvTypeOK, BroadcastCoversWork, BroadcastInv, OwnedAreReached, Broadcasts,
         coreVars
<1>4. Lifetime'
  BY DEF HvInv, HvTypeOK, Lifetime, Owned, Quiescent, coreVars
<1>5. QED
  BY <1>1, <1>2, <1>3, <1>4 DEF HvInv

\* The broadcast starts: every core it reaches is handed the first segment of its
\* lambda, on cores that were all idle.
LEMMA SendInv ==
  ASSUME HvInv, NEW t \in Threads, Send(t)
  PROVE  HvInv'
<1> USE DEF Send
<1>1. \A c \in Cores : job[c] = "idle"
  BY DEF HvInv, BroadcastCoversWork
<1>2. hv # "none"
  BY DEF HvInv, Lifetime, Quiescent, Broadcasts
<1>3. CASE down'
  <2>1. VcpuInv'
    BY <1>3, IdleCoresKeepInv DEF HvInv, VcpuInv, VcpuTypeOK
  <2>2. QED
    BY <1>3, <2>1 DEF HvInv, VcpuInv, HvTypeOK, BroadcastCoversWork, BroadcastInv,
       OwnedAreReached, Lifetime, Quiescent
<1>4. CASE ~down'
  <2>1. ipi' = t /\ targets' = active
    BY <1>4
  <2>2. ASSUME NEW c \in Cores
        PROVE  /\ job'[c] \in {"idle", "start", "failed", "stop", "done"}
               /\ job'[c] # "idle" => c \in active
               /\ job'[c] = "stop" => vcpu[c] # "null"
               /\ op[t] # "start" => job'[c] \in {"idle", "stop", "done"}
               /\ op[t] # "start" /\ job'[c] = "done" => vcpu[c] = "null"
    BY <1>4 DEF StartLambda, StopLambda
  <2>3. VcpuTypeOK'
    BY <1>4, <2>2 DEF HvInv, VcpuInv, VcpuTypeOK, Jobs, StartJobs, StopJobs
  <2>4. ASSUME NEW c \in Cores PROVE CoreInv(c)'
    BY <1>1, <1>4, <2>2 DEF HvInv, VcpuInv, CoreInv, ModeAgrees, ModeOf, OffIsBlank,
       InVmxIsBacked, OnIsComplete, StartProgress, StopProgress, StopJobs, LeftVmx, InRoot
  <2>5. HvTypeOK'
    BY <1>4, <2>1, <2>3 DEF HvInv, HvTypeOK
  <2>6. BroadcastCoversWork'
    BY <2>1, <2>2, ThreadsAssumption DEF BroadcastCoversWork
  <2>7. BroadcastInv'
    BY <2>1, <2>2 DEF BroadcastInv, StopJobs
  <2>8. OwnedAreReached'
    BY <2>1 DEF HvInv, OwnedAreReached
  <2>9. Lifetime'
    BY <1>2 DEF HvInv, Lifetime, Quiescent
  <2>10. QED
    BY <2>3, <2>4, <2>5, <2>6, <2>7, <2>8, <2>9 DEF HvInv, VcpuInv
<1>5. QED
  BY <1>3, <1>4

\* The broadcast returns: every core is idle again, and after a stop() every vcpu
\* is off.
LEMMA GatherInv ==
  ASSUME HvInv, NEW t \in Threads, Gather(t)
  PROVE  HvInv'
<1> USE DEF Gather
<1>1. \A c \in Cores : job[c] \in {"idle", "done", "failed"}
  BY DEF HvInv, BroadcastCoversWork, Answered
<1>2. op[t] \in Broadcasts /\ ipi = t /\ ipi # NoThread
  BY ThreadsAssumption DEF HvInv, BroadcastInv
<1>3. op' = [op EXCEPT ![t] = AfterBroadcast(op[t], SomeFailed)]
  OBVIOUS
<1>4. op'[t] \in {"rollback", "commit", "mark", "free"}
  BY <1>2, <1>3 DEF HvInv, HvTypeOK, AfterBroadcast
<1>5. op'[t] = "free" => op[t] = "delete"
  BY <1>2, <1>3 DEF HvInv, HvTypeOK, AfterBroadcast, Broadcasts
<1>6. op[t] # "start" => \A c \in Cores : vcpu[c] \in {"null", "off"}
  <2> SUFFICES ASSUME op[t] # "start", NEW c \in Cores PROVE vcpu[c] \in {"null", "off"}
    OBVIOUS
  <2>1. CASE c \in targets
    <3>1. job[c] \in {"done", "failed"}
      BY <2>1 DEF Answered
    <3>2. /\ job[c] \in {"idle", "done"} \cup StopJobs
          /\ job[c] = "done" => vcpu[c] \in {"null", "off"}
      BY <1>2 DEF HvInv, BroadcastInv
    <3>3. QED
      BY <3>1, <3>2 DEF StopJobs
  <2>2. CASE c \notin targets
    BY <1>2, <2>2 DEF HvInv, OwnedAreReached
  <2>3. QED
    BY <2>1, <2>2
<1>7. VcpuTypeOK'
  BY DEF HvInv, VcpuInv, VcpuTypeOK, Jobs
<1>8. ASSUME NEW c \in Cores PROVE CoreInv(c)'
  BY <1>1 DEF HvInv, VcpuInv, CoreInv, ModeAgrees, ModeOf, OffIsBlank, InVmxIsBacked,
     OnIsComplete, StartProgress, StopProgress, StopJobs, LeftVmx, InRoot
<1>9. HvTypeOK'
  BY <1>3, <1>4, <1>7 DEF HvInv, HvTypeOK, Ops
<1>10. BroadcastCoversWork' /\ BroadcastInv' /\ OwnedAreReached'
  BY DEF HvInv, BroadcastCoversWork, BroadcastInv, OwnedAreReached
<1>11. Lifetime'
  <2>1. hv # "none"
    BY <1>2 DEF HvInv, Lifetime, Quiescent, Broadcasts
  <2>2. \A u \in Threads \ {t} : op'[u] = op[u]
    BY <1>3 DEF HvInv, HvTypeOK
  <2>3. QED
    BY <1>2, <1>4, <1>5, <1>6, <2>1, <2>2 DEF HvInv, Lifetime, Broadcasts
<1>12. QED
  BY <1>7, <1>8, <1>9, <1>10, <1>11 DEF HvInv, VcpuInv

\* A method stores its result in hv_t::state and returns.
LEMMA FinishInv ==
  ASSUME HvInv, NEW t \in Threads, CommitStart(t) \/ MarkStopped(t)
  PROVE  HvInv'
<1> USE DEF CommitStart, MarkStopped
<1>1. VcpuInv'
  BY IdleCoresKeepInv DEF HvInv, VcpuInv, VcpuTypeOK, coreVars
<1>2. HvTypeOK'
  BY <1>1 DEF HvInv, VcpuInv, HvTypeOK, Ops
<1>3. ipi # t
  BY ThreadsAssumption DEF HvInv, BroadcastInv, Broadcasts
<1>4. BroadcastCoversWork' /\ BroadcastInv' /\ OwnedAreReached'
  BY <1>3 DEF HvInv, HvTypeOK, BroadcastCoversWork, BroadcastInv, OwnedAreReached, coreVars
<1>5. Lifetime'
  BY DEF HvInv, HvTypeOK, Lifetime, Quiescent, coreVars
<1>6. QED
  BY <1>1, <1>2, <1>4, <1>5 DEF HvInv

\* The destructor's last part: only vcpus that are off are deleted.
LEMMA FreeInv ==
  ASSUME HvInv, NEW t \in Threads, Free(t)
  PROVE  HvInv'
<1> USE DEF Free
<1>1. \A u \in Threads \ {t} : op[u] = "idle"
  BY DEF HvInv, Lifetime
<1>2. ipi = NoThread
  BY <1>1, ThreadsAssumption DEF HvInv, HvTypeOK, BroadcastInv, Broadcasts
<1>3. \A c \in Cores : job[c] = "idle" /\ vcpu[c] \in {"null", "off"}
  BY <1>2 DEF HvInv, Lifetime, BroadcastCoversWork
<1>4. VcpuTypeOK'
  BY DEF HvInv, VcpuInv, VcpuTypeOK, VcpuStates
<1>5. ASSUME NEW c \in Cores PROVE CoreInv(c)'
  <2>1. mode[c] = "off" /\ ~armed[c]
    BY <1>3 DEF HvInv, VcpuInv, CoreInv, ModeAgrees, ModeOf, OffIsBlank, LeftVmx
  <2>2. QED
    BY <1>3, <2>1 DEF CoreInv, ModeAgrees, ModeOf, OffIsBlank, InVmxIsBacked, OnIsComplete,
       StartProgress, StopProgress, StopJobs, LeftVmx, InRoot
<1>6. HvTypeOK'
  BY <1>4 DEF HvInv, HvTypeOK, Ops
<1>7. BroadcastCoversWork' /\ BroadcastInv' /\ OwnedAreReached'
  BY <1>2, <1>3 DEF BroadcastCoversWork, BroadcastInv, OwnedAreReached
<1>8. Lifetime'
  BY <1>1 DEF HvInv, HvTypeOK, Lifetime, Quiescent
<1>9. QED
  BY <1>4, <1>5, <1>6, <1>7, <1>8 DEF HvInv, VcpuInv

\* A processor that is hot-added has no vcpu, so it needs no broadcast to reach it.
LEMMA HotAddInv ==
  ASSUME HvInv, NEW c \in Cores, HotAdd(c)
  PROVE  HvInv'
<1> USE DEF HotAdd
<1>1. VcpuInv'
  BY IdleCoresKeepInv DEF HvInv, VcpuInv, VcpuTypeOK, coreVars
<1>2. HvTypeOK'
  BY <1>1 DEF HvInv, VcpuInv, HvTypeOK
<1>3. BroadcastCoversWork' /\ BroadcastInv' /\ OwnedAreReached' /\ Lifetime'
  BY DEF HvInv, BroadcastCoversWork, BroadcastInv, OwnedAreReached, Lifetime, Quiescent, coreVars
<1>4. QED
  BY <1>1, <1>2, <1>3 DEF HvInv

\* A core runs a segment inside the broadcast.
LEMMA CoreRunsInv ==
  ASSUME HvInv, NEW c \in Cores, CoreRuns(c)
  PROVE  HvInv'
<1> USE DEF CoreRuns, hvOnlyVars
<1>1. VcpuInv'
  BY CoreStepKeepsInv DEF HvInv
<1>2. ASSUME NEW d \in Cores
      PROVE  /\ job'[d] # "idle" => job[d] # "idle"
             /\ vcpu'[d] # "null" => vcpu[d] # "null"
             /\ job[d] \in StopJobs =>
                  job'[d] \in StopJobs \/ (job'[d] = "done" /\ vcpu'[d] = "off")
             /\ job[d] \in {"idle", "done"} => job'[d] = job[d] /\ vcpu'[d] = vcpu[d]
  BY CoreStepEffects DEF HvInv
<1>3. HvTypeOK'
  BY <1>1 DEF HvInv, VcpuInv, HvTypeOK
<1>4. BroadcastCoversWork' /\ OwnedAreReached'
  BY <1>2 DEF HvInv, BroadcastCoversWork, OwnedAreReached
<1>5. BroadcastInv'
  <2>1. ipi # NoThread /\ op[ipi] # "start" =>
          \A d \in Cores : /\ job'[d] \in {"idle", "done"} \cup StopJobs
                           /\ job'[d] = "done" => vcpu'[d] \in {"null", "off"}
    <3> SUFFICES ASSUME ipi # NoThread, op[ipi] # "start", NEW d \in Cores
                 PROVE  /\ job'[d] \in {"idle", "done"} \cup StopJobs
                        /\ job'[d] = "done" => vcpu'[d] \in {"null", "off"}
      OBVIOUS
    <3>1. /\ job[d] \in {"idle", "done"} \cup StopJobs
          /\ job[d] = "done" => vcpu[d] \in {"null", "off"}
      BY DEF HvInv, BroadcastInv
    <3>2. CASE job[d] \in StopJobs
      BY <1>2, <3>2 DEF StopJobs
    <3>3. CASE job[d] \in {"idle", "done"}
      <4>1. job'[d] = job[d] /\ vcpu'[d] = vcpu[d]
        BY <1>2, <3>3
      <4>2. QED
        BY <3>1, <3>3, <4>1
    <3>4. QED
      BY <3>1, <3>2, <3>3
  <2>2. QED
    BY <2>1 DEF HvInv, BroadcastInv
<1>6. Lifetime'
  <2>1. job[c] # "idle"
    BY DEF CoreStep, StartStep, StopStep, StartNotOff, CheckCr0, CheckFeatureControl,
       EnableVmx, VmxOn, LoadVmcs, SetupGuest, SetupHost, SetupControls, SetupCallback, Launch,
       LeaveVmx, DisableVmx, ZeroRegions, MarkOff, At
  <2>2. ipi \in Threads /\ op[ipi] \in Broadcasts
    BY <2>1 DEF HvInv, HvTypeOK, BroadcastCoversWork
  <2>3. hv # "none" /\ \A t \in Threads : op[t] # "free"
    BY <2>2 DEF HvInv, Lifetime, Quiescent, Broadcasts
  <2>4. QED
    BY <2>3 DEF HvInv, Lifetime
<1>7. QED
  BY <1>1, <1>3, <1>4, <1>5, <1>6 DEF HvInv

\* Every step of a thread, of a core or of the kernel preserves the invariant.
LEMMA HvNextInv == HvInv /\ [HvNext]_hvVars => HvInv'
<1> SUFFICES ASSUME HvInv, [HvNext]_hvVars PROVE HvInv'
  OBVIOUS
<1>1. ASSUME UNCHANGED <<vcpu, job, mode, cr0, cr4, fc, mem, vmcs, stack, armed, ept, hvOnlyVars>>,
             down' \in BOOLEAN
      PROVE  HvInv'
  <2>1. VcpuInv'
    BY <1>1, IdleCoresKeepInv DEF HvInv
  <2>2. QED
    BY <1>1, <2>1 DEF HvInv, HvTypeOK, VcpuInv, BroadcastCoversWork, BroadcastInv,
       OwnedAreReached, Lifetime, Quiescent, hvOnlyVars
<1>2. CASE UNCHANGED hvVars
  BY <1>1, <1>2 DEF HvInv, VcpuInv, VcpuTypeOK, hvVars, coreVars
<1>3. CASE Construct
  BY <1>3, ConstructInv
<1>4. CASE ConstructCrash
  BY <1>1, <1>4 DEF ConstructCrash
<1>5. ASSUME NEW t \in Threads, ThreadCalls(t) \/ ThreadRuns(t) PROVE HvInv'
  BY <1>5, CallInv, SendInv, GatherInv, FinishInv, FreeInv DEF ThreadRuns
<1>6. ASSUME NEW c \in Cores, HotAdd(c) \/ CoreRuns(c) PROVE HvInv'
  BY <1>6, HotAddInv, CoreRunsInv
<1>7. ASSUME NEW c \in Cores, GuestCrash(c) PROVE HvInv'
  BY <1>1, <1>7 DEF GuestCrash, GuestBreaks
<1>8. QED
  BY <1>2, <1>3, <1>4, <1>5, <1>6, <1>7 DEF HvNext, MachineDown

-----------------------------------------------------------------------------
(* Theorems                                                                    *)

\* The inductive invariant of hv_t.
THEOREM HvInvariance == HvSpec => []HvInv
<1>1. QED
  BY HvInitInv, HvNextInv, PTL DEF HvSpec

\* Type correctness of hv_t.
THEOREM HvTypeCorrect == HvSpec => []HvTypeOK
<1>1. HvInv => HvTypeOK
  BY DEF HvInv
<1>2. QED
  BY <1>1, HvInvariance, PTL

\* Whatever any number of threads call, each core's vcpu_t::state tells its VMX
\* operation, and its VMX instructions are legal where they are executed.
THEOREM CoresStayLegal == HvSpec => [](StateMatchesCpu /\ InstructionsLegal /\ GuestReady)
<1>1. HvInv => StateMatchesCpu /\ InstructionsLegal /\ GuestReady
  BY InvImpliesProperties DEF HvInv
<1>2. QED
  BY <1>1, HvInvariance, PTL

\* No method returns, and nothing is freed, while a core is inside its lambda.
THEOREM BroadcastCoversWorkHolds == HvSpec => []BroadcastCoversWork
<1>1. HvInv => BroadcastCoversWork
  BY DEF HvInv
<1>2. QED
  BY <1>1, HvInvariance, PTL

\* ~hv_t only ever deletes vcpus that are off, on cores that have left VMX.
THEOREM DestroyQuiescentHolds == HvSpec => []DestroyQuiescent
<1>1. HvInv => DestroyQuiescent
  <2> SUFFICES ASSUME HvInv, NEW t \in Threads, op[t] = "free", NEW c \in Cores
               PROVE  vcpu[c] \in {"null", "off"} /\ mode[c] = "off"
    BY DEF DestroyQuiescent
  <2>1. vcpu[c] \in {"null", "off"}
    BY DEF HvInv, Lifetime
  <2>2. job[c] = "idle"
    BY ThreadsAssumption DEF HvInv, HvTypeOK, Lifetime, BroadcastCoversWork, Broadcasts
  <2>3. QED
    BY <2>1, <2>2 DEF HvInv, VcpuInv, CoreInv, ModeAgrees, ModeOf, LeftVmx
<1>2. QED
  BY <1>1, HvInvariance, PTL

-----------------------------------------------------------------------------
(* What a broadcast leaves behind                                              *)

\* A segment of start() is followed by one of start(), by a failure or by a vcpu
\* that is on; without a vcpu it changes nothing of the core.
LEMMA StartStepEffects ==
  ASSUME VcpuInv, NEW c \in Cores, StartStep(c)
  PROVE  /\ job'[c] \notin StopJobs
         /\ job'[c] = "done" => vcpu'[c] = "on"
         /\ job[c] \in StartJobs
         /\ vcpu'[c] = "null" => vcpu[c] = "null" /\ cr4'[c] = cr4[c] /\ mem'[c] = mem[c]
  BY DEF VcpuInv, VcpuTypeOK, At, Goto, StopJobs, StartJobs, StartStep, StartNotOff, CheckCr0,
     CheckFeatureControl, EnableVmx, VmxOn, LoadVmcs, SetupGuest, SetupHost, SetupControls,
     SetupCallback, Launch, WriteVmcs, CoreInv, StartProgress, InRoot

\* A segment of stop() is followed by one of stop(), which has disabled VMX or has
\* also zeroed the pages, or by a vcpu that is off.
LEMMA StopStepEffects ==
  ASSUME VcpuInv, NEW c \in Cores, StopStep(c)
  PROVE  /\ job[c] \in StopJobs
         /\ vcpu'[c] # "null"
         /\ job'[c] \in {"disable", "zero", "mark", "done"}
         /\ job'[c] = "zero" => "vmxe" \notin cr4'[c]
         /\ job'[c] \in {"mark", "done"} => cr4'[c] = cr4[c] /\ job[c] \in {"zero", "mark"}
         /\ job'[c] = "mark" => mem'[c] = "zero"
         /\ job'[c] = "done" => mem'[c] = mem[c] /\ job[c] = "mark"
  BY DEF VcpuInv, VcpuTypeOK, At, Goto, StopJobs, StopStep, LeaveVmx, DisableVmx, ZeroRegions,
     MarkOff, CoreInv, StopProgress

\* Nothing happens to the cores, and no thread gets to, or leaves, its rollback or its
\* deleting of the vcpus.
LEMMA QuietKeepsSettled ==
  ASSUME SettledInv, UNCHANGED <<vcpu, job, cr4, mem, ipi>>,
         ipi # NoThread => op'[ipi] = op[ipi],
         Doing("rollback") => Doing("rollback")',
         Doing("free")' => Doing("free")
  PROVE  SettledInv'
<1>1. \A c \in Cores : Clean(c)' <=> Clean(c)
  BY DEF Clean
<1>2. (AllIn' <=> AllIn) /\ (AllOut' <=> AllOut)
  BY <1>1 DEF AllIn, AllOut
<1>3. StartTurnsOn' /\ StopCleans'
  BY DEF SettledInv, StartTurnsOn, StopCleans
<1>4. QED
  BY <1>1, <1>2, <1>3 DEF SettledInv, Settled

\* Before the first hv_t no core has VMX enabled.
LEMMA HvInitSettled == HvInit => SettledInv
  BY FixedBitsAssumption DEF HvInit, UntouchedCore, SettledInv, StartTurnsOn, StopCleans, Settled,
     AllOut, Clean, Doing

\* The constructor leaves every core out.
LEMMA ConstructSettles ==
  ASSUME HvInv, SettledInv, Construct
  PROVE  SettledInv'
<1> USE DEF Construct
<1>1. ipi = NoThread /\ Quiescent /\ \A c \in Cores : vcpu[c] = "null"
  BY DEF HvInv, HvTypeOK, Lifetime, Quiescent, BroadcastInv, Broadcasts
<1>2. \A c \in Cores : Clean(c)' /\ vcpu'[c] \in {"null", "off"}
  BY <1>1 DEF SettledInv, Clean, FreshState
<1>3. QED
  BY <1>1, <1>2 DEF SettledInv, StartTurnsOn, StopCleans, Settled, AllOut

\* A broadcast starts where no core has run anything of it.
LEMMA SendSettles ==
  ASSUME HvInv, SettledInv, NEW t \in Threads, Send(t)
  PROVE  SettledInv'
<1> USE DEF Send
<1>1. \A c \in Cores : Clean(c)' <=> Clean(c)
  BY DEF Clean
<1>2. Doing("rollback")' = Doing("rollback") /\ Doing("free")' = Doing("free")
  BY DEF Doing
<1>3. CASE down'
  BY <1>2, <1>3, QuietKeepsSettled
<1>4. CASE ~down'
  <2>1. ipi' = t /\ t # NoThread
    BY <1>4, ThreadsAssumption
  <2>2. ASSUME NEW c \in Cores
        PROVE  /\ job'[c] \in {"idle", "start", "failed", "stop", "done"}
               /\ op[t] = "start" => job'[c] \in {"idle", "start", "failed"}
               /\ op[t] # "start" /\ job'[c] = "done" => vcpu[c] = "null"
    BY <1>4 DEF StartLambda, StopLambda
  <2>3. StartTurnsOn'
    BY <2>1, <2>2 DEF StartTurnsOn, StopJobs
  <2>4. StopCleans'
    BY <2>1, <2>2 DEF SettledInv, StopCleans, Clean
  <2>5. ~Doing("free")'
    BY <1>2 DEF HvInv, Lifetime, Broadcasts, Doing
  <2>6. QED
    BY <1>1, <2>1, <2>3, <2>4, <2>5 DEF SettledInv, Settled
<1>5. QED
  BY <1>3, <1>4

\* A start that no core has failed leaves them all in, a stop all out; after a failed
\* one its thread is left with the rollback.
LEMMA GatherSettles ==
  ASSUME HvInv, SettledInv, NEW t \in Threads, Gather(t)
  PROVE  SettledInv'
<1> USE DEF Gather
<1>1. ipi = t /\ t # NoThread /\ op[t] \in Broadcasts
  BY ThreadsAssumption DEF HvInv, BroadcastInv
<1>2. op' = [op EXCEPT ![t] = AfterBroadcast(op[t], SomeFailed)]
  OBVIOUS
<1>3. ASSUME NEW c \in Cores
      PROVE  \/ c \in targets /\ job[c] \in {"done", "failed"}
             \/ c \notin targets /\ vcpu[c] = "null"
  BY <1>1 DEF HvInv, OwnedAreReached, Answered
<1>4. \A c \in Cores : Clean(c)' <=> Clean(c)
  BY DEF Clean
<1>5. CASE op[t] = "start" /\ SomeFailed
  <2>1. op'[t] = "rollback"
    BY <1>1, <1>2, <1>5 DEF HvInv, HvTypeOK, AfterBroadcast
  <2>2. Doing("rollback")' /\ ~Doing("free")'
    BY <1>1, <1>2, <2>1 DEF HvInv, HvTypeOK, Lifetime, Doing, Broadcasts
  <2>3. QED
    BY <1>4, <2>2 DEF SettledInv, StartTurnsOn, StopCleans, Settled
<1>6. CASE op[t] = "start" /\ ~SomeFailed
  <2>1. \A c \in Cores : vcpu[c] \in {"null", "on"}
    BY <1>1, <1>3, <1>6 DEF SettledInv, StartTurnsOn, SomeFailed
  <2>2. op'[t] = "commit"
    BY <1>1, <1>2, <1>6 DEF HvInv, HvTypeOK, AfterBroadcast
  <2>3. AllIn' /\ ~Doing("free")'
    BY <1>2, <2>1, <2>2, <1>6 DEF AllIn, HvInv, HvTypeOK, Lifetime, Doing
  <2>4. QED
    BY <1>4, <2>3 DEF SettledInv, StartTurnsOn, StopCleans, Settled
<1>7. CASE op[t] # "start"
  <2>1. ASSUME NEW c \in Cores PROVE vcpu[c] \in {"null", "off"} /\ Clean(c)
    <3>1. CASE vcpu[c] = "null"
      BY <3>1 DEF SettledInv
    <3>2. CASE vcpu[c] # "null"
      <4>1. c \in targets /\ job[c] \in {"done", "failed"}
        BY <1>3, <3>2
      <4>2. job[c] = "done" /\ vcpu[c] \in {"null", "off"}
        BY <1>1, <1>7, <4>1 DEF HvInv, BroadcastInv, StopJobs
      <4>3. "vmxe" \notin cr4[c] /\ mem[c] # "ready"
        BY <1>1, <1>7, <4>2 DEF SettledInv, StopCleans
      <4>4. QED
        BY <4>2, <4>3 DEF Clean
    <3>3. QED
      BY <3>1, <3>2
  <2>2. AllOut'
    BY <1>4, <2>1 DEF AllOut
  <2>3. QED
    BY <1>4, <2>2 DEF SettledInv, StartTurnsOn, StopCleans, Settled
<1>8. QED
  BY <1>5, <1>6, <1>7

\* A core runs a segment inside the broadcast, which is not over.
LEMMA CoreRunsSettles ==
  ASSUME HvInv, SettledInv, NEW c \in Cores, CoreRuns(c)
  PROVE  SettledInv'
<1> USE DEF CoreRuns, hvOnlyVars
<1>1. StartStep(c) \/ StopStep(c)
  BY DEF CoreStep
<1>2. job[c] # "idle"
  BY <1>1, StartStepEffects, StopStepEffects DEF HvInv, StartJobs, StopJobs
<1>3. ipi # NoThread /\ op[ipi] \in Broadcasts /\ ipi \in Threads
  BY <1>2 DEF HvInv, HvTypeOK, BroadcastCoversWork
<1>4. ASSUME NEW d \in Cores, d # c
      PROVE  vcpu'[d] = vcpu[d] /\ job'[d] = job[d] /\ cr4'[d] = cr4[d] /\ mem'[d] = mem[d]
  BY <1>4, CoreStepIsLocal DEF HvInv, VcpuInv, Untouched
<1>5. ASSUME NEW d \in Cores, vcpu'[d] = "null" PROVE Clean(d)'
  <2>1. vcpu[d] = "null" /\ cr4'[d] = cr4[d] /\ mem'[d] = mem[d]
    BY <1>1, <1>4, <1>5, StartStepEffects, StopStepEffects DEF HvInv
  <2>2. QED
    BY <2>1 DEF SettledInv, Clean
<1>6. StartTurnsOn'
  <2> SUFFICES ASSUME op[ipi] = "start", NEW d \in Cores
               PROVE  job'[d] \notin StopJobs /\ (job'[d] = "done" => vcpu'[d] = "on")
    BY DEF StartTurnsOn
  <2>1. job[d] \notin StopJobs /\ (job[d] = "done" => vcpu[d] = "on")
    BY <1>3 DEF SettledInv, StartTurnsOn
  <2>2. CASE d = c
    BY <1>1, <2>1, <2>2, StartStepEffects, StopStepEffects DEF HvInv
  <2>3. QED
    BY <1>4, <2>1, <2>2
<1>7. StopCleans'
  <2> SUFFICES ASSUME op[ipi] # "start", NEW d \in Cores
               PROVE  /\ job'[d] \in {"zero", "mark", "done"} => "vmxe" \notin cr4'[d]
                      /\ job'[d] \in {"mark", "done"} => mem'[d] # "ready"
    BY DEF StopCleans
  <2>1. /\ job[d] \in {"zero", "mark", "done"} => "vmxe" \notin cr4[d]
        /\ job[d] \in {"mark", "done"} => mem[d] # "ready"
    BY <1>3 DEF SettledInv, StopCleans
  <2>2. job[d] \in {"idle", "done"} \cup StopJobs
    BY <1>3 DEF HvInv, BroadcastInv
  <2>3. CASE d = c
    <3>1. StopStep(c)
      BY <1>1, <2>2, <2>3, StartStepEffects DEF HvInv, StartJobs, StopJobs
    <3>2. QED
      BY <2>1, <2>3, <3>1, StopStepEffects DEF HvInv
  <2>4. QED
    BY <1>4, <2>1, <2>3
<1>8. ~Doing("free")'
  BY <1>3 DEF HvInv, Lifetime, Doing, Broadcasts
<1>9. QED
  BY <1>3, <1>5, <1>6, <1>7, <1>8 DEF SettledInv, Settled

\* The vcpus are deleted when every core is out.
LEMMA FreeSettles ==
  ASSUME HvInv, SettledInv, NEW t \in Threads, Free(t)
  PROVE  SettledInv'
<1> USE DEF Free
<1>1. \A u \in Threads \ {t} : op[u] = "idle"
  BY DEF HvInv, Lifetime
<1>2. ipi = NoThread
  BY <1>1, ThreadsAssumption DEF HvInv, HvTypeOK, BroadcastInv, Broadcasts
<1>3. \A c \in Cores : Clean(c)' /\ vcpu'[c] = "null"
  BY DEF SettledInv, AllOut, Clean, Doing
<1>4. QED
  BY <1>2, <1>3 DEF SettledInv, StartTurnsOn, StopCleans, Settled, AllOut

\* Every step preserves the invariant.
LEMMA HvNextSettled == HvInv /\ SettledInv /\ [HvNext]_hvVars => SettledInv'
<1> SUFFICES ASSUME HvInv, SettledInv, [HvNext]_hvVars PROVE SettledInv'
  OBVIOUS
<1>1. ASSUME UNCHANGED <<vcpu, job, cr4, mem, ipi, op>> PROVE SettledInv'
  BY <1>1, QuietKeepsSettled DEF Doing
<1>2. CASE UNCHANGED hvVars \/ MachineDown
  BY <1>1, <1>2 DEF MachineDown, hvVars, hvOnlyVars, coreVars
<1>3. CASE Construct
  BY <1>3, ConstructSettles
<1>4. CASE ConstructCrash
  BY <1>1, <1>4 DEF ConstructCrash, hvOnlyVars
<1>5. ASSUME NEW t \in Threads, ThreadCalls(t) \/ CommitStart(t) \/ MarkStopped(t)
      PROVE  SettledInv'
  <2>1. PICK next \in Ops \ {"rollback", "free"} : op' = [op EXCEPT ![t] = next]
    BY <1>5 DEF ThreadCalls, CallStart, CallStop, CallDelete, CommitStart, MarkStopped, Ops
  <2>2. op[t] \in {"idle", "commit", "mark"} /\ UNCHANGED <<vcpu, job, cr4, mem, ipi>>
    BY <1>5 DEF ThreadCalls, CallStart, CallStop, CallDelete, CommitStart, MarkStopped, coreVars
  <2>3. ipi # NoThread => op'[ipi] = op[ipi]
    BY <2>1, <2>2 DEF HvInv, HvTypeOK, BroadcastInv, Broadcasts
  <2>4. (Doing("rollback") => Doing("rollback")') /\ (Doing("free")' => Doing("free"))
    BY <2>1, <2>2 DEF HvInv, HvTypeOK, Doing
  <2>5. QED
    BY <2>2, <2>3, <2>4, QuietKeepsSettled
<1>6. ASSUME NEW t \in Threads, Send(t) \/ Gather(t) \/ Free(t) PROVE SettledInv'
  BY <1>6, SendSettles, GatherSettles, FreeSettles
<1>7. ASSUME NEW c \in Cores, CoreRuns(c) PROVE SettledInv'
  BY <1>7, CoreRunsSettles
<1>8. ASSUME NEW c \in Cores, HotAdd(c) \/ GuestCrash(c) PROVE SettledInv'
  BY <1>1, <1>8 DEF HotAdd, GuestCrash, GuestBreaks, hvOnlyVars, coreVars
<1>9. QED
  BY <1>2, <1>3, <1>4, <1>5, <1>6, <1>7, <1>8 DEF HvNext, ThreadRuns

\* What the cores are left in between broadcasts, whoever sends them.
THEOREM SettledInvariance == HvSpec => []SettledInv
<1>1. QED
  BY HvInvariance, HvInitSettled, HvNextSettled, PTL DEF HvSpec

\* When no call is running no broadcast is, and no rollback is due.
LEMMA QuiescentIsSettled ==
  ASSUME HvInv, SettledInv, Quiescent
  PROVE  AllIn \/ AllOut
<1>1. ipi = NoThread
  BY DEF HvInv, HvTypeOK, BroadcastInv, Broadcasts, Quiescent
<1>2. QED
  BY <1>1 DEF SettledInv, Settled, Doing, Quiescent

\* However many threads start and stop hv_t, they never leave some vcpus on and
\* others off.
THEOREM AllOrNothingHolds == HvSpec => []AllOrNothing
<1>1. HvInv /\ SettledInv => AllOrNothing
  BY QuiescentIsSettled DEF AllOrNothing, AllIn, AllOut
<1>2. QED
  BY <1>1, HvInvariance, SettledInvariance, PTL

\* Neither a stop nor a failed start leaves VMXE, a page, a stack or a callback behind,
\* on whatever core and at whatever point it failed.
THEOREM NoResidueHolds == HvSpec => []NoResidue
<1>1. HvInv /\ SettledInv => NoResidue
  <2> SUFFICES ASSUME HvInv, SettledInv, Quiescent, NEW c \in Cores, vcpu[c] \in {"null", "off"}
               PROVE  /\ "vmxe" \notin cr4[c] /\ mem[c] # "ready"
                      /\ vmcs[c] = {} /\ ~stack[c] /\ ~armed[c]
    BY DEF NoResidue
  <2>1. Clean(c)
    BY QuiescentIsSettled DEF SettledInv, AllIn, AllOut
  <2>2. QED
    BY <2>1 DEF Clean, HvInv, VcpuInv, CoreInv, OffIsBlank
<1>2. QED
  BY <1>1, HvInvariance, SettledInvariance, PTL

-----------------------------------------------------------------------------
(* What hv_t::state says to its one caller                                     *)

\* One caller is the sender of the broadcast that runs, and the one in a method.
LEMMA OneCallerIsSender ==
  ASSUME OneCaller, HvInv, NEW t \in Threads
  PROVE  /\ \A u \in Threads : u = t
         /\ ipi \in {t, NoThread}
         /\ \A routine \in Ops : Doing(routine) <=> op[t] = routine
         /\ Quiescent <=> op[t] = "idle"
  BY DEF OneCaller, HvInv, HvTypeOK, Doing, Quiescent

\* When a broadcast of start() has run on all its targets, these are on and there is no
\* other vcpu; when one of stop() has, no vcpu is on.
LEMMA BroadcastRan ==
  ASSUME HvInv, SettledInv, NEW t \in Threads, Gather(t)
  PROVE  /\ op[t] = "start" /\ ~SomeFailed =>
              \A c \in Cores : vcpu[c] = (IF c \in targets THEN "on" ELSE "null")
         /\ op[t] # "start" => \A c \in Cores : vcpu[c] \in {"null", "off"}
<1> USE DEF Gather
<1>1. ipi = t /\ t # NoThread
  BY ThreadsAssumption
<1>2. ASSUME NEW c \in Cores
      PROVE  \/ c \in targets /\ job[c] \in {"done", "failed"}
             \/ c \notin targets /\ vcpu[c] = "null"
  BY <1>1 DEF HvInv, OwnedAreReached, Answered
<1>3. ASSUME op[t] = "start", ~SomeFailed, NEW c \in Cores
      PROVE  vcpu[c] = (IF c \in targets THEN "on" ELSE "null")
  BY <1>1, <1>2, <1>3 DEF SettledInv, StartTurnsOn, SomeFailed
<1>4. ASSUME op[t] # "start", NEW c \in Cores PROVE vcpu[c] \in {"null", "off"}
  BY <1>1, <1>2, <1>4 DEF HvInv, BroadcastInv, StopJobs
<1>5. QED
  BY <1>3, <1>4

\* Before the first call.
LEMMA HvInitCaller == HvInit => CallerInv
  BY DEF HvInit, CallerInv, Doing

\* A step of a thread keeps the invariant.
LEMMA ThreadKeepsCaller ==
  ASSUME OneCaller, HvInv, HvInv', SettledInv, CallerInv,
         NEW t \in Threads, ThreadCalls(t) \/ ThreadRuns(t)
  PROVE  CallerInv'
<1>1. /\ ipi \in {t, NoThread}
      /\ \A routine \in Ops : Doing(routine) <=> op[t] = routine
      /\ Quiescent <=> op[t] = "idle"
  BY OneCallerIsSender
<1>2. /\ \A routine \in Ops : Doing(routine)' <=> op'[t] = routine
      /\ Quiescent' <=> op'[t] = "idle"
  BY DEF OneCaller, Doing, Quiescent
<1>3. op[t] \in Ops /\ op'[t] \in Ops
  BY DEF HvInv, HvTypeOK
<1> USE <1>1, <1>2, <1>3 DEF CallerInv, Ops
<1>4. CASE ThreadCalls(t)
  <2>1. /\ op'[t] \in {"start", "stop", "delete"} /\ op[t] = "idle"
        /\ op'[t] = "start" => hv = "off"
        /\ UNCHANGED <<vcpu, hv, active, targets>>
    BY <1>4 DEF ThreadCalls, CallStart, CallStop, CallDelete, Owned, coreVars, HvInv, HvTypeOK
  <2>2. QED
    BY <2>1
<1>5. CASE Send(t)
  <2>1. active' = active /\ hv' = hv /\ op' = op /\ vcpu' = vcpu /\ op[t] \in Broadcasts
    BY <1>5 DEF Send
  <2>2. QED
    BY <2>1 DEF Broadcasts
<1>6. CASE Gather(t)
  <2>1. UNCHANGED <<vcpu, hv, active, targets>> /\ op'[t] = AfterBroadcast(op[t], SomeFailed)
    BY <1>6 DEF Gather, HvInv, HvTypeOK
  <2>2. op[t] \in Broadcasts
    BY <1>6, ThreadsAssumption DEF Gather, HvInv, BroadcastInv
  <2>3. CASE op[t] = "start"
    BY <1>6, <2>1, <2>3, BroadcastRan DEF AfterBroadcast
  <2>4. CASE op[t] # "start"
    BY <1>6, <2>1, <2>2, <2>4, BroadcastRan DEF AfterBroadcast, Broadcasts
  <2>5. QED
    BY <2>3, <2>4
<1>7. CASE CommitStart(t)
  <2>1. /\ op[t] = "commit" /\ op'[t] = "idle" /\ hv' = "on"
        /\ UNCHANGED <<vcpu, active, targets>>
    BY <1>7 DEF CommitStart, HvInv, HvTypeOK, coreVars
  <2>2. targets \subseteq Cores
    BY DEF HvInv, HvTypeOK
  <2>3. QED
    BY <2>1, <2>2
<1>8. CASE MarkStopped(t)
  <2>1. /\ op[t] = "mark" /\ op'[t] = "idle" /\ hv' = "off"
        /\ UNCHANGED <<vcpu, active, targets>>
    BY <1>8 DEF MarkStopped, HvInv, HvTypeOK, coreVars
  <2>2. QED
    BY <2>1
<1>9. CASE Free(t)
  <2>1. /\ op'[t] = "idle" /\ hv' = "none" /\ active' = active
        /\ \A c \in Cores : vcpu'[c] = "null"
    BY <1>9 DEF Free, HvInv, HvTypeOK
  <2>2. QED
    BY <2>1
<1>10. QED
  BY <1>4, <1>5, <1>6, <1>7, <1>8, <1>9 DEF ThreadRuns

\* A core's step is inside a broadcast, about which the invariant says nothing.
LEMMA CoreRunsKeepsCaller ==
  ASSUME OneCaller, HvInv, CallerInv, NEW c \in Cores, CoreRuns(c)
  PROVE  CallerInv'
<1> USE DEF CoreRuns, hvOnlyVars
<1>1. job[c] # "idle"
  BY StartStepEffects, StopStepEffects DEF HvInv, CoreStep, StartJobs, StopJobs
<1>2. ipi \in Threads /\ op[ipi] \in Broadcasts
  BY <1>1 DEF HvInv, HvTypeOK, BroadcastCoversWork
<1>3. ~Doing("commit") /\ ~Doing("mark") /\ ~Quiescent
  BY <1>2 DEF OneCaller, Doing, Quiescent, Broadcasts
<1>4. \A routine \in Ops : Doing(routine)' = Doing(routine)
  BY DEF Doing
<1>5. ~Quiescent'
  BY <1>3 DEF Quiescent
<1>6. QED
  BY <1>3, <1>4, <1>5 DEF CallerInv, Ops

\* Every step preserves the invariant.
LEMMA HvNextCaller ==
  ASSUME OneCaller
  PROVE  HvInv /\ HvInv' /\ SettledInv /\ CallerInv /\ [HvNext]_hvVars => CallerInv'
<1> SUFFICES ASSUME HvInv, HvInv', SettledInv, CallerInv, [HvNext]_hvVars PROVE CallerInv'
  OBVIOUS
<1>1. ASSUME UNCHANGED <<vcpu, hv, op, targets>>, active \subseteq active' PROVE CallerInv'
  BY <1>1 DEF CallerInv, Doing, Quiescent
<1>2. CASE UNCHANGED hvVars \/ MachineDown
  BY <1>1, <1>2 DEF MachineDown, hvVars, hvOnlyVars, coreVars
<1>3. CASE Construct
  <2>1. Quiescent /\ hv' = "off" /\ UNCHANGED <<op, active, targets>>
    BY <1>3 DEF Construct, HvInv, Lifetime
  <2>2. \A c \in Cores : vcpu'[c] \in {"null", "off"}
    BY <1>3 DEF Construct, FreshState
  <2>3. QED
    BY <2>1, <2>2 DEF CallerInv, Doing, Quiescent
<1>4. CASE ConstructCrash
  BY <1>1, <1>4 DEF ConstructCrash, hvOnlyVars
<1>5. ASSUME NEW t \in Threads, ThreadCalls(t) \/ ThreadRuns(t) PROVE CallerInv'
  BY <1>5, ThreadKeepsCaller
<1>6. ASSUME NEW c \in Cores, CoreRuns(c) PROVE CallerInv'
  BY <1>6, CoreRunsKeepsCaller
<1>7. ASSUME NEW c \in Cores, HotAdd(c) \/ GuestCrash(c) PROVE CallerInv'
  BY <1>1, <1>7 DEF HotAdd, GuestCrash, GuestBreaks, hvOnlyVars, coreVars
<1>8. QED
  BY <1>2, <1>3, <1>4, <1>5, <1>6, <1>7 DEF HvNext

\* What one caller knows of the cores from where it is in its call.
THEOREM CallerInvariance ==
  ASSUME OneCaller
  PROVE  HvSpec => []CallerInv
<1>1. QED
  BY HvInvariance, SettledInvariance, HvInitCaller, HvNextCaller, PTL DEF HvSpec

\* Between calls of its one caller, is_running() tells the truth of every core.
THEOREM HvStateAgreesHolds ==
  ASSUME OneCaller
  PROVE  HvSpec => []HvStateAgrees
<1>1. HvInv /\ CallerInv => HvStateAgrees
  <2> SUFFICES ASSUME HvInv, CallerInv, Quiescent
               PROVE  IF hv = "on" THEN \A c \in targets : Virtualized(c)
                                   ELSE \A c \in Cores : mode[c] = "off"
    BY DEF HvStateAgrees
  <2>1. \A c \in Cores : job[c] = "idle"
    BY DEF HvInv, HvTypeOK, BroadcastInv, BroadcastCoversWork, Broadcasts, Quiescent
  <2>2. \A c \in Cores : mode[c] = ModeOf(vcpu[c])
    BY <2>1 DEF HvInv, VcpuInv, CoreInv, ModeAgrees, LeftVmx
  <2>3. QED
    BY <2>2 DEF CallerInv, ModeOf, Virtualized, HvInv, HvTypeOK
<1>2. QED
  BY <1>1, HvInvariance, CallerInvariance, PTL

-----------------------------------------------------------------------------
(* hv_t implements HvLifecycle                                                 *)

\* The phase, without its CASE.
PhaseTable ==
  /\ down => LifePhase = "down"
  /\ ~down /\ Starting /\ ~Leaving => LifePhase = "starting"
  /\ ~down /\ Leaving /\ ~Starting => LifePhase = "leaving"
  /\ ~down /\ ~Starting /\ ~Leaving => LifePhase = (IF hv = "none" THEN "absent" ELSE hv)

\* The arms of the CASE do not overlap where the table is asked.
LEMMA PhaseIsTable == PhaseTable
  BY DEF PhaseTable, LifePhase

\* Nothing of what the life cycle is made of changes.
LEMMA StutterMaps ==
  ASSUME UNCHANGED <<mode, hv, op, ipi, targets, down>>
  PROVE  UNCHANGED Lifecycle!lifeVars
<1>1. Starting' = Starting /\ Leaving' = Leaving
  BY DEF Starting, Leaving, Doing, Sent
<1>2. LifePhase' = LifePhase
  BY <1>1 DEF LifePhase
<1>3. LifeVirt' = LifeVirt /\ LifeMembers' = LifeMembers
  BY <1>1 DEF LifeVirt, Virtualized, LifeMembers
<1>4. QED
  BY <1>2, <1>3 DEF Lifecycle!lifeVars

\* The machine may go down at any point, and leaves every core as it was.
LEMMA BugCheckMaps ==
  ASSUME ~down, down', UNCHANGED <<mode, hv, op, ipi, targets>>,
         LifePhase # "down"
  PROVE  Lifecycle!BugCheck
<1>1. Starting' = Starting /\ Leaving' = Leaving
  BY DEF Starting, Leaving, Doing, Sent
<1>2. LifePhase' = "down"
  BY DEF LifePhase
<1>3. LifeVirt' = LifeVirt /\ LifeMembers' = LifeMembers
  BY <1>1 DEF LifeVirt, Virtualized, LifeMembers
<1>4. QED
  BY <1>2, <1>3 DEF Lifecycle!BugCheck

\* Where the one caller is decides the phase.
CallerPhase(t) ==
  /\ Starting <=> (op[t] = "start" /\ ipi = t) \/ op[t] = "commit"
  /\ Leaving <=> \/ op[t] \in {"rollback", "mark", "free"}
                 \/ op[t] \in {"stop", "delete"} /\ ipi = t

\* The phase is read off the one thread there is.
LEMMA CallerGivesPhase ==
  ASSUME OneCaller, NEW t \in Threads
  PROVE  CallerPhase(t)
  BY DEF OneCaller, CallerPhase, Starting, Leaving, Doing, Sent

\* It is one phase at a time.
LEMMA OnePhase ==
  ASSUME OneCaller, HvInv
  PROVE  /\ ~(Starting /\ Leaving)
         /\ ~down => LifePhase # "down"
<1>1. ~(Starting /\ Leaving)
  BY DEF OneCaller, Starting, Leaving, Doing, Sent
<1>2. ~down => LifePhase # "down"
  BY <1>1, PhaseIsTable DEF PhaseTable, HvInv, HvTypeOK
<1>3. QED
  BY <1>1, <1>2

\* The constructor creates the object.
LEMMA ConstructMaps ==
  ASSUME OneCaller, HvInv, Construct
  PROVE  Lifecycle!Create
<1> USE DEF Construct
<1>1. ipi = NoThread /\ Quiescent
  BY DEF HvInv, HvTypeOK, Lifetime, Quiescent, BroadcastInv, Broadcasts
<1>2. ~Starting /\ ~Leaving /\ ~Starting' /\ ~Leaving'
  BY <1>1, ThreadsAssumption DEF Starting, Leaving, Doing, Sent, Quiescent
<1>3. LifePhase = "absent" /\ LifePhase' = "off"
  BY <1>2 DEF LifePhase
<1>4. LifeVirt' = LifeVirt
  BY DEF LifeVirt, Virtualized
<1>5. LifeMembers' = {} /\ LifeMembers = {}
  BY <1>2 DEF LifeMembers
<1>6. QED
  BY <1>3, <1>4, <1>5 DEF Lifecycle!Create

\* Entering a method does not show: only its broadcast does.
LEMMA CallMaps ==
  ASSUME OneCaller, HvInv, NEW t \in Threads, ThreadCalls(t)
  PROVE  UNCHANGED Lifecycle!lifeVars
<1> USE DEF ThreadCalls, CallStart, CallStop, CallDelete
<1>1. /\ op[t] = "idle" /\ op'[t] \in {"start", "stop", "delete"}
      /\ UNCHANGED <<mode, hv, ipi, targets, down>>
  BY DEF HvInv, HvTypeOK, coreVars
<1>2. ipi # t
  BY <1>1, ThreadsAssumption DEF HvInv, BroadcastInv, Broadcasts
<1>3. CallerPhase(t) /\ CallerPhase(t)'
  BY CallerGivesPhase DEF OneCaller, CallerPhase, Starting, Leaving, Doing, Sent
<1>4. ~Starting /\ ~Leaving /\ ~Starting' /\ ~Leaving'
  BY <1>1, <1>2, <1>3 DEF CallerPhase
<1>5. LifePhase' = LifePhase
  BY <1>1, <1>4 DEF LifePhase
<1>6. LifeVirt' = LifeVirt /\ LifeMembers' = LifeMembers
  BY <1>1, <1>4 DEF LifeVirt, Virtualized, LifeMembers
<1>7. QED
  BY <1>5, <1>6 DEF Lifecycle!lifeVars

\* The broadcast of start() begins with its targets, that of a stop() withdraws.
LEMMA SendMaps ==
  ASSUME OneCaller, HvInv, CallerInv, NEW t \in Threads, Send(t)
  PROVE  Lifecycle!Begin \/ Lifecycle!Withdraw \/ Lifecycle!BugCheck \/ UNCHANGED Lifecycle!lifeVars
<1> USE DEF Send
<1>1. CASE down'
  BY <1>1, OnePhase, BugCheckMaps
<1>2. CASE ~down'
  <2>1. /\ ipi = NoThread /\ ipi' = t /\ t # NoThread /\ targets' = active
        /\ op[t] \in Broadcasts /\ UNCHANGED <<op, hv, mode, down>>
    BY <1>2, ThreadsAssumption
  <2>2. CallerPhase(t) /\ CallerPhase(t)'
    BY CallerGivesPhase DEF OneCaller, CallerPhase, Starting, Leaving, Doing, Sent
  <2>3. PhaseTable /\ PhaseTable'
    BY PhaseIsTable, PTL
  <2>4. LifeVirt' = LifeVirt
    BY <2>1 DEF LifeVirt, Virtualized
  <2>5. hv \in {"off", "on"} /\ active \subseteq Cores /\ active # {}
    BY <2>1 DEF HvInv, HvTypeOK, Lifetime, Quiescent, Broadcasts, CallerInv
  <2>6. CASE op[t] = "start"
    <3>1. ~Starting /\ ~Leaving /\ Starting' /\ ~Leaving'
      BY <2>1, <2>2, <2>6 DEF CallerPhase
    <3>2. hv = "off"
      BY <2>6 DEF CallerInv, Doing
    <3>3. LifePhase = "off" /\ LifePhase' = "starting"
      BY <1>2, <2>3, <3>1, <3>2 DEF PhaseTable
    <3>4. LifeMembers' = active
      BY <2>1, <3>1 DEF LifeMembers
    <3>5. QED
      BY <2>4, <2>5, <3>3, <3>4 DEF Lifecycle!Begin
  <2>7. CASE op[t] = "rollback"
    <3>1. ~Starting /\ Leaving /\ ~Starting' /\ Leaving'
      BY <2>1, <2>2, <2>7 DEF CallerPhase
    <3>2. LifePhase' = LifePhase /\ LifeMembers' = LifeMembers
      BY <1>2, <2>1, <2>3, <3>1 DEF PhaseTable, LifeMembers
    <3>3. QED
      BY <2>4, <3>2 DEF Lifecycle!lifeVars
  <2>8. CASE op[t] \in {"stop", "delete"}
    <3>1. ~Starting /\ ~Leaving /\ ~Starting' /\ Leaving'
      BY <2>1, <2>2, <2>8 DEF CallerPhase
    <3>2. LifePhase \in {"off", "on"} /\ LifePhase' = "leaving"
      BY <1>2, <2>3, <2>5, <3>1 DEF PhaseTable
    <3>3. LifeMembers' = {}
      BY <3>1 DEF LifeMembers
    <3>4. QED
      BY <2>4, <3>2, <3>3 DEF Lifecycle!Withdraw
  <2>9. QED
    BY <2>1, <2>6, <2>7, <2>8 DEF Broadcasts
<1>3. QED
  BY <1>1, <1>2

\* A start that some core failed withdraws; otherwise the broadcast's end does not show.
LEMMA GatherMaps ==
  ASSUME OneCaller, HvInv, CallerInv, NEW t \in Threads, Gather(t)
  PROVE  Lifecycle!Withdraw \/ UNCHANGED Lifecycle!lifeVars
<1> USE DEF Gather
<1>1. /\ ipi = t /\ ipi' # t /\ UNCHANGED <<mode, hv, targets, down>> /\ op[t] \in Broadcasts
      /\ op'[t] = AfterBroadcast(op[t], SomeFailed)
  BY ThreadsAssumption DEF HvInv, HvTypeOK, BroadcastInv
<1>2. CallerPhase(t) /\ CallerPhase(t)'
  BY CallerGivesPhase DEF OneCaller, CallerPhase, Starting, Leaving, Doing, Sent
<1>3. PhaseTable /\ PhaseTable'
  BY PhaseIsTable, PTL
<1>4. LifeVirt' = LifeVirt
  BY <1>1 DEF LifeVirt, Virtualized
<1>5. CASE op[t] = "start" /\ SomeFailed
  <2>1. Starting /\ ~Leaving /\ ~Starting' /\ Leaving'
    BY <1>1, <1>2, <1>5 DEF CallerPhase, AfterBroadcast
  <2>2. LifePhase = "starting" /\ LifePhase' = "leaving" /\ LifeMembers' = {}
    BY <1>1, <1>3, <2>1 DEF PhaseTable, LifeMembers
  <2>3. QED
    BY <1>4, <2>2 DEF Lifecycle!Withdraw
<1>6. CASE op[t] = "start" /\ ~SomeFailed
  <2>1. Starting /\ ~Leaving /\ Starting' /\ ~Leaving'
    BY <1>1, <1>2, <1>6 DEF CallerPhase, AfterBroadcast
  <2>2. LifePhase' = LifePhase /\ LifeMembers' = LifeMembers
    BY <1>1, <1>3, <2>1 DEF PhaseTable, LifeMembers
  <2>3. QED
    BY <1>4, <2>2 DEF Lifecycle!lifeVars
<1>7. CASE op[t] # "start"
  <2>1. ~Starting /\ Leaving /\ ~Starting' /\ Leaving'
    BY <1>1, <1>2, <1>7 DEF CallerPhase, AfterBroadcast, Broadcasts
  <2>2. LifePhase' = LifePhase /\ LifeMembers' = LifeMembers
    BY <1>1, <1>3, <2>1 DEF PhaseTable, LifeMembers
  <2>3. QED
    BY <1>4, <2>2 DEF Lifecycle!lifeVars
<1>8. QED
  BY <1>5, <1>6, <1>7

\* The cores a finished broadcast has left in non-root operation.
LEMMA VirtIsOn ==
  ASSUME HvInv, ipi = NoThread
  PROVE  LifeVirt = {c \in Cores : vcpu[c] = "on"}
<1>1. \A c \in Cores : job[c] = "idle"
  BY DEF HvInv, BroadcastCoversWork
<1>2. \A c \in Cores : mode[c] = ModeOf(vcpu[c])
  BY <1>1 DEF HvInv, VcpuInv, CoreInv, ModeAgrees, LeftVmx
<1>3. QED
  BY <1>2 DEF LifeVirt, Virtualized, ModeOf

\* start() reports its success when its targets, and no other core, have entered.
LEMMA CommitMaps ==
  ASSUME OneCaller, HvInv, CallerInv, NEW t \in Threads, CommitStart(t)
  PROVE  Lifecycle!Commit
<1> USE DEF CommitStart
<1>1. /\ op[t] = "commit" /\ op'[t] = "idle" /\ hv' = "on" /\ ~down /\ ~down'
      /\ UNCHANGED <<mode, ipi, targets>>
  BY DEF HvInv, HvTypeOK, coreVars
<1>2. CallerPhase(t) /\ CallerPhase(t)'
  BY CallerGivesPhase DEF OneCaller, CallerPhase, Starting, Leaving, Doing, Sent
<1>3. PhaseTable /\ PhaseTable'
  BY PhaseIsTable, PTL
<1>4. Starting /\ ~Leaving /\ ~Starting' /\ ~Leaving'
  BY <1>1, <1>2 DEF CallerPhase
<1>5. LifePhase = "starting" /\ LifePhase' = "on"
  BY <1>1, <1>3, <1>4 DEF PhaseTable
<1>6. LifeMembers = targets /\ LifeMembers' = targets
  BY <1>1, <1>4 DEF LifeMembers
<1>7. LifeVirt = targets
  <2>1. ipi = NoThread
    BY <1>1, OneCallerIsSender DEF HvInv, BroadcastInv, Broadcasts
  <2>2. \A c \in Cores : vcpu[c] = (IF c \in targets THEN "on" ELSE "null")
    BY <1>1 DEF CallerInv, Doing
  <2>3. targets \subseteq Cores
    BY DEF HvInv, HvTypeOK
  <2>4. QED
    BY <2>1, <2>2, <2>3, VirtIsOn
<1>8. LifeVirt' = LifeVirt
  BY <1>1 DEF LifeVirt, Virtualized
<1>9. QED
  BY <1>5, <1>6, <1>7, <1>8 DEF Lifecycle!Commit

\* stop() and the destructor finish when no core is in non-root operation.
LEMMA FinishMaps ==
  ASSUME OneCaller, HvInv, CallerInv, NEW t \in Threads, MarkStopped(t) \/ Free(t)
  PROVE  Lifecycle!Finish
<1> USE DEF MarkStopped, Free
<1>1. /\ op[t] \in {"mark", "free"} /\ op'[t] = "idle" /\ hv' \in {"off", "none"}
      /\ ~down /\ ~down' /\ UNCHANGED <<mode, ipi>>
  BY DEF HvInv, HvTypeOK, coreVars
<1>2. ipi = NoThread
  BY <1>1, OneCallerIsSender DEF HvInv, BroadcastInv, Broadcasts
<1>3. CallerPhase(t) /\ CallerPhase(t)'
  BY CallerGivesPhase DEF OneCaller, CallerPhase, Starting, Leaving, Doing, Sent
<1>4. PhaseTable /\ PhaseTable'
  BY PhaseIsTable, PTL
<1>5. ~Starting /\ Leaving /\ ~Starting' /\ ~Leaving'
  BY <1>1, <1>2, <1>3, ThreadsAssumption DEF CallerPhase
<1>6. LifePhase = "leaving" /\ LifePhase' \in {"off", "absent"}
  BY <1>1, <1>4, <1>5 DEF PhaseTable
<1>7. LifeMembers = {} /\ LifeMembers' = {}
  BY <1>1, <1>5 DEF LifeMembers
<1>8. LifeVirt = {}
  <2>1. \A c \in Cores : vcpu[c] \in {"null", "off"}
    BY <1>1 DEF CallerInv, HvInv, Lifetime, Doing
  <2>2. QED
    BY <1>2, <2>1, VirtIsOn
<1>9. LifeVirt' = LifeVirt
  BY <1>1 DEF LifeVirt, Virtualized
<1>10. QED
  BY <1>6, <1>7, <1>8, <1>9 DEF Lifecycle!Finish

\* A core enters with the vmlaunch of a start() that is under way, leaves with the
\* vmxoff of a stop() that is, and all else it does does not show.
LEMMA CoreRunsMaps ==
  ASSUME OneCaller, HvInv, SettledInv, NEW c \in Cores, CoreRuns(c)
  PROVE  \/ \E d \in Cores : Lifecycle!Enter(d) \/ Lifecycle!Leave(d)
         \/ Lifecycle!BugCheck
         \/ UNCHANGED Lifecycle!lifeVars
<1> USE DEF CoreRuns, hvOnlyVars
<1>1. StartStep(c) \/ StopStep(c)
  BY DEF CoreStep
<1>2. job[c] # "idle" /\ ~down
  BY <1>1, StartStepEffects, StopStepEffects DEF HvInv, StartJobs, StopJobs, StartStep, StopStep,
     StartNotOff, CheckCr0, CheckFeatureControl, EnableVmx, VmxOn, LoadVmcs, SetupGuest,
     SetupHost, SetupControls, SetupCallback, Launch, LeaveVmx, DisableVmx, ZeroRegions,
     MarkOff, At
<1>3. ipi \in Threads /\ op[ipi] \in Broadcasts /\ c \in targets
  BY <1>2 DEF HvInv, HvTypeOK, BroadcastCoversWork
<1>4. CallerPhase(ipi)
  BY <1>3, CallerGivesPhase
<1>5. Starting' = Starting /\ Leaving' = Leaving
  BY DEF Starting, Leaving, Doing, Sent
<1>6. PhaseTable /\ PhaseTable'
  BY PhaseIsTable, PTL
<1>7. LifeMembers' = LifeMembers
  BY <1>5 DEF LifeMembers
<1>8. ASSUME UNCHANGED <<mode, down>> PROVE UNCHANGED Lifecycle!lifeVars
  BY <1>8, StutterMaps
<1>9. CASE StartStep(c)
  <2>1. op[ipi] = "start"
    BY <1>3, <1>9, StartStepEffects, ThreadsAssumption DEF HvInv, BroadcastInv, StartJobs, StopJobs
  <2>2. Starting /\ ~Leaving /\ LifeMembers = targets
    BY <1>4, <2>1 DEF CallerPhase, LifeMembers
  <2>3. CASE VmxOn(c)
    <3>1. LifeVirt' = LifeVirt
      BY <2>3 DEF VmxOn, At, LifeVirt, Virtualized, HvInv, VcpuInv, VcpuTypeOK, CoreInv,
         StartProgress, ModeAgrees, ModeOf, LeftVmx
    <3>2. down' = down
      BY <2>3 DEF VmxOn
    <3>3. QED
      BY <1>2, <1>5, <1>6, <1>7, <2>2, <3>1, <3>2 DEF PhaseTable, Lifecycle!lifeVars
  <2>4. CASE Launch(c)
    <3>1. CASE down'
      <4>1. mode' = mode
        BY <1>2, <2>4, <3>1 DEF Launch
      <4>2. QED
        BY <1>2, <3>1, <4>1, OnePhase, BugCheckMaps
    <3>2. CASE ~down' /\ mode' = [mode EXCEPT ![c] = "guest"]
      <4>1. LifeVirt' = LifeVirt \cup {c}
        BY <3>2 DEF LifeVirt, Virtualized, HvInv, VcpuInv, VcpuTypeOK
      <4>2. mode[c] = "root"
        BY <2>4 DEF Launch, At, HvInv, VcpuInv, CoreInv, StartProgress, InRoot, ModeAgrees,
           ModeOf, LeftVmx
      <4>3. c \in LifeMembers \ LifeVirt
        BY <1>3, <2>2, <4>2 DEF LifeVirt, Virtualized
      <4>4. LifePhase = "starting" /\ LifePhase' = "starting"
        BY <1>2, <1>5, <1>6, <2>2, <3>2 DEF PhaseTable
      <4>5. Lifecycle!Enter(c)
        BY <1>7, <4>1, <4>3, <4>4 DEF Lifecycle!Enter
      <4>6. QED
        BY <4>5
    <3>3. CASE ~down' /\ mode' = mode
      <4>1. down' = down
        BY <2>4, <3>3 DEF Launch
      <4>2. QED
        BY <1>8, <3>3, <4>1
    <3>4. QED
      BY <2>4, <3>1, <3>2, <3>3 DEF Launch
  <2>5. CASE SetupControls(c)
    <3>1. mode' = mode
      BY <2>5 DEF SetupControls
    <3>2. CASE down'
      BY <1>2, <3>1, <3>2, OnePhase, BugCheckMaps
    <3>3. CASE ~down'
      <4>1. down' = down
        BY <2>5, <3>3 DEF SetupControls
      <4>2. QED
        BY <1>8, <3>1, <4>1
    <3>4. QED
      BY <3>2, <3>3
  <2>6. CASE UNCHANGED <<mode, down>>
    BY <1>8, <2>6
  <2>7. QED
    BY <1>9, <2>3, <2>4, <2>5, <2>6 DEF StartStep, StartNotOff, CheckCr0, CheckFeatureControl,
       EnableVmx, LoadVmcs, SetupGuest, SetupHost, SetupCallback
<1>10. CASE StopStep(c)
  <2>1. op[ipi] # "start"
    BY <1>3, <1>10, StopStepEffects, ThreadsAssumption DEF HvInv, SettledInv, StartTurnsOn
  <2>2. ~Starting /\ Leaving
    BY <1>3, <1>4, <2>1 DEF CallerPhase, Broadcasts
  <2>3. CASE LeaveVmx(c) /\ mode[c] = "guest" /\ mode'[c] = "off"
    <3>1. LifeVirt' = LifeVirt \ {c} /\ c \in LifeVirt
      BY <2>3 DEF LeaveVmx, LifeVirt, Virtualized, HvInv, VcpuInv, VcpuTypeOK
    <3>2. down' = down
      BY <2>3 DEF LeaveVmx
    <3>3. LifePhase = "leaving" /\ LifePhase' = "leaving"
      BY <1>2, <1>5, <1>6, <2>2, <3>2 DEF PhaseTable
    <3>4. Lifecycle!Leave(c)
      BY <1>7, <3>1, <3>3 DEF Lifecycle!Leave
    <3>5. QED
      BY <3>4
  <2>4. CASE LeaveVmx(c) /\ (mode[c] # "guest" \/ mode'[c] # "off")
    <3>1. LifeVirt' = LifeVirt
      BY <2>4 DEF LeaveVmx, LifeVirt, Virtualized, HvInv, VcpuInv, VcpuTypeOK
    <3>2. down' = down
      BY <2>4 DEF LeaveVmx
    <3>3. QED
      BY <1>2, <1>5, <1>6, <1>7, <2>2, <3>1, <3>2 DEF PhaseTable, Lifecycle!lifeVars
  <2>5. CASE DisableVmx(c) \/ ZeroRegions(c) \/ MarkOff(c)
    BY <1>8, <2>5 DEF DisableVmx, ZeroRegions, MarkOff
  <2>6. QED
    BY <1>10, <2>3, <2>4, <2>5 DEF StopStep
<1>11. QED
  BY <1>1, <1>9, <1>10

\* Every step of hv_t is a step of the life cycle, or does not show.
LEMMA HvNextMaps ==
  ASSUME OneCaller
  PROVE  HvInv /\ SettledInv /\ CallerInv /\ [HvNext]_hvVars
           => [Lifecycle!LifeNext]_(Lifecycle!lifeVars)
<1> SUFFICES ASSUME HvInv, SettledInv, CallerInv, [HvNext]_hvVars
             PROVE  Lifecycle!LifeNext \/ UNCHANGED Lifecycle!lifeVars
  OBVIOUS
<1> USE DEF Lifecycle!LifeNext
<1>1. CASE UNCHANGED hvVars \/ MachineDown
  BY <1>1, StutterMaps DEF MachineDown, hvVars, hvOnlyVars, coreVars
<1>2. CASE Construct
  BY <1>2, ConstructMaps
<1>3. CASE ConstructCrash
  BY <1>3, OnePhase, BugCheckMaps DEF ConstructCrash, hvOnlyVars
<1>4. ASSUME NEW t \in Threads, ThreadCalls(t) \/ ThreadRuns(t)
      PROVE  Lifecycle!LifeNext \/ UNCHANGED Lifecycle!lifeVars
  BY <1>4, CallMaps, SendMaps, GatherMaps, CommitMaps, FinishMaps DEF ThreadRuns
<1>5. ASSUME NEW c \in Cores, CoreRuns(c)
      PROVE  Lifecycle!LifeNext \/ UNCHANGED Lifecycle!lifeVars
  BY <1>5, CoreRunsMaps
<1>6. ASSUME NEW c \in Cores, HotAdd(c)
      PROVE  UNCHANGED Lifecycle!lifeVars
  BY <1>6, StutterMaps DEF HotAdd, coreVars
<1>7. ASSUME NEW c \in Cores, GuestCrash(c)
      PROVE  Lifecycle!BugCheck
  BY <1>7, OnePhase, BugCheckMaps DEF GuestCrash, GuestBreaks, hvOnlyVars
<1>8. QED
  BY <1>1, <1>2, <1>3, <1>4, <1>5, <1>6, <1>7 DEF HvNext

\* To one caller hv_t is the abstract life cycle: on only once every member has entered,
\* off or absent only once every core has left.
THEOREM HvImplementsLifecycle ==
  ASSUME OneCaller
  PROVE  HvSpec => ImplementsLifecycle
<1>1. HvInit => Lifecycle!LifeInit
  <2> SUFFICES ASSUME HvInit PROVE Lifecycle!LifeInit
    OBVIOUS
  <2>1. ~Starting /\ ~Leaving
    BY DEF HvInit, Starting, Leaving, Doing, Sent
  <2>2. LifePhase = "absent"
    BY <2>1 DEF HvInit, UntouchedCore, LifePhase
  <2>3. LifeVirt = {} /\ LifeMembers = {}
    BY <2>1 DEF HvInit, UntouchedCore, LifeVirt, Virtualized, LifeMembers
  <2>4. QED
    BY <2>2, <2>3 DEF Lifecycle!LifeInit
<1>2. QED
  BY <1>1, HvNextMaps, HvInvariance, SettledInvariance, CallerInvariance, PTL
     DEF HvSpec, ImplementsLifecycle, Lifecycle!LifeSpec

=============================================================================
