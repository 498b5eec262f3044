----------------------------- MODULE Hypervisor -----------------------------
(***************************************************************************)
(* hv_t (hv/hypervisor.hpp, hv/hypervisor.cpp) on top of Vcpu: the object   *)
(* that owns one vcpu_t per core and the EPT, and starts or stops all cores *)
(* by broadcasting a lambda with cpu::for_each.                             *)
(*                                                                          *)
(* Threads call the public methods.  The code takes no lock: what orders    *)
(* two calls is only that the kernel serialises KeIpiGenericCall.  An       *)
(* object is not used while it is constructed or destroyed.                 *)
(***************************************************************************)
EXTENDS Vcpu

CONSTANTS
  Threads,   (* The threads that call hv_t.                                   *)
  NoThread,  (* No thread.                                                    *)
  Capable    (* The cores whose CPUID, EPT/VPID and MTRR bits supported()     *)
             (* accepts.                                                      *)

ASSUME ThreadsAssumption == NoThread \notin Threads

VARIABLES
  hv,        (* "none" when there is no object, else hv_t::state              *)
  op,        (* where each thread is in a method of hv_t                      *)
  ipi,       (* the thread whose broadcast is running, or NoThread            *)
  active,    (* the processors the kernel counts as active                    *)
  targets    (* the processors of the running, or else the last, broadcast    *)

hvOnlyVars == <<hv, op, ipi, active, targets>>
hvVars     == <<coreVars, hvOnlyVars>>

Ops == {"idle", "start", "commit", "rollback", "stop", "mark", "delete", "free"}

Broadcasts == {"start", "rollback", "stop", "delete"}

Owned == hv # "none" /\ \A t \in Threads : op[t] \notin {"delete", "free"}

Supported(c) == c \in Capable /\ fc[c].vmxon

-----------------------------------------------------------------------------
(* Construction                                                               *)

\* Any vcpu_t may be null, and the ept_t too; the vcpu of a processor that is
\* not active stays null.
Construct ==
  /\ ~down
  /\ hv = "none"
  /\ hv' = "off"
  /\ \E allocated \in SUBSET active :
       /\ vcpu' = [c \in Cores |-> IF c \in allocated THEN FreshState ELSE "null"]
       /\ mem'  = [c \in Cores |-> IF c \in allocated THEN "zero" ELSE "none"]
  /\ ept' \in {"null", "ready"}
  /\ UNCHANGED <<job, mode, cr0, cr4, fc, vmcs, stack, armed, down, op, ipi, active, targets>>

\* The constructors of vcpu_t and ept_t write to what they allocate unchecked.
ConstructCrash ==
  /\ ~down
  /\ hv = "none"
  /\ down' = TRUE
  /\ UNCHANGED <<vcpu, job, mode, cr0, cr4, fc, mem, vmcs, stack, armed, ept, hvOnlyVars>>

-----------------------------------------------------------------------------
(* The methods                                                                *)

\* A call that finds the hypervisor running or the core unsupported returns
\* without a step.
CallStart(t) ==
  /\ ~down
  /\ Owned
  /\ op[t] = "idle"
  /\ hv # "on"
  /\ \E c \in active : Supported(c)
  /\ op' = [op EXCEPT ![t] = "start"]
  /\ UNCHANGED <<coreVars, hv, ipi, active, targets>>

CallStop(t) ==
  /\ ~down
  /\ Owned
  /\ op[t] = "idle"
  /\ op' = [op EXCEPT ![t] = "stop"]
  /\ UNCHANGED <<coreVars, hv, ipi, active, targets>>

\* Mutant: the destructor does not call stop() first.
CallDelete_NoStop(t) ==
  /\ ~down
  /\ hv # "none"
  /\ \A u \in Threads : op[u] = "idle"
  /\ op' = [op EXCEPT ![t] = "free"]
  /\ UNCHANGED <<coreVars, hv, ipi, active, targets>>

CallDelete(t) ==
  /\ ~down
  /\ hv # "none"
  /\ \A u \in Threads : op[u] = "idle"
  /\ op' = [op EXCEPT ![t] = "delete"]
  /\ UNCHANGED <<coreVars, hv, ipi, active, targets>>

-----------------------------------------------------------------------------
(* The broadcast                                                              *)

\* Mutant: a null vcpu is passed over.
StartLambda_SkipsNull(c) ==
  CASE vcpu[c] = "off"  -> "start"
    [] vcpu[c] = "null" -> "done"
    [] OTHER            -> "failed"

\* What the lambda does first on core c, given the routine it broadcasts.
StartLambda(c) == IF vcpu[c] = "off" THEN "start" ELSE "failed"
StopLambda(c)  == IF vcpu[c] # "null" THEN "stop" ELSE "done"

\* for_each() hands the lambda to every active processor; it wraps it in an
\* allocation that is called through without a check.
Send(t) ==
  /\ ~down
  /\ op[t] \in Broadcasts
  /\ ipi = NoThread
  /\ \/ /\ ipi' = t
        /\ targets' = active
        /\ job' = [c \in Cores |->
                     IF c \notin active THEN "idle"
                     ELSE IF op[t] = "start" THEN StartLambda(c) ELSE StopLambda(c)]
        /\ UNCHANGED down
     \/ /\ down' = TRUE
        /\ UNCHANGED <<ipi, targets, job>>
  /\ UNCHANGED <<vcpu, mode, cr0, cr4, fc, mem, vmcs, stack, armed, ept,
                 hv, op, active>>

\* Mutant: the broadcast waits for every core to have started.
Answered_OnlySuccess(c) == job[c] = "done"

Answered(c) == job[c] \in {"done", "failed"}

\* failed_start, a local of start() that every core's lambda may set.
SomeFailed == \E c \in targets : job[c] = "failed"

\* Mutant: a failed start() returns without the rollback.
AfterBroadcast_NoRollback(routine, anyFailed) ==
  CASE routine = "start"  -> IF anyFailed THEN "idle" ELSE "commit"
    [] routine = "delete" -> "free"
    [] OTHER              -> "mark"

\* Where the caller goes on: start() looks at failed_start, and the stop() inside
\* start(), stop() itself and the destructor go on to their next statement.
AfterBroadcast(routine, anyFailed) ==
  CASE routine = "start"  -> IF anyFailed THEN "rollback" ELSE "commit"
    [] routine = "delete" -> "free"
    [] OTHER              -> "mark"

\* Mutant: the caller goes on while cores still run the lambda.
Gather_NoWait(t) ==
  /\ ~down
  /\ ipi = t
  /\ ipi' = NoThread
  /\ op' = [op EXCEPT ![t] = AfterBroadcast(@, SomeFailed)]
  /\ UNCHANGED <<coreVars, hv, active, targets>>

\* KeIpiGenericCall returns when every processor has run the lambda.
Gather(t) ==
  /\ ~down
  /\ ipi = t
  /\ \A c \in targets : Answered(c)
  /\ ipi' = NoThread
  /\ job' = [c \in Cores |-> "idle"]
  /\ op' = [op EXCEPT ![t] = AfterBroadcast(@, SomeFailed)]
  /\ UNCHANGED <<vcpu, mode, cr0, cr4, fc, mem, vmcs, stack, armed, ept, down,
                 hv, active, targets>>

-----------------------------------------------------------------------------
(* After the broadcast                                                        *)

CommitStart(t) ==
  /\ ~down
  /\ op[t] = "commit"
  /\ hv' = "on"
  /\ op' = [op EXCEPT ![t] = "idle"]
  /\ UNCHANGED <<coreVars, ipi, active, targets>>

\* Mutant: stop() forgets to take back the state.
MarkStopped_KeepState(t) ==
  /\ ~down
  /\ op[t] = "mark"
  /\ op' = [op EXCEPT ![t] = "idle"]
  /\ UNCHANGED <<coreVars, hv, ipi, active, targets>>

MarkStopped(t) ==
  /\ ~down
  /\ op[t] = "mark"
  /\ hv' = "off"
  /\ op' = [op EXCEPT ![t] = "idle"]
  /\ UNCHANGED <<coreVars, ipi, active, targets>>

\* ~hv_t after its stop(): every vcpu_t, its pages, and the ept_t are deleted.
\* ~vcpu_t would stop() a vcpu that is not off, on this core.
Free(t) ==
  /\ ~down
  /\ op[t] = "free"
  /\ hv' = "none"
  /\ op' = [op EXCEPT ![t] = "idle"]
  /\ vcpu' = [c \in Cores |-> "null"]
  /\ mem' = [c \in Cores |-> "none"]
  /\ vmcs' = [c \in Cores |-> {}]
  /\ stack' = [c \in Cores |-> FALSE]
  /\ ept' = "none"
  /\ UNCHANGED <<job, mode, cr0, cr4, fc, armed, down, ipi, active, targets>>

-----------------------------------------------------------------------------
(* The rest of the machine                                                    *)

\* A processor is hot-added: later broadcasts reach it, and its vcpu is null.
HotAdd(c) ==
  /\ ~down
  /\ c \notin active
  /\ active' = active \cup {c}
  /\ UNCHANGED <<coreVars, hv, op, ipi, targets>>

CoreRuns(c) == CoreStep(c) /\ UNCHANGED hvOnlyVars

\* The guest of a core, whatever the core's part in a broadcast, exits and breaks in.
GuestCrash(c) == GuestBreaks(c) /\ UNCHANGED hvOnlyVars

MachineDown == down /\ UNCHANGED hvVars

HvInit ==
  /\ UntouchedCore
  /\ vcpu = [c \in Cores |-> "null"]
  /\ mem = [c \in Cores |-> "none"]
  /\ ept = "none"
  /\ hv = "none"
  /\ op = [t \in Threads |-> "idle"]
  /\ ipi = NoThread
  /\ active \in (SUBSET Cores) \ {{}}
  /\ targets = {}

ThreadCalls(t) == CallStart(t) \/ CallStop(t) \/ CallDelete(t)
ThreadRuns(t)  == Send(t) \/ Gather(t) \/ CommitStart(t) \/ MarkStopped(t) \/ Free(t)

HvNext ==
  \/ Construct \/ ConstructCrash
  \/ \E t \in Threads : ThreadCalls(t) \/ ThreadRuns(t)
  \/ \E c \in Cores : HotAdd(c) \/ CoreRuns(c) \/ GuestCrash(c)
  \/ MachineDown

HvSpec == HvInit /\ [][HvNext]_hvVars

\* Code that was called runs to its end: a thread is scheduled again, and a core
\* inside the broadcast runs with interrupts masked.  Nobody must call, and no
\* processor must be added.
HvFairness ==
  /\ \A t \in Threads : WF_hvVars(ThreadRuns(t))
  /\ \A c \in Cores : WF_hvVars(CoreRuns(c))

HvFairSpec == HvSpec /\ HvFairness

-----------------------------------------------------------------------------
(* Properties.                                                                *)

HvTypeOK ==
  /\ VcpuTypeOK
  /\ hv \in {"none", "off", "on"}
  /\ op \in [Threads -> Ops]
  /\ ipi \in Threads \cup {NoThread}
  /\ active \subseteq Cores
  /\ targets \subseteq active

Quiescent == \A t \in Threads : op[t] = "idle"

Virtualized(c) == mode[c] = "guest"

\* When no call is running and there is one caller, is_running() tells the truth
\* of every core: on, and the broadcast that turned it on has virtualized all it
\* reached; off or destroyed, and no core is in VMX operation.
HvStateAgrees ==
  Quiescent /\ ~down =>
    IF hv = "on" THEN \A c \in targets : Virtualized(c)
                 ELSE \A c \in Cores : mode[c] = "off"

\* However many threads start and stop it, hv_t never leaves the machine half
\* virtualized: when every call has returned, all the vcpus run or none does.
AllOrNothing ==
  Quiescent /\ ~down =>
    \/ \A c \in Cores : vcpu[c] \in {"null", "on"}
    \/ \A c \in Cores : vcpu[c] \in {"null", "off"}

\* A start that failed on some core, or a stop, leaves nothing behind on any core
\* once it has returned: VMX is disabled again, the pages are zeroed, the host
\* stack is wiped and the teardown callback has run.
NoResidue ==
  Quiescent /\ ~down =>
    \A c \in Cores : vcpu[c] \in {"null", "off"} =>
      /\ "vmxe" \notin cr4[c]
      /\ mem[c] # "ready"
      /\ vmcs[c] = {}
      /\ ~stack[c] /\ ~armed[c]

\* When ~hv_t deletes the vcpus, each is off: ~vcpu_t does not call stop(), which
\* it would do on the deleting thread's core, and no core keeps pages that are
\* being freed.
DestroyQuiescent ==
  (\E t \in Threads : op[t] = "free") =>
    \A c \in Cores : vcpu[c] \in {"null", "off"} /\ mode[c] = "off"

\* A core runs start() or stop() only inside a broadcast that reached it, and
\* the caller of that broadcast is waiting for it: no method returns, and
\* nothing is freed, while a lambda that refers to its locals still runs.
BroadcastCoversWork ==
  \A c \in Cores : job[c] # "idle" =>
    /\ c \in targets
    /\ ipi # NoThread /\ op[ipi] \in Broadcasts

\* Every method returns, unless the machine goes down in it.
CallsReturn == \A t \in Threads : op[t] # "idle" ~> (op[t] = "idle" \/ down)

\* A core that fails to start takes all the others out with it.
FailureRollsBack ==
  (ipi # NoThread /\ SomeFailed) ~> ((\A c \in Cores : mode[c] = "off") \/ down)

-----------------------------------------------------------------------------
(* hv_t implements HvLifecycle: the phase is where its one caller is, or its   *)
(* state between calls.                                                        *)

Doing(routine) == \E t \in Threads : op[t] = routine
Sent(routine)  == \E t \in Threads : op[t] = routine /\ ipi = t

Starting == Sent("start") \/ Doing("commit")

Leaving == Doing("rollback") \/ Doing("mark") \/ Doing("free") \/ Sent("stop") \/ Sent("delete")

LifePhase ==
  CASE down -> "down"
    [] ~down /\ Starting -> "starting"
    [] ~down /\ Leaving -> "leaving"
    [] ~down /\ ~Starting /\ ~Leaving -> IF hv = "none" THEN "absent" ELSE hv

LifeVirt == {c \in Cores : Virtualized(c)}

LifeMembers == IF Starting \/ (hv = "on" /\ ~Leaving) THEN targets ELSE {}

Lifecycle == INSTANCE HvLifecycle WITH phase <- LifePhase, virt <- LifeVirt, members <- LifeMembers

\* What a single caller sees of hv_t is the abstract life cycle, step by step:
\* on only when each member has entered, off or absent only when each has left.
ImplementsLifecycle == Lifecycle!LifeSpec

-----------------------------------------------------------------------------
(* The inductive invariant, for any number of threads.                         *)

\* Two threads' broadcasts do not overlap, and a broadcast of stop() turns each
\* vcpu it has finished with off.
BroadcastInv ==
  /\ ipi # NoThread => op[ipi] \in Broadcasts
  /\ ipi # NoThread /\ op[ipi] # "start" =>
       \A c \in Cores : /\ job[c] \in {"idle", "done"} \cup StopJobs
                        /\ job[c] = "done" => vcpu[c] \in {"null", "off"}

\* Only active processors have a vcpu, and a broadcast reaches all of those.
OwnedAreReached ==
  \A c \in Cores : vcpu[c] # "null" => /\ c \in active
                                       /\ ipi # NoThread => c \in targets

\* The object outlives the calls on it.
Lifetime ==
  /\ \A t \in Threads : op[t] \in {"delete", "free"} =>
       \A u \in Threads \ {t} : op[u] = "idle"
  /\ hv = "none" => Quiescent /\ \A c \in Cores : vcpu[c] = "null"
  /\ (\E t \in Threads : op[t] = "free") => \A c \in Cores : vcpu[c] \in {"null", "off"}

HvInv ==
  VcpuInv /\ HvTypeOK /\ BroadcastCoversWork /\ BroadcastInv /\ OwnedAreReached /\ Lifetime

-----------------------------------------------------------------------------
(* What a broadcast leaves behind, for any number of threads.                  *)

Clean(c) == "vmxe" \notin cr4[c] /\ mem[c] # "ready"

AllIn  == \A c \in Cores : vcpu[c] \in {"null", "on"}
AllOut == \A c \in Cores : vcpu[c] \in {"null", "off"} /\ Clean(c)

\* A broadcast of start() that a core has come through has turned its vcpu on.
StartTurnsOn ==
  ipi # NoThread /\ op[ipi] = "start" =>
    \A c \in Cores : job[c] \notin StopJobs /\ (job[c] = "done" => vcpu[c] = "on")

\* A broadcast of stop() takes back VMXE, and then the pages, of each core.
StopCleans ==
  ipi # NoThread /\ op[ipi] # "start" =>
    \A c \in Cores : /\ job[c] \in {"zero", "mark", "done"} => "vmxe" \notin cr4[c]
                     /\ job[c] \in {"mark", "done"} => mem[c] # "ready"

\* Between two broadcasts the cores are all in or all out, unless a thread has yet
\* to send the rollback of its failed start.
Settled == ipi = NoThread => AllIn \/ AllOut \/ Doing("rollback")

SettledInv ==
  /\ StartTurnsOn
  /\ StopCleans
  /\ Settled
  /\ \A c \in Cores : vcpu[c] = "null" => Clean(c)
  /\ Doing("free") => AllOut

-----------------------------------------------------------------------------
(* What hv_t::state says, when one thread makes all the calls.                 *)

OneCaller == \A t, u \in Threads : t = u

\* start() was called on a hypervisor that was off and has not committed yet; it
\* commits when its targets, and no others, are on, and stop() when none is.
CallerInv ==
  /\ active # {}
  /\ Doing("start") \/ Doing("commit") \/ Doing("rollback") => hv = "off"
  /\ Doing("commit") => \A c \in Cores : vcpu[c] = (IF c \in targets THEN "on" ELSE "null")
  /\ Doing("mark") => \A c \in Cores : vcpu[c] \in {"null", "off"}
  /\ Quiescent => IF hv = "on" THEN \A c \in targets : vcpu[c] = "on"
                  ELSE \A c \in Cores : vcpu[c] \in {"null", "off"}

=============================================================================
