---------------------------- MODULE HvLifecycle ----------------------------
(***************************************************************************)
(* What hv_t promises to the driver that owns it: the hypervisor is on only *)
(* while it holds every core it was started on, and it is off, or gone,     *)
(* only once it has let every core go.  Cores enter and leave one by one in *)
(* between, and the machine may bug-check at any point of a transition.     *)
(***************************************************************************)

CONSTANT Cores

VARIABLES
  phase,    (* "absent", "off", "starting", "on", "leaving" or "down"         *)
  virt,     (* the cores in non-root operation                                *)
  members   (* the cores a start, or the running hypervisor, is made of       *)

lifeVars == <<phase, virt, members>>

LifeTypeOK ==
  /\ phase \in {"absent", "off", "starting", "on", "leaving", "down"}
  /\ virt \subseteq Cores
  /\ members \subseteq Cores

LifeInit == phase = "absent" /\ virt = {} /\ members = {}

Create ==
  /\ phase = "absent"
  /\ phase' = "off"
  /\ UNCHANGED <<virt, members>>

Begin ==
  /\ phase = "off"
  /\ phase' = "starting"
  /\ members' \in (SUBSET Cores) \ {{}}
  /\ UNCHANGED virt

Enter(c) ==
  /\ phase = "starting"
  /\ c \in members \ virt
  /\ virt' = virt \cup {c}
  /\ UNCHANGED <<phase, members>>

Commit ==
  /\ phase = "starting"
  /\ virt = members
  /\ phase' = "on"
  /\ UNCHANGED <<virt, members>>

\* A start that failed somewhere, or a stop.
Withdraw ==
  /\ phase \in {"off", "starting", "on"}
  /\ phase' = "leaving"
  /\ members' = {}
  /\ UNCHANGED virt

Leave(c) ==
  /\ phase = "leaving"
  /\ c \in virt
  /\ virt' = virt \ {c}
  /\ UNCHANGED <<phase, members>>

Finish ==
  /\ phase = "leaving"
  /\ virt = {}
  /\ phase' \in {"off", "absent"}
  /\ UNCHANGED <<virt, members>>

BugCheck ==
  /\ phase # "down"
  /\ phase' = "down"
  /\ UNCHANGED <<virt, members>>

StayDown == phase = "down" /\ UNCHANGED lifeVars

LifeNext ==
  \/ Create \/ Begin \/ Commit \/ Withdraw \/ Finish \/ BugCheck \/ StayDown
  \/ \E c \in Cores : Enter(c) \/ Leave(c)

LifeSpec == LifeInit /\ [][LifeNext]_lifeVars

\* is_running() tells the truth about every core: on means that each member is
\* virtualized, off and absent that no core is.
LifeConsistent ==
  /\ phase = "on" => virt = members /\ members # {}
  /\ phase \in {"off", "absent"} => virt = {}

\* Only members enter, and there is one.
LifeInv ==
  /\ LifeTypeOK
  /\ LifeConsistent
  /\ phase = "starting" => members # {} /\ virt \subseteq members

=============================================================================
