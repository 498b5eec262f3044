-------------------------- MODULE LifecycleProofs --------------------------
(* HvLifecycle keeps its promise for any set of cores.                         *)
EXTENDS HvLifecycle, TLAPS

\* Every step of the abstract life cycle keeps the truth of its phase, because a
\* start commits only when all its members have entered and no phase but leaving
\* ends with off or absent.
LEMMA LifeStepInv == LifeInv /\ [LifeNext]_lifeVars => LifeInv'
<1> SUFFICES ASSUME LifeInv, [LifeNext]_lifeVars PROVE LifeInv'
  OBVIOUS
<1> USE DEF LifeInv, LifeTypeOK, LifeConsistent
<1>1. CASE Create    BY <1>1 DEF Create
<1>2. CASE Begin     BY <1>2 DEF Begin
<1>3. CASE Commit    BY <1>3 DEF Commit
<1>4. CASE Withdraw  BY <1>4 DEF Withdraw
<1>5. CASE Finish    BY <1>5 DEF Finish
<1>6. CASE BugCheck  BY <1>6 DEF BugCheck
<1>7. ASSUME NEW c \in Cores, Enter(c) PROVE LifeInv'  BY <1>7 DEF Enter
<1>8. ASSUME NEW c \in Cores, Leave(c) PROVE LifeInv'  BY <1>8 DEF Leave
<1>9. CASE StayDown \/ UNCHANGED lifeVars  BY <1>9 DEF StayDown, lifeVars
<1> QED  BY <1>1, <1>2, <1>3, <1>4, <1>5, <1>6, <1>7, <1>8, <1>9 DEF LifeNext

\* On means that every member is virtualized, off and absent that no core is.
THEOREM LifeConsistentHolds == LifeSpec => []LifeConsistent
<1>1. LifeInit => LifeInv
  BY DEF LifeInit, LifeInv, LifeTypeOK, LifeConsistent
<1>2. LifeInv => LifeConsistent
  BY DEF LifeInv
<1> QED  BY <1>1, <1>2, LifeStepInv, PTL DEF LifeSpec

=============================================================================
