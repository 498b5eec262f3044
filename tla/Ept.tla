--------------------------------- MODULE Ept ---------------------------------
(***************************************************************************)
(* ept_t::ept_t() (hv/ept.cpp): the tables that translate guest-physical     *)
(* addresses, built from the memory type range registers the firmware set.  *)
(* A reference to a table is its physical frame, which the pool chooses and *)
(* the constructor only copies.                                             *)
(***************************************************************************)
EXTENDS Mtrr

CONSTANTS
  Entries,      (* entries of a table                                          *)
  FixedTypes,   (* what the fixed registers may hold: for each, its types      *)
  PairChoices,  (* what the variable register pairs may hold: sequences        *)
  Frames,       (* physical frames the pool may place the tables at            *)
  PhysPages     (* pages that the physical addresses of the processor reach    *)

\* Firmware writes only types there are: the processor refuses others.
ASSUME EptAssumption ==
  /\ Entries \in Nat \ {0}
  /\ FixedTypes \subseteq [1 .. Len(FixedRegisters) -> [1 .. PerRegister -> MemoryTypes]]
  /\ PairChoices \subseteq Seq([valid : BOOLEAN, type : MemoryTypes, pfn : Nat, mask : Nat])
  /\ Frames \subseteq Nat
  /\ PhysPages \in Nat \ {0}

VARIABLES
  fixed,   (* IA32_MTRR_FIX*                                                   *)
  pairs,   (* IA32_MTRR_PHYSBASE and IA32_MTRR_PHYSMASK, pair by pair          *)
  at,      (* where the next write of the constructor goes                     *)
  mtrr,    (* the local mtrr_descriptor                                        *)
  frame,   (* the frame of the pml4; the pdpt and the pds follow it            *)
  pml4, pdpt, pd

eptVars == <<fixed, pairs, at, mtrr, frame, pml4, pdpt, pd>>

Index == 0 .. Entries - 1

\* An entry of memory that operator new does not clear.
Unwritten == [present |-> FALSE]

\* A table entry that refers to the next table, readable, writable, executable.
Link(pfn) == [present |-> TRUE, pfn |-> pfn]

\* page_table_t: one pml4, one pdpt, and a pd for each entry of the pdpt.
PdptFrame  == frame + 1
PdFrame(i) == frame + 2 + i

-----------------------------------------------------------------------------

AllocateAndReadMtrr ==
  /\ at = <<"new">>
  /\ frame' \in Frames
  /\ mtrr' = MtrrDescriptor(fixed, pairs)
  /\ at' = <<"pml4">>
  /\ UNCHANGED <<fixed, pairs, pml4, pdpt, pd>>

LinkPml4 ==
  /\ at = <<"pml4">>
  /\ pml4' = [pml4 EXCEPT ![0] = Link(PdptFrame)]
  /\ at' = <<"pdpt", 0>>
  /\ UNCHANGED <<fixed, pairs, mtrr, frame, pdpt, pd>>

LinkPdpt(i) ==
  /\ at = <<"pdpt", i>>
  /\ pdpt' = [pdpt EXCEPT ![i] = Link(PdFrame(i))]
  /\ at' = IF i + 1 \in Index THEN <<"pdpt", i + 1>> ELSE <<"pd", 0, 0>>
  /\ UNCHANGED <<fixed, pairs, mtrr, frame, pml4, pd>>

\* Mutant: the two loop variables are swapped.
LargePfn_Swapped(i, j) == j * Entries + i

\* Mutant: the entries of a pd are counted from one.
LargePfn_OneBased(i, j) == i * Entries + j + 1

\* The number of the large page that entry j of pd i maps.
LargePfn(i, j) == i * Entries + j

FillPd(i, j) ==
  /\ at = <<"pd", i, j>>
  /\ pd' = [pd EXCEPT ![i][j] =
              [present |-> TRUE, pfn |-> LargePfn(i, j),
               type |-> GetTypeOr(mtrr, LargePfn(i, j) * LargePage, "write_back")]]
  /\ at' = IF j + 1 \in Index THEN <<"pd", i, j + 1>>
           ELSE IF i + 1 \in Index THEN <<"pd", i + 1, 0>> ELSE <<"built">>
  /\ UNCHANGED <<fixed, pairs, mtrr, frame, pml4, pdpt>>

\* The tables are written by the constructor alone.
Built == at = <<"built">> /\ UNCHANGED eptVars

EptInit ==
  /\ fixed \in FixedTypes
  /\ pairs \in PairChoices
  /\ at = <<"new">>
  /\ mtrr = <<>>
  /\ frame = 0
  /\ pml4 = [k \in Index |-> Unwritten]
  /\ pdpt = [k \in Index |-> Unwritten]
  /\ pd = [i \in Index |-> [j \in Index |-> Unwritten]]

EptNext ==
  \/ AllocateAndReadMtrr
  \/ LinkPml4
  \/ \E i \in Index : LinkPdpt(i)
  \/ \E i, j \in Index : FillPd(i, j)
  \/ Built

EptSpec == EptInit /\ [][EptNext]_eptVars

-----------------------------------------------------------------------------
(* What the processor makes of the tables and of the registers.               *)

\* The entry a walk from the pml4 reaches for a guest page, if all are present and
\* each refers to the frame the next table is at.
Large(page)   == page \div LargePage
Reached(page) ==
  LET k == Large(page) \div (Entries * Entries)
      i == (Large(page) \div Entries) % Entries
      j == Large(page) % Entries
  IN  IF /\ k \in Index /\ pml4[k].present /\ pml4[k].pfn = PdptFrame
         /\ pdpt[i].present /\ pdpt[i].pfn \in {PdFrame(n) : n \in Index}
      THEN pd[pdpt[i].pfn - PdFrame(0)][j]
      ELSE Unwritten

\* A register pair with a contiguous mask, as firmware writes it, covers the
\* naturally aligned block from its base on.
Covers(pair, page) ==
  pair.valid /\ page >= pair.pfn /\ page < pair.pfn + (PhysPages - pair.mask)

FixedCovers(r, n, page) ==
  LET base == FixedRegisters[r].base + (n - 1) * FixedRegisters[r].size
  IN  page >= base /\ page < base + FixedRegisters[r].size

\* The types that the registers give to the pages of large page g.
TypesWithin(g) ==
  LET within == g * LargePage .. (g + 1) * LargePage - 1
  IN  {pairs[v].type : v \in {w \in DOMAIN pairs : \E page \in within : Covers(pairs[w], page)}}
      \cup UNION {{fixed[r][n] : n \in {m \in DOMAIN fixed[r] :
                                         \E page \in within : FixedCovers(r, m, page)}} :
                  r \in DOMAIN fixed}

Mapped == 0 .. Entries * Entries - 1

-----------------------------------------------------------------------------
(* Properties.                                                                *)

ConstructorPoint ==
  at \in {<<"new">>, <<"pml4">>, <<"built">>} \cup ({"pdpt"} \X Index)
        \cup ({"pd"} \X Index \X Index)

\* Every entry is unwritten or an entry of its level, with a type of the enum
\* memory_type_t, and the constructor is at one of its writes.
EptTypeOK ==
  /\ \A k \in Index : pml4[k] = Unwritten \/ (pml4[k].present /\ pml4[k].pfn \in Nat)
  /\ \A i \in Index : pdpt[i] = Unwritten \/ (pdpt[i].present /\ pdpt[i].pfn \in Nat)
  /\ \A i, j \in Index :
       pd[i][j] = Unwritten \/ (pd[i][j].pfn \in Mapped /\ pd[i][j].type \in MemoryTypes)
  /\ ConstructorPoint

\* The tables ept_t() leaves map every guest page they reach to itself, reach all
\* of the first pml4 entry's space, and reach nothing beyond it.
IdentityMap ==
  at = <<"built">> =>
    \A page \in 0 .. PhysPages - 1 :
      IF Large(page) \in Mapped
      THEN /\ Reached(page).present
           /\ Reached(page).pfn * LargePage + (page % LargePage) = page
      ELSE ~Reached(page).present

\* Memory that the registers make uncachable anywhere in a large page (device
\* registers share it with RAM) is never mapped with a cachable type.
UncachableWins ==
  at = <<"built">> =>
    \A i, j \in Index :
      "uncachable" \in TypesWithin(LargePfn(i, j)) => pd[i][j].type = "uncachable"

\* "Get memory type of the physical address, return default if not found."
\* (mtrr.hpp:26): a large page no register covers is mapped write-back.
UncoveredIsDefault ==
  at = <<"built">> =>
    \A i, j \in Index :
      TypesWithin(LargePfn(i, j)) = {} => pd[i][j].type = "write_back"

-----------------------------------------------------------------------------
(* The inductive invariant: what the constructor has written by now.           *)

\* The masks firmware writes: all bits from the lowest on.
ContiguousMasks ==
  \A ps \in PairChoices : \A v \in DOMAIN ps :
    ps[v].valid => PhysPages - ps[v].mask = 2^LowestBit(ps[v].mask)

Pml4Done     == at[1] \notin {"new", "pml4"}
PdptDone(i)  == at[1] \in {"pd", "built"} \/ (at[1] = "pdpt" /\ i < at[2])
PdDone(i, j) == at[1] = "built" \/ (at[1] = "pd" /\ (i < at[2] \/ (i = at[2] /\ j < at[3])))

PdEntry(i, j) ==
  [present |-> TRUE, pfn |-> LargePfn(i, j),
   type |-> GetTypeOr(mtrr, LargePfn(i, j) * LargePage, "write_back")]

RegistersAreRead ==
  /\ fixed \in FixedTypes
  /\ pairs \in PairChoices
  /\ at # <<"new">> => mtrr = MtrrDescriptor(fixed, pairs) /\ frame \in Frames

TablesSoFar ==
  /\ pml4 = [k \in Index |-> IF k = 0 /\ Pml4Done THEN Link(PdptFrame) ELSE Unwritten]
  /\ pdpt = [i \in Index |-> IF PdptDone(i) THEN Link(PdFrame(i)) ELSE Unwritten]
  /\ pd = [i \in Index |-> [j \in Index |-> IF PdDone(i, j) THEN PdEntry(i, j) ELSE Unwritten]]

EptInv == ConstructorPoint /\ RegistersAreRead /\ TablesSoFar

=============================================================================
