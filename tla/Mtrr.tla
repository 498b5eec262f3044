-------------------------------- MODULE Mtrr --------------------------------
(***************************************************************************)
(* mtrr_descriptor (arch/mtrr.hpp, arch/mtrr.cpp): the ranges read from the *)
(* memory type range registers, and the type of a large page among them.    *)
(* Addresses are counted in 4 KiB pages.                                    *)
(***************************************************************************)
EXTENDS Integers, Sequences, FiniteSetsExt

CONSTANTS
  FixedRegisters,  (* the fixed-range registers in the order they are read:   *)
                   (* each has the base of its first range and the size of    *)
                   (* every one of its ranges                                 *)
  PerRegister,     (* ranges of a fixed register, 8 on the processor          *)
  LargePage        (* pages of one large page                                 *)

ASSUME MtrrAssumption ==
  /\ FixedRegisters \in Seq([base : Nat, size : Nat])
  /\ PerRegister \in Nat \ {0}
  /\ LargePage \in Nat \ {0}

MemoryTypes == {"uncachable", "write_combining", "write_through", "write_protected", "write_back"}

\* One range of a fixed register, as build_mtrr() stores it: the member named
\* size receives the end of the range.
FixedRange(register, n, type) ==
  LET base == register.base + (n - 1) * register.size
  IN  [base |-> base, size |-> register.size + base, type |-> type]

FixedCount == PerRegister * Len(FixedRegisters)

\* build_mtrr() for every fixed register, the ranges of one after those of the other;
\* types[r] are the types register r holds.
FixedRangeAt(types, k) ==
  LET r == ((k - 1) \div PerRegister) + 1
      n == ((k - 1) % PerRegister) + 1
  IN  FixedRange(FixedRegisters[r], n, types[r][n])

\* _BitScanForward64: the position of the lowest bit of a mask that is set.
LowestBit(mask) == CHOOSE i \in 0 .. 35 : mask % 2^(i + 1) # 0 /\ mask % 2^i = 0

\* One pair of variable registers; size receives the end of the range again.
VariableRange(pair) ==
  [base |-> pair.pfn, size |-> pair.pfn + 2^LowestBit(pair.mask), type |-> pair.type]

\* The ranges by their position: the fixed ones, then those of the valid pairs in the
\* order of their registers.  A valid pair keeps its own position behind the fixed
\* ranges, where the code closes the gaps the others leave.
MtrrDescriptor(types, pairs) ==
  LET valid == {FixedCount + v : v \in {w \in DOMAIN pairs : pairs[w].valid}}
  IN  [k \in (1 .. FixedCount) \cup valid |->
         IF k <= FixedCount THEN FixedRangeAt(types, k) ELSE VariableRange(pairs[k - FixedCount])]

\* The two comparisons of get_type_or(): does the large page at pa touch the range?
Touches(pa, range) == pa < range.base + range.size /\ pa + LargePage - 1 >= range.base

\* What the loop of get_type_or() ends with when it hits these ranges: the type of the
\* last one, where it goes no further than the first that is uncachable.
LastHit(ranges, hits, default) ==
  LET taken == {n \in hits : \A m \in hits : m < n => ranges[m].type # "uncachable"}
  IN  IF taken = {} THEN default ELSE ranges[Max(taken)].type

\* Mutant: only the start of the large page is looked up.
GetTypeOr_StartOnly(ranges, pa, default) ==
  LastHit(ranges,
          {n \in DOMAIN ranges : pa < ranges[n].base + ranges[n].size /\ pa >= ranges[n].base},
          default)

\* get_type_or(): the last range that is touched, unless one of them is uncachable.
GetTypeOr(ranges, pa, default) ==
  LastHit(ranges, {n \in DOMAIN ranges : Touches(pa, ranges[n])}, default)

=============================================================================
