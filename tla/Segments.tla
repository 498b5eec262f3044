------------------------------ MODULE Segments ------------------------------
(***************************************************************************)
(* How start() carries a segment register into the guest: read<segment_t>   *)
(* (arch/arch.hpp) puts together from LAR, LSL, two MSRs and the descriptor  *)
(* in the GDT (arch/segments.hpp) what the processor has in the hidden part  *)
(* of the register, and setup_guest() and setup_host() write it to the VMCS. *)
(* The registers do not depend on each other; each behaviour follows one.   *)
(*                                                                          *)
(* Access rights, limits and selectors have the code's widths.  A byte of an *)
(* address has Radix values.                                                *)
(***************************************************************************)
EXTENDS Integers

CONSTANTS
  Radix,       (* Values of a byte of an address (256 in the code).           *)
  Gdts,        (* The descriptor tables the system may have: functions from   *)
               (* 0 .. n to entries.                                          *)
  Ldt,         (* The local descriptor table.                                 *)
  Selectors,   (* Selectors a register may be loaded with.                    *)
  Bases        (* What FS and GS base may be set to.                          *)

\* An entry of a table: the fields of the rights and of the base have their widths.
IsEntry(d) ==
  /\ d.type \in 0 .. 15 /\ d.dpl \in 0 .. 3
  /\ {d.system, d.present, d.avl, d.l, d.db, d.granularity} \subseteq 0 .. 1
  /\ {d.limit_low, d.limit_high, d.base_low, d.base_mid, d.base_high} \subseteq Nat
  /\ d.base_low < Radix * Radix /\ d.base_mid < Radix /\ d.base_high < Radix

\* What is read behind the last entry of the GDT has the form of an entry too.
ASSUME SegAssumption ==
  /\ Radix \in Nat \ {0}
  /\ Selectors \subseteq Nat
  /\ Bases \subseteq Nat
  /\ \A table \in Gdts \cup {Ldt} : \A i \in DOMAIN table : IsEntry(table[i])
  /\ \A table \in Gdts, s \in Selectors : {s \div 8, (s \div 8) + 1} \subseteq DOMAIN table

VARIABLES
  kind,        (* the register                                                *)
  gdt,
  sel,         (* its selector                                                *)
  cache,       (* its hidden part                                             *)
  guest,       (* the guest-state fields: a segment_t                         *)
  host,        (* the host-state field of the selector                        *)
  at           (* "system", "setup", "guest" or "refused"                     *)

segVars == <<kind, gdt, sel, cache, guest, host, at>>

-----------------------------------------------------------------------------
(* Selectors and descriptors                                                  *)

MsrBased == {"fs", "gs"}
SystemKinds == {"tr", "ldtr"}
Kinds == {"es", "cs", "ss", "ds"} \cup MsrBased \cup SystemKinds

Rpl(s)   == s % 4
Ti(s)    == (s \div 4) % 2
Index(s) == s \div 8

\* The processor treats the first entry of the GDT as no segment, whatever the RPL.
IsNull(s) == Index(s) = 0 /\ Ti(s) = 0

\* A selector's descriptor, as the processor finds it.
Descriptor(s) == IF Ti(s) = 1 THEN Ldt[Index(s)] ELSE gdt[Index(s)]

\* The rights of a descriptor in the layout of access_t.
AccessOf(d) ==
  d.type + 16 * d.system + 32 * d.dpl + 128 * d.present
  + 4096 * d.avl + 8192 * d.l + 16384 * d.db + 32768 * d.granularity

\* The first four bytes of an entry of the table.
LowDword(e) == (e.limit_low % (Radix * Radix)) + e.base_low * (Radix * Radix)

Base32(d) == d.base_low + (d.base_mid + d.base_high * Radix) * (Radix * Radix)

\* descriptor_t::base(): the system bit says whether the next entry has an upper half.
BaseOf(table, i) ==
  Base32(table[i]) + (IF table[i].system = 0
                      THEN LowDword(table[i + 1]) * (Radix * Radix * Radix * Radix)
                      ELSE 0)

\* The limit of a descriptor, as LSL takes it.
RawLimit(d) == d.limit_low + d.limit_high * 65536

ByteLimit(d) == IF d.granularity = 1 THEN RawLimit(d) * 4096 + 4095 ELSE RawLimit(d)

-----------------------------------------------------------------------------
(* The processor's segment registers                                          *)

\* What a 64-bit kernel may have loaded: a present segment of the right kind, or none
\* where that is legal; what it runs on is its own and comes from the GDT.
Loadable(k, s) ==
  /\ k \in {"cs", "ss"} => Rpl(s) = 0
  /\ k \in {"cs", "ss", "tr", "ldtr"} => Ti(s) = 0
  /\ IF IsNull(s) THEN k \notin {"cs", "tr"}
     ELSE /\ Ti(s) = 1 => Index(s) \in DOMAIN Ldt
          /\ Descriptor(s).present = 1
          /\ k \in {"cs", "ss"} => Descriptor(s).dpl = 0
          /\ k \notin SystemKinds /\ Descriptor(s).type < 12 => Rpl(s) <= Descriptor(s).dpl
          /\ Descriptor(s).system = (IF k \in SystemKinds THEN 0 ELSE 1)
          /\ Descriptor(s).type \in (CASE k = "cs"   -> {9, 11, 13, 15}
                                       [] k = "ss"   -> {3, 7}
                                       [] k = "tr"   -> {11}
                                       [] k = "ldtr" -> {2}
                                       [] OTHER      -> {1, 3, 5, 7, 11, 15})

\* The base loading a register gives it: LTR and LLDT take 64 bits from two entries,
\* every other register the 32 bits of its own.
ProcessorBase(k, table, i) ==
  Base32(table[i]) + (IF k \in SystemKinds
                      THEN LowDword(table[i + 1]) * (Radix * Radix * Radix * Radix)
                      ELSE 0)

\* FS and GS keep their base when nothing is loaded.
HiddenPart(k, s, base) ==
  IF IsNull(s) THEN [usable |-> FALSE, rights |-> 0, limit |-> 0, base |-> base]
  ELSE [usable |-> TRUE, rights |-> AccessOf(Descriptor(s)), limit |-> ByteLimit(Descriptor(s)),
        base |-> ProcessorBase(k, IF Ti(s) = 1 THEN Ldt ELSE gdt, Index(s))]

LoadSelector ==
  /\ at = "system"
  /\ \E s \in Selectors :
       /\ Loadable(kind, s)
       /\ sel' = s
       /\ cache' = HiddenPart(kind, s, IF kind \in MsrBased THEN cache.base ELSE 0)
  /\ UNCHANGED <<kind, gdt, guest, host, at>>

\* WRMSR of IA32_FS_BASE or IA32_GS_BASE; also what SWAPGS does.
WriteBaseMsr ==
  /\ at = "system"
  /\ kind \in MsrBased
  /\ \E b \in Bases : cache' = [cache EXCEPT !.base = b]
  /\ UNCHANGED <<kind, gdt, sel, guest, host, at>>

-----------------------------------------------------------------------------
(* read<segment_t>, setup_guest(), setup_host()                               *)

\* LAR gives the rights in bits 8 to 23 with the bits of the limit undefined, LSL the
\* limit; both leave their register alone if there is no segment.
LarValues(s) ==
  IF IsNull(s) THEN {0, 65535 * 256}
  ELSE {AccessOf(Descriptor(s)) * 256, AccessOf(Descriptor(s)) * 256 + 983040}

LslValues(s) == IF IsNull(s) THEN {0, 65535} ELSE {ByteLimit(Descriptor(s))}

\* Mutant: the bits LAR leaves undefined are not masked.
RightsFrom_Unmasked(lar, s) == [flags |-> lar \div 256, unusable |-> s = 0]

\* Mutant: gs and fs are read like the other registers.
SegmentBase_NoMsr == BaseOf(gdt, Index(sel))

\* descriptor_t::base() of the entry of the GDT the index selects; the table indicator
\* is not looked at.
SegmentBase == IF kind \in MsrBased THEN cache.base ELSE BaseOf(gdt, Index(sel))

\* The bits of lar >> 8 that 0xf0ff keeps.
RightsFrom(lar, s) ==
  LET shifted == lar \div 256
  IN  [flags |-> 4096 * ((shifted \div 4096) % 16) + (shifted % 256), unusable |-> s = 0]

\* Mutant: the selector as it is.
HostSelector_AsIs(s) == s

\* The bits of the selector that 0xf8 keeps.
HostSelector(s) == 8 * (Index(s) % 32)

\* There is no host field for LDTR.
SetupSegment ==
  /\ at = "system"
  /\ \E lar \in LarValues(sel), lsl \in LslValues(sel) :
       guest' = [selector |-> sel, limit |-> lsl, rights |-> RightsFrom(lar, sel),
                 base |-> SegmentBase]
  /\ host' = IF kind = "ldtr" THEN 0 ELSE HostSelector(sel)
  /\ at' = "setup"
  /\ UNCHANGED <<kind, gdt, sel, cache>>

-----------------------------------------------------------------------------
(* VM entry                                                                   *)

\* The processor's checks of the two states.  Those of type, DPL and granularity hold of
\* any register that was loaded, and are left out.
GuestAccepted ==
  \/ guest.rights.unusable /\ kind \notin {"cs", "tr"}
  \/ /\ ~guest.rights.unusable
     /\ (guest.rights.flags \div 256) % 16 = 0
     /\ (guest.rights.flags \div 128) % 2 = 1
     /\ (guest.rights.flags \div 16) % 2 = (IF kind \in SystemKinds THEN 0 ELSE 1)
     /\ kind \in {"es", "cs", "ss", "ds"} => guest.base < Radix * Radix * Radix * Radix

HostAccepted == Rpl(host) = 0 /\ Ti(host) = 0 /\ (kind \in {"cs", "tr"} => host # 0)

EnterGuest ==
  /\ at = "setup"
  /\ \/ /\ GuestAccepted /\ HostAccepted
        /\ sel' = guest.selector
        /\ cache' = [usable |-> ~guest.rights.unusable, rights |-> guest.rights.flags,
                     limit |-> guest.limit, base |-> guest.base]
        /\ at' = "guest"
     \/ /\ ~(GuestAccepted /\ HostAccepted)
        /\ at' = "refused"
        /\ UNCHANGED <<sel, cache>>
  /\ UNCHANGED <<kind, gdt, guest, host>>

NoSegment == [selector |-> 0, limit |-> 0, rights |-> [flags |-> 0, unusable |-> FALSE], base |-> 0]

SegInit ==
  /\ kind \in Kinds
  /\ gdt \in Gdts
  /\ sel \in {s \in Selectors : Loadable(kind, s)}
  /\ cache = HiddenPart(kind, sel, 0)
  /\ guest = NoSegment
  /\ host = 0
  /\ at = "system"

SegNext == LoadSelector \/ WriteBaseMsr \/ SetupSegment \/ EnterGuest

SegSpec == SegInit /\ [][SegNext]_segVars

-----------------------------------------------------------------------------
(* Properties.                                                                *)

Word == {n \in Nat : n < 65536}

Segment == [usable : BOOLEAN, rights : Word, limit : Nat, base : Nat]

\* RPL bits without a segment: selectors 1 to 3.
OddNull(s) == IsNull(s) /\ s # 0

SegTypeOK ==
  /\ kind \in Kinds /\ gdt \in Gdts
  /\ sel \in Selectors
  /\ cache \in Segment
  /\ guest \in [selector : Selectors \cup {0}, limit : Nat, base : Nat,
                rights : [flags : Word, unusable : BOOLEAN]]
  /\ host \in {8 * i : i \in 0 .. 31}
  /\ at \in {"system", "setup", "guest", "refused"}

\* DS or ES loaded from the LDT where the GDT, in which read<segment_t> looks its index
\* up, has no code or data segment: base() adds whatever follows it as an upper half.
StrayBase ==
  /\ kind \in {"ds", "es"} /\ Ti(sel) = 1
  /\ gdt[Index(sel)].system = 0 /\ LowDword(gdt[Index(sel) + 1]) # 0

\* Two hidden parts the processor checks accesses alike with, and forms addresses alike
\* with: for a register without a segment only the base of FS and GS counts.
SameRights(a, b) ==
  /\ a.usable = b.usable
  /\ a.usable => a.rights = b.rights /\ a.limit = b.limit

SameBase(k, a, b) == a.usable \/ k \in MsrBased => a.base = b.base

\* The system that wakes up in the guest has the segments the processor had loaded for
\* its selectors, and the base FS or GS was given afterwards.  Not claimed: the base of DS
\* or ES from the LDT, which read<segment_t> takes from the GDT, and anything of a null
\* selector with an RPL, which it takes for a segment.
GuestSegmentsMatch ==
  [][EnterGuest /\ at' = "guest" /\ ~OddNull(sel)
       => /\ SameRights(cache', cache)
          /\ Ti(sel) = 0 \/ kind \in MsrBased => SameBase(kind, cache', cache)]_segVars

\* VM entry refuses what was read of a register only where it is a null selector with an
\* RPL, or DS or ES from the LDT with a stray upper half in its base; and an exit finds
\* the descriptors the system was using, if the table has no more than 32 entries.
EntryAcceptsSegments ==
  /\ at = "refused" => OddNull(sel) \/ StrayBase
  /\ at = "guest" /\ Ti(sel) = 0 /\ kind # "ldtr" /\ Index(sel) < 32 => Index(host) = Index(sel)

-----------------------------------------------------------------------------
(* The inductive invariant: what the fields have to do with the register they  *)
(* were read from.                                                            *)

\* A register holds what its selector loads, but FS and GS may have another base.
Loaded ==
  /\ Loadable(kind, sel)
  /\ cache.base \in Nat
  /\ kind \notin MsrBased => cache.base = HiddenPart(kind, sel, 0).base
  /\ cache = [HiddenPart(kind, sel, 0) EXCEPT !.base = cache.base]

\* What setup_guest() and setup_host() have read of it.
FieldsRead ==
  /\ guest.selector = sel
  /\ guest.limit \in LslValues(sel)
  /\ \E lar \in LarValues(sel) : guest.rights = RightsFrom(lar, sel)
  /\ guest.base = SegmentBase
  /\ host = IF kind = "ldtr" THEN 0 ELSE HostSelector(sel)

SegInv ==
  /\ SegTypeOK
  /\ at \in {"system", "setup"} => Loaded
  /\ at = "setup" => FieldsRead
  /\ at = "guest" => host = IF kind = "ldtr" THEN 0 ELSE HostSelector(sel)
  /\ at = "refused" => OddNull(sel) \/ StrayBase \/ Index(sel) >= 32

=============================================================================
