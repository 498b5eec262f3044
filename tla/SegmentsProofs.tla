--------------------------- MODULE SegmentsProofs ---------------------------
(***************************************************************************)
(* Theorems about the segment registers, for any descriptor tables and any  *)
(* selectors.                                                              *)
(***************************************************************************)
EXTENDS Segments, TLAPS

\* What 0xf8 keeps of a selector is the index into a table of 32 entries.
TableOf32 == \A s \in Selectors : Index(s) < 32

-----------------------------------------------------------------------------
(* Selectors, rights and bases as numbers                                     *)

\* What is written to a host selector field is a selector without RPL and TI.
LEMMA HostSelectorParts ==
  ASSUME NEW s \in Selectors
  PROVE  /\ s \in Nat /\ Index(s) \in Nat
         /\ HostSelector(s) \in {8 * i : i \in 0 .. 31}
         /\ Rpl(HostSelector(s)) = 0 /\ Ti(HostSelector(s)) = 0
         /\ Index(s) < 32 => Index(HostSelector(s)) = Index(s)
<1>1. s \in Nat /\ Index(s) \in Nat
  BY SegAssumption DEF Index
<1>2. PICK i \in 0 .. 31 : i = Index(s) % 32
  BY <1>1
<1>3. HostSelector(s) = 8 * i
  BY <1>2 DEF HostSelector
<1>4. Rpl(8 * i) = 0 /\ Ti(8 * i) = 0 /\ Index(8 * i) = i
  BY DEF Rpl, Ti, Index
<1>5. Index(s) < 32 => i = Index(s)
  BY <1>1, <1>2
<1>6. QED
  BY <1>1, <1>2, <1>3, <1>4, <1>5

\* A segment's limit is a number.
LEMMA LimitIsNat == \A d : IsEntry(d) => ByteLimit(d) \in Nat /\ RawLimit(d) \in Nat
<1>1. SUFFICES ASSUME NEW d, IsEntry(d) PROVE ByteLimit(d) \in Nat /\ RawLimit(d) \in Nat
  OBVIOUS
<1>2. d.limit_low \in Nat /\ d.limit_high \in Nat
  BY <1>1 DEF IsEntry
<1>3. RawLimit(d) \in Nat
  BY <1>2 DEF RawLimit
<1>4. QED
  BY <1>3 DEF ByteLimit

\* The three parts of an entry's base make less than 32 bits of it.
LEMMA BaseFits ==
  ASSUME NEW d, IsEntry(d)
  PROVE  Base32(d) \in Nat /\ Base32(d) < Radix * Radix * Radix * Radix
<1>1. PICK r \in Nat \ {0} : r = Radix
  BY SegAssumption
<1>2. PICK low \in Nat, mid \in Nat, high \in Nat :
        d.base_low = low /\ d.base_mid = mid /\ d.base_high = high
  BY DEF IsEntry
<1>3. low < r * r /\ mid < r /\ high < r
  BY <1>1, <1>2 DEF IsEntry
<1>4. PICK q \in Nat : q = r * r
  OBVIOUS
<1>5. PICK m \in Nat : m = mid + high * r
  OBVIOUS
<1>6. m <= q - 1
  <2>1. high <= r - 1 /\ mid <= r - 1
    BY <1>3
  <2>2. high * r <= (r - 1) * r
    BY <2>1
  <2>3. (r - 1) * r = q - r
    BY <1>4
  <2>4. QED
    BY <1>4, <1>5, <2>1, <2>2, <2>3
<1>7. m * q <= (q - 1) * q
  BY <1>6
<1>8. low + m * q < q * q
  <2>1. (q - 1) * q = q * q - q
    OBVIOUS
  <2>2. low < q
    BY <1>3, <1>4
  <2>3. PICK a \in Int, b \in Int : a = m * q /\ b = q * q
    OBVIOUS
  <2>4. a <= b - q
    BY <1>7, <2>1, <2>3
  <2>5. low + a < b
    BY <2>2, <2>4
  <2>6. QED
    BY <2>3, <2>5
<1>9. Base32(d) = low + m * q
  BY <1>1, <1>2, <1>4, <1>5 DEF Base32
<1>10. Radix * Radix * Radix * Radix = q * q
  BY <1>1, <1>4
<1>11. QED
  BY <1>8, <1>9, <1>10

\* What the next entry adds to a base is a number, and none if its first four bytes are 0.
LEMMA UpperHalf ==
  ASSUME NEW e, IsEntry(e)
  PROVE  /\ LowDword(e) * (Radix * Radix * Radix * Radix) \in Nat
         /\ LowDword(e) = 0 => LowDword(e) * (Radix * Radix * Radix * Radix) = 0
<1>1. Radix * Radix \in Nat \ {0} /\ Radix * Radix * Radix * Radix \in Nat
  BY SegAssumption
<1>2. e.limit_low \in Nat /\ e.base_low \in Nat
  BY DEF IsEntry
<1>3. e.limit_low % (Radix * Radix) \in Nat /\ e.base_low * (Radix * Radix) \in Nat
  BY <1>1, <1>2
<1>4. PICK q \in Nat : q = LowDword(e)
  BY <1>3 DEF LowDword
<1>5. PICK w \in Nat : w = Radix * Radix * Radix * Radix
  BY <1>1
<1>6. q * w \in Nat /\ (q = 0 => q * w = 0)
  OBVIOUS
<1>7. QED
  BY <1>4, <1>5, <1>6

\* Access rights by their fields: high is bits 12 to 15, undefined what LAR may have in
\* bits 8 to 11.
RightsWord(type, system, dpl, present, undefined, high) ==
  type + 16 * system + 32 * dpl + 128 * present + 256 * undefined + 4096 * high

\* The fields that VM entry looks at, and what 0xf0ff keeps.
FieldsAre(a, system, present, undefined) ==
  /\ a \in Nat /\ a \in Word
  /\ (a \div 16) % 2 = system
  /\ (a \div 128) % 2 = present
  /\ (a \div 256) % 16 = undefined
  /\ 4096 * ((a \div 4096) % 16) + (a % 256) = a - 256 * undefined

\* They are the fields the word is made of.
LEMMA FieldsOfRights ==
  ASSUME NEW type \in 0 .. 15, NEW system \in 0 .. 1, NEW dpl \in 0 .. 3, NEW present \in 0 .. 1,
         NEW undefined \in 0 .. 15, NEW high \in 0 .. 15,
         NEW a, a = RightsWord(type, system, dpl, present, undefined, high)
  PROVE  FieldsAre(a, system, present, undefined)
<1>0. a = type + 16 * system + 32 * dpl + 128 * present + 256 * undefined + 4096 * high
  BY SMT DEF RightsWord
<1>1. a \in Nat /\ a \in Word
  <2>1. a \in Nat /\ a <= 65535
    BY <1>0, SMT
  <2>2. a \in Word
    BY <2>1, SMT DEF Word
  <2>3. QED
    BY <2>1, <2>2, SMT
<1>2. (a \div 16) % 2 = system
  <2>1. a \div 16 = system + 2 * dpl + 8 * present + 16 * undefined + 256 * high
    BY <1>0, SMT
  <2>2. QED
    BY <2>1, SMT
<1>3. (a \div 128) % 2 = present
  <2>1. a \div 128 = present + 2 * undefined + 32 * high
    BY <1>0, SMT
  <2>2. QED
    BY <2>1, SMT
<1>4. (a \div 256) % 16 = undefined
  <2>1. a \div 256 = undefined + 16 * high
    BY <1>0, SMT
  <2>2. QED
    BY <2>1, SMT
<1>5. (a \div 4096) % 16 = high
  <2>1. a \div 4096 = high
    BY <1>0, SMT
  <2>2. QED
    BY <2>1, SMT
<1>6. a % 256 = type + 16 * system + 32 * dpl + 128 * present
  BY <1>0, SMT
<1>7. QED
  BY <1>0, <1>1, <1>2, <1>3, <1>4, <1>5, <1>6, SMT DEF FieldsAre

\* A descriptor's rights are such a word; the processor may set the bits it leaves undefined.
LEMMA RightsOfDescriptor ==
  ASSUME NEW d, IsEntry(d)
  PROVE  /\ FieldsAre(AccessOf(d), d.system, d.present, 0)
         /\ FieldsAre(AccessOf(d) + 3840, d.system, d.present, 15)
<1>1. PICK type \in 0 .. 15, system \in 0 .. 1, dpl \in 0 .. 3, present \in 0 .. 1 :
        d.type = type /\ d.system = system /\ d.dpl = dpl /\ d.present = present
  BY SMT DEF IsEntry
<1>2. PICK avl \in 0 .. 1, l \in 0 .. 1, db \in 0 .. 1, granularity \in 0 .. 1 :
        d.avl = avl /\ d.l = l /\ d.db = db /\ d.granularity = granularity
  BY SMT DEF IsEntry
<1>3. PICK high \in 0 .. 15 : high = avl + 2 * l + 4 * db + 8 * granularity
  BY SMT
<1>4. PICK none \in 0 .. 15, all \in 0 .. 15 : none = 0 /\ all = 15
  BY SMT
<1>5. PICK a, b : a = AccessOf(d) /\ b = AccessOf(d) + 3840
  BY SMT
<1>6. a = type + 16 * system + 32 * dpl + 128 * present
          + 4096 * avl + 8192 * l + 16384 * db + 32768 * granularity
  BY <1>1, <1>2, <1>5, SMT DEF AccessOf
<1>7. FieldsAre(a, system, present, none)
  <2>1. a = RightsWord(type, system, dpl, present, none, high)
    BY <1>3, <1>4, <1>6, SMT DEF RightsWord
  <2>2. QED
    BY <2>1, FieldsOfRights, Zenon
<1>8. FieldsAre(b, system, present, all)
  <2>1. b = a + 3840
    BY <1>5, SMT
  <2>2. b = RightsWord(type, system, dpl, present, all, high)
    BY <1>3, <1>4, <1>6, <2>1, SMT DEF RightsWord
  <2>3. QED
    BY <2>2, FieldsOfRights, Zenon
<1>9. QED
  BY <1>1, <1>4, <1>5, <1>7, <1>8, SMT

\* The rights read<segment_t> keeps of what LAR returns are the descriptor's, and in the
\* layout VM entry looks at.
LEMMA RightsOfLar ==
  ASSUME NEW d, IsEntry(d), NEW s,
         NEW lar \in {AccessOf(d) * 256, AccessOf(d) * 256 + 983040}
  PROVE  /\ RightsFrom(lar, s).flags = AccessOf(d)
         /\ AccessOf(d) \in Nat /\ AccessOf(d) \in Word
         /\ (AccessOf(d) \div 256) % 16 = 0
         /\ (AccessOf(d) \div 128) % 2 = d.present
         /\ (AccessOf(d) \div 16) % 2 = d.system
<1>1. PICK a, b, shifted : a = AccessOf(d) /\ b = AccessOf(d) + 3840 /\ shifted = lar \div 256
  BY SMT
<1>2. FieldsAre(a, d.system, d.present, 0) /\ FieldsAre(b, d.system, d.present, 15)
  BY <1>1, RightsOfDescriptor, SMT
<1>3. a \in Nat /\ b = a + 3840
  BY <1>1, <1>2, SMT DEF FieldsAre
<1>4. /\ 4096 * ((a \div 4096) % 16) + (a % 256) = a
      /\ 4096 * ((b \div 4096) % 16) + (b % 256) = a
  BY <1>2, <1>3, SMT DEF FieldsAre
<1>5. shifted = a \/ shifted = b
  <2>1. (a * 256) \div 256 = a
    BY <1>3, SMT
  <2>2. (a * 256 + 983040) \div 256 = a + 3840
    BY <1>3, SMT
  <2>3. lar = a * 256 \/ lar = a * 256 + 983040
    BY <1>1, SMT
  <2>4. QED
    BY <1>1, <1>3, <2>1, <2>2, <2>3, SMT
<1>6. RightsFrom(lar, s).flags = 4096 * ((shifted \div 4096) % 16) + (shifted % 256)
  BY <1>1, SMT DEF RightsFrom
<1>7. 4096 * ((shifted \div 4096) % 16) + (shifted % 256) = a
  BY <1>4, <1>5, SMT
<1>8. QED
  BY <1>1, <1>2, <1>6, <1>7, SMT DEF FieldsAre

-----------------------------------------------------------------------------
(* What a register may be loaded with                                         *)

\* The selectors of no segment: 0 is one, and selectors 1 to 3 are the odd ones.
LEMMA NullSelectors ==
  ASSUME NEW s \in Selectors
  PROVE  /\ IsNull(0) /\ Index(0) = 0
         /\ ~OddNull(s) => (IsNull(s) <=> s = 0)
         /\ Ti(s) \in 0 .. 1
<1>1. s \in Nat
  BY SegAssumption
<1>2. Index(0) = 0 /\ Ti(0) = 0
  BY DEF Index, Ti
<1>3. IsNull(0)
  BY <1>2 DEF IsNull
<1>4. Ti(s) \in 0 .. 1
  BY <1>1 DEF Ti
<1>5. QED
  BY <1>2, <1>3, <1>4 DEF OddNull

\* A selector that may be loaded has a descriptor of the register's kind, whose base is
\* in entries of the table it is in.
LEMMA LoadableDescriptor ==
  ASSUME gdt \in Gdts, NEW k \in Kinds, NEW s \in Selectors, Loadable(k, s), ~IsNull(s)
  PROVE  /\ IsEntry(Descriptor(s))
         /\ Descriptor(s).present = 1
         /\ Descriptor(s).system = (IF k \in SystemKinds THEN 0 ELSE 1)
         /\ ProcessorBase(k, IF Ti(s) = 1 THEN Ldt ELSE gdt, Index(s)) \in Nat
         /\ Ti(s) = 0 => ProcessorBase(k, gdt, Index(s)) = BaseOf(gdt, Index(s))
<1>1. /\ Descriptor(s).present = 1
      /\ Descriptor(s).system = (IF k \in SystemKinds THEN 0 ELSE 1)
      /\ Ti(s) = 1 => Index(s) \in DOMAIN Ldt
      /\ k \in SystemKinds => Ti(s) = 0
  BY DEF Loadable, SystemKinds
<1>2. Index(s) \in DOMAIN gdt /\ Index(s) + 1 \in DOMAIN gdt
  BY SegAssumption DEF Index
<1>3. /\ IsEntry(gdt[Index(s)]) /\ IsEntry(gdt[Index(s) + 1])
      /\ Ti(s) = 1 => IsEntry(Ldt[Index(s)])
  BY <1>1, <1>2, SegAssumption
<1>4. IsEntry(Descriptor(s))
  BY <1>3, NullSelectors DEF Descriptor
<1>5. ProcessorBase(k, IF Ti(s) = 1 THEN Ldt ELSE gdt, Index(s)) \in Nat
  <2>1. CASE k \in SystemKinds
    <3>1. Ti(s) # 1
      BY <1>1, <2>1
    <3>2. ProcessorBase(k, gdt, Index(s)) \in Nat
      BY <1>3, <2>1, BaseFits, UpperHalf DEF ProcessorBase
    <3>3. QED
      BY <3>1, <3>2
  <2>2. CASE k \notin SystemKinds
    <3>1. PICK d : d = (IF Ti(s) = 1 THEN Ldt[Index(s)] ELSE gdt[Index(s)])
      OBVIOUS
    <3>2. Base32(d) \in Nat
      BY <1>3, <3>1, BaseFits
    <3>3. ProcessorBase(k, IF Ti(s) = 1 THEN Ldt ELSE gdt, Index(s)) = Base32(d) + 0
      BY <2>2, <3>1 DEF ProcessorBase
    <3>4. QED
      BY <3>2, <3>3
  <2>3. QED
    BY <2>1, <2>2
<1>6. ASSUME Ti(s) = 0 PROVE ProcessorBase(k, gdt, Index(s)) = BaseOf(gdt, Index(s))
  <2>1. gdt[Index(s)].system = (IF k \in SystemKinds THEN 0 ELSE 1)
    BY <1>1, <1>6 DEF Descriptor
  <2>2. QED
    BY <2>1 DEF ProcessorBase, BaseOf
<1>7. QED
  BY <1>1, <1>4, <1>5, <1>6

\* The base descriptor_t::base() finds in the GDT is a number.
LEMMA GdtBase ==
  ASSUME gdt \in Gdts, NEW s \in Selectors
  PROVE  BaseOf(gdt, Index(s)) \in Nat
<1>1. Index(s) \in DOMAIN gdt /\ Index(s) + 1 \in DOMAIN gdt
  BY SegAssumption DEF Index
<1>2. IsEntry(gdt[Index(s)]) /\ IsEntry(gdt[Index(s) + 1])
  BY <1>1, SegAssumption
<1>3. QED
  BY <1>2, BaseFits, UpperHalf DEF BaseOf

\* What loading a selector leaves in the hidden part.
LEMMA HiddenPartIsSegment ==
  ASSUME gdt \in Gdts, NEW k \in Kinds, NEW s \in Selectors, Loadable(k, s), NEW base \in Nat
  PROVE  HiddenPart(k, s, base) \in Segment
<1>1. CASE IsNull(s)
  <2>1. 0 \in Word
    BY SMT DEF Word
  <2>2. HiddenPart(k, s, base) = [usable |-> FALSE, rights |-> 0, limit |-> 0, base |-> base]
    BY <1>1 DEF HiddenPart
  <2>3. QED
    BY <2>1, <2>2 DEF Segment
<1>2. CASE ~IsNull(s)
  <2>1. IsEntry(Descriptor(s))
    BY <1>2, LoadableDescriptor
  <2>2. AccessOf(Descriptor(s)) \in Word
    BY <2>1, RightsOfDescriptor, SMT DEF FieldsAre
  <2>3. ByteLimit(Descriptor(s)) \in Nat
    BY <2>1, LimitIsNat
  <2>4. ProcessorBase(k, IF Ti(s) = 1 THEN Ldt ELSE gdt, Index(s)) \in Nat
    BY <1>2, LoadableDescriptor
  <2>5. HiddenPart(k, s, base) =
          [usable |-> TRUE, rights |-> AccessOf(Descriptor(s)), limit |-> ByteLimit(Descriptor(s)),
           base |-> ProcessorBase(k, IF Ti(s) = 1 THEN Ldt ELSE gdt, Index(s))]
    BY <1>2 DEF HiddenPart
  <2>6. QED
    BY <2>2, <2>3, <2>4, <2>5 DEF Segment
<1>3. QED
  BY <1>1, <1>2

-----------------------------------------------------------------------------
(* What is read of a register                                                 *)

\* The rights read<segment_t> makes of what LAR returns: marked unusable exactly for the
\* selector 0, and the descriptor's if there is a segment.
LEMMA RightsRead ==
  ASSUME gdt \in Gdts, NEW k \in Kinds, NEW s \in Selectors, Loadable(k, s),
         NEW lar \in LarValues(s)
  PROVE  /\ RightsFrom(lar, s) \in [flags : Word, unusable : BOOLEAN]
         /\ RightsFrom(lar, s).unusable = (s = 0)
         /\ ~IsNull(s) =>
              /\ RightsFrom(lar, s).flags = AccessOf(Descriptor(s))
              /\ (RightsFrom(lar, s).flags \div 256) % 16 = 0
              /\ (RightsFrom(lar, s).flags \div 128) % 2 = 1
              /\ (RightsFrom(lar, s).flags \div 16) % 2 = (IF k \in SystemKinds THEN 0 ELSE 1)
<1>1. PICK flags : flags = RightsFrom(lar, s).flags
  BY SMT
<1>2. RightsFrom(lar, s) = [flags |-> flags, unusable |-> s = 0]
  BY <1>1, SMT DEF RightsFrom
<1>3. CASE IsNull(s)
  <2>1. lar \div 256 = 0 \/ lar \div 256 = 65535
    BY <1>3, SMT DEF LarValues
  <2>2. flags = 0 \/ flags = 61695
    BY <1>1, <2>1, SMT DEF RightsFrom
  <2>3. flags \in Word
    BY <2>2, SMT DEF Word
  <2>4. QED
    BY <1>2, <1>3, <2>3, SMT
<1>4. CASE ~IsNull(s)
  <2>1. PICK d : d = Descriptor(s)
    BY SMT
  <2>2. IsEntry(d) /\ d.present = 1 /\ d.system = (IF k \in SystemKinds THEN 0 ELSE 1)
    BY <1>4, <2>1, LoadableDescriptor, SMT
  <2>3. lar \in {AccessOf(d) * 256, AccessOf(d) * 256 + 983040}
    BY <1>4, <2>1, SMT DEF LarValues
  <2>4. /\ flags = AccessOf(d) /\ flags \in Word
        /\ (flags \div 256) % 16 = 0
        /\ (flags \div 128) % 2 = d.present
        /\ (flags \div 16) % 2 = d.system
    BY <1>1, <2>2, <2>3, RightsOfLar, SMT
  <2>5. QED
    BY <1>1, <1>2, <1>4, <2>1, <2>2, <2>4, SMT
<1>5. QED
  BY <1>3, <1>4, SMT

\* What setup_guest() and setup_host() write are fields of their types.
LEMMA FieldsAreTyped ==
  ASSUME gdt \in Gdts, kind \in Kinds, sel \in Selectors, Loadable(kind, sel), cache \in Segment,
         NEW lar \in LarValues(sel), NEW lsl \in LslValues(sel)
  PROVE  /\ lsl \in Nat
         /\ SegmentBase \in Nat
         /\ RightsFrom(lar, sel) \in [flags : Word, unusable : BOOLEAN]
<1>1. lsl \in Nat
  <2>1. CASE IsNull(sel)
    BY <2>1, SMT DEF LslValues
  <2>2. CASE ~IsNull(sel)
    <3>1. IsEntry(Descriptor(sel))
      BY <2>2, LoadableDescriptor
    <3>2. ByteLimit(Descriptor(sel)) \in Nat
      BY <3>1, LimitIsNat
    <3>3. QED
      BY <2>2, <3>2, SMT DEF LslValues
  <2>3. QED
    BY <2>1, <2>2
<1>2. SegmentBase \in Nat
  BY GdtBase DEF SegmentBase, Segment
<1>3. RightsFrom(lar, sel) \in [flags : Word, unusable : BOOLEAN]
  BY RightsRead
<1>4. QED
  BY <1>1, <1>2, <1>3

-----------------------------------------------------------------------------
(* The invariant                                                              *)

\* What is loaded is what the selector says, whatever base FS and GS are given.
LEMMA LoadedIs ==
  ASSUME NEW k \in Kinds, NEW s \in Selectors, NEW base
  PROVE  /\ (HiddenPart(k, s, base).usable <=> ~IsNull(s))
         /\ [HiddenPart(k, s, 0) EXCEPT !.base = HiddenPart(k, s, base).base]
              = HiddenPart(k, s, base)
<1>1. PICK x, y : x = HiddenPart(k, s, 0) /\ y = HiddenPart(k, s, base)
  OBVIOUS
<1>2. (y.usable <=> ~IsNull(s)) /\ [x EXCEPT !.base = y.base] = y
  <2>1. CASE IsNull(s)
    <3>1. /\ x = [usable |-> FALSE, rights |-> 0, limit |-> 0, base |-> 0]
          /\ y = [usable |-> FALSE, rights |-> 0, limit |-> 0, base |-> base]
      BY <1>1, <2>1 DEF HiddenPart
    <3>2. ~y.usable
      BY <3>1
    <3>3. PICK none, zero :
            /\ x = [usable |-> none, rights |-> zero, limit |-> zero, base |-> zero]
            /\ y = [usable |-> none, rights |-> zero, limit |-> zero, base |-> base]
      BY <3>1
    <3>4. [x EXCEPT !.base = y.base] = y
      BY <3>3
    <3>5. QED
      BY <2>1, <3>2, <3>4
  <2>2. CASE ~IsNull(s)
    <3>1. PICK rights, limit, b :
            /\ x = [usable |-> TRUE, rights |-> rights, limit |-> limit, base |-> b]
            /\ y = [usable |-> TRUE, rights |-> rights, limit |-> limit, base |-> b]
      BY <1>1, <2>2 DEF HiddenPart
    <3>2. QED
      BY <2>2, <3>1
  <2>3. QED
    BY <2>1, <2>2
<1>3. QED
  BY <1>1, <1>2

\* The initial register is loaded.
LEMMA InitEstablishes == SegInit => SegInv
<1>1. SUFFICES ASSUME SegInit PROVE SegInv
  OBVIOUS
<1>2. /\ kind \in Kinds /\ gdt \in Gdts /\ sel \in Selectors /\ Loadable(kind, sel)
      /\ cache = HiddenPart(kind, sel, 0) /\ guest = NoSegment /\ host = 0 /\ at = "system"
  BY <1>1 DEF SegInit
<1>3. cache \in Segment
  BY <1>2, HiddenPartIsSegment
<1>4. SegTypeOK
  <2>1. 0 \in Word
    BY SMT DEF Word
  <2>2. NoSegment \in [selector : Selectors \cup {0}, limit : Nat, base : Nat,
                       rights : [flags : Word, unusable : BOOLEAN]]
    BY <2>1 DEF NoSegment
  <2>3. host \in {8 * i : i \in 0 .. 31}
    BY <1>2, SMT
  <2>4. QED
    BY <1>2, <1>3, <2>2, <2>3 DEF SegTypeOK
<1>5. Loaded
  <2>1. cache = [HiddenPart(kind, sel, 0) EXCEPT !.base = cache.base]
    BY <1>2, LoadedIs
  <2>2. QED
    BY <1>2, <1>3, <2>1 DEF Loaded, Segment
<1>6. QED
  BY <1>2, <1>4, <1>5 DEF SegInv

\* A selector is loaded, with the base FS and GS keep when there is no segment.
LEMMA LoadSelectorKeeps == SegInv /\ LoadSelector => SegInv'
<1>1. SUFFICES ASSUME SegInv, LoadSelector PROVE SegInv'
  OBVIOUS
<1>2. PICK s \in Selectors :
        /\ Loadable(kind, s) /\ sel' = s
        /\ cache' = HiddenPart(kind, s, IF kind \in MsrBased THEN cache.base ELSE 0)
  BY <1>1 DEF LoadSelector
<1>3. /\ at = "system" /\ kind' = kind /\ gdt' = gdt /\ guest' = guest /\ host' = host /\ at' = at
      /\ SegTypeOK /\ Loaded
  BY <1>1 DEF LoadSelector, SegInv
<1>4. PICK base \in Nat : base = (IF kind \in MsrBased THEN cache.base ELSE 0)
  BY <1>3 DEF Loaded
<1>5. cache' = HiddenPart(kind, s, base) /\ cache' \in Segment
  BY <1>2, <1>3, <1>4, HiddenPartIsSegment DEF SegTypeOK
<1>6. SegTypeOK'
  BY <1>2, <1>3, <1>5 DEF SegTypeOK
<1>7. Loaded'
  <2>1. Loadable(kind, s)' = Loadable(kind, s)
    BY <1>3 DEF Loadable, Descriptor
  <2>2. HiddenPart(kind, s, 0)' = HiddenPart(kind, s, 0)
    BY <1>3 DEF HiddenPart, Descriptor
  <2>3. kind \notin MsrBased => cache'.base = HiddenPart(kind, s, 0).base
    BY <1>2
  <2>4. cache' = [HiddenPart(kind, s, 0) EXCEPT !.base = cache'.base]
    BY <1>3, <1>5, LoadedIs DEF SegTypeOK
  <2>5. cache'.base \in Nat
    BY <1>5 DEF Segment
  <2>6. QED
    BY <1>2, <1>3, <2>1, <2>2, <2>3, <2>4, <2>5 DEF Loaded
<1>8. QED
  BY <1>3, <1>6, <1>7 DEF SegInv

\* WRMSR gives FS or GS another base.
LEMMA WriteBaseMsrKeeps == SegInv /\ WriteBaseMsr => SegInv'
<1>1. SUFFICES ASSUME SegInv, WriteBaseMsr PROVE SegInv'
  OBVIOUS
<1>2. PICK b \in Bases : cache' = [cache EXCEPT !.base = b]
  BY <1>1 DEF WriteBaseMsr
<1>3. /\ at = "system" /\ kind \in MsrBased /\ kind' = kind /\ gdt' = gdt /\ sel' = sel
      /\ guest' = guest /\ host' = host /\ at' = at
      /\ SegTypeOK /\ Loaded /\ b \in Nat
  BY <1>1, SegAssumption DEF WriteBaseMsr, SegInv
<1>4. cache' \in Segment /\ cache'.base = b
  BY <1>2, <1>3 DEF SegTypeOK, Segment
<1>5. SegTypeOK'
  BY <1>3, <1>4 DEF SegTypeOK
<1>6. Loaded'
  <2>1. Loadable(kind, sel)' = Loadable(kind, sel)
    BY <1>3 DEF Loadable, Descriptor
  <2>2. HiddenPart(kind, sel, 0)' = HiddenPart(kind, sel, 0)
    BY <1>3 DEF HiddenPart, Descriptor
  <2>3. PICK r : r = HiddenPart(kind, sel, 0)
    OBVIOUS
  <2>4. cache = [r EXCEPT !.base = cache.base]
    BY <1>3, <2>3 DEF Loaded
  <2>5. cache' = [r EXCEPT !.base = b]
    BY <1>2, <2>4
  <2>6. QED
    BY <1>3, <1>4, <2>1, <2>2, <2>3, <2>5 DEF Loaded
<1>7. QED
  BY <1>3, <1>5, <1>6 DEF SegInv

\* setup_guest() and setup_host() write the fields.
LEMMA SetupSegmentKeeps == SegInv /\ SetupSegment => SegInv'
<1>1. SUFFICES ASSUME SegInv, SetupSegment PROVE SegInv'
  OBVIOUS
<1>2. PICK lar \in LarValues(sel), lsl \in LslValues(sel) :
        guest' = [selector |-> sel, limit |-> lsl, rights |-> RightsFrom(lar, sel),
                  base |-> SegmentBase]
  BY <1>1 DEF SetupSegment
<1>3. /\ host' = (IF kind = "ldtr" THEN 0 ELSE HostSelector(sel)) /\ at' = "setup"
      /\ kind' = kind /\ gdt' = gdt /\ sel' = sel /\ cache' = cache
      /\ SegTypeOK /\ Loaded
  BY <1>1 DEF SetupSegment, SegInv
<1>4. /\ lsl \in Nat /\ SegmentBase \in Nat
      /\ RightsFrom(lar, sel) \in [flags : Word, unusable : BOOLEAN]
  BY <1>3, FieldsAreTyped DEF SegTypeOK, Loaded
<1>5. SegTypeOK'
  <2>1. guest' \in [selector : Selectors \cup {0}, limit : Nat, base : Nat,
                    rights : [flags : Word, unusable : BOOLEAN]]
    BY <1>2, <1>3, <1>4 DEF SegTypeOK
  <2>2. 0 \in {8 * i : i \in 0 .. 31}
    BY SMT
  <2>3. host' \in {8 * i : i \in 0 .. 31}
    BY <1>3, <2>2, HostSelectorParts DEF SegTypeOK
  <2>4. QED
    BY <1>3, <2>1, <2>3 DEF SegTypeOK
<1>6. Loaded'
  <2>1. Loadable(kind, sel)' = Loadable(kind, sel)
    BY <1>3 DEF Loadable, Descriptor
  <2>2. HiddenPart(kind, sel, 0)' = HiddenPart(kind, sel, 0)
    BY <1>3 DEF HiddenPart, Descriptor
  <2>3. QED
    BY <1>3, <2>1, <2>2 DEF Loaded
<1>7. FieldsRead'
  <2>1. LslValues(sel)' = LslValues(sel) /\ LarValues(sel)' = LarValues(sel)
    BY <1>3 DEF LslValues, LarValues, Descriptor
  <2>2. SegmentBase' = SegmentBase
    BY <1>3 DEF SegmentBase
  <2>3. /\ guest'.selector = sel /\ guest'.limit = lsl
        /\ guest'.rights = RightsFrom(lar, sel) /\ guest'.base = SegmentBase
    BY <1>2
  <2>4. lsl \in LslValues(sel)' /\ lar \in LarValues(sel)'
    BY <2>1
  <2>5. QED
    BY <1>3, <2>2, <2>3, <2>4 DEF FieldsRead
<1>8. QED
  BY <1>3, <1>5, <1>6, <1>7 DEF SegInv

\* What the two states say of a register once setup is done: a register is unusable in the
\* guest exactly for the selector 0, and its rights are its descriptor's.
LEMMA WhatEntryFinds ==
  ASSUME SegTypeOK, Loaded, FieldsRead
  PROVE  /\ guest.rights.unusable <=> sel = 0
         /\ ~IsNull(sel) =>
              /\ guest.rights.flags = AccessOf(Descriptor(sel))
              /\ (guest.rights.flags \div 256) % 16 = 0
              /\ (guest.rights.flags \div 128) % 2 = 1
              /\ (guest.rights.flags \div 16) % 2 = (IF kind \in SystemKinds THEN 0 ELSE 1)
<1>1. PICK lar \in LarValues(sel) : guest.rights = RightsFrom(lar, sel)
  BY DEF FieldsRead
<1>2. gdt \in Gdts /\ kind \in Kinds /\ sel \in Selectors /\ Loadable(kind, sel)
  BY DEF SegTypeOK, Loaded
<1>3. QED
  BY <1>1, <1>2, RightsRead

\* A base read from the GDT fits what VM entry takes, unless it is a stray one.
LEMMA BaseTaken ==
  ASSUME SegTypeOK, Loaded, FieldsRead, ~IsNull(sel), ~StrayBase,
         kind \in {"es", "cs", "ss", "ds"}
  PROVE  guest.base < Radix * Radix * Radix * Radix
<1>1. /\ gdt \in Gdts /\ sel \in Selectors /\ Loadable(kind, sel)
      /\ kind \in Kinds /\ kind \notin MsrBased /\ kind \notin SystemKinds
      /\ guest.base = BaseOf(gdt, Index(sel))
  BY DEF SegTypeOK, Loaded, FieldsRead, SegmentBase, MsrBased, SystemKinds, Kinds
<1>2. IsEntry(gdt[Index(sel)]) /\ IsEntry(gdt[Index(sel) + 1])
  BY <1>1, SegAssumption DEF Index
<1>3. /\ Base32(gdt[Index(sel)]) \in Nat
      /\ Base32(gdt[Index(sel)]) < Radix * Radix * Radix * Radix
  BY <1>2, BaseFits
<1>4. guest.base = Base32(gdt[Index(sel)]) + 0
  <2>1. CASE gdt[Index(sel)].system # 0
    BY <1>1, <2>1 DEF BaseOf
  <2>2. CASE gdt[Index(sel)].system = 0
    <3>1. Ti(sel) = 1
      <4>1. ASSUME Ti(sel) # 1 PROVE FALSE
        <5>1. Descriptor(sel) = gdt[Index(sel)]
          BY <4>1 DEF Descriptor
        <5>2. Descriptor(sel).system = 1
          BY <1>1, LoadableDescriptor
        <5>3. QED
          BY <2>2, <5>1, <5>2
      <4>2. QED
        BY <4>1
    <3>2. kind \in {"ds", "es"}
      BY <1>1, <3>1 DEF Loadable
    <3>3. LowDword(gdt[Index(sel) + 1]) = 0
      BY <2>2, <3>1, <3>2 DEF StrayBase
    <3>4. QED
      BY <1>1, <1>2, <2>2, <3>3, UpperHalf DEF BaseOf
  <2>3. QED
    BY <2>1, <2>2
<1>5. QED
  BY <1>3, <1>4

\* VM entry takes both states, unless the selector is an odd null selector, the base a
\* stray one or the index one that 0xf8 cuts.
LEMMA EntryTakes ==
  ASSUME SegTypeOK, Loaded, FieldsRead, ~OddNull(sel), ~StrayBase, Index(sel) < 32
  PROVE  GuestAccepted /\ HostAccepted
<1>1. /\ kind \in Kinds /\ sel \in Selectors /\ Loadable(kind, sel)
      /\ host = IF kind = "ldtr" THEN 0 ELSE HostSelector(sel)
  BY DEF SegTypeOK, Loaded, FieldsRead
<1>2. IsNull(sel) <=> sel = 0
  BY <1>1, NullSelectors
<1>3. GuestAccepted
  <2>1. CASE IsNull(sel)
    <3>1. kind \notin {"cs", "tr"}
      BY <1>1, <2>1 DEF Loadable
    <3>2. QED
      BY <1>2, <2>1, <3>1, WhatEntryFinds DEF GuestAccepted
  <2>2. CASE ~IsNull(sel)
    BY <1>2, <2>2, WhatEntryFinds, BaseTaken DEF GuestAccepted
  <2>3. QED
    BY <2>1, <2>2
<1>4. HostAccepted
  <2>1. Rpl(0) = 0 /\ Ti(0) = 0
    BY DEF Rpl, Ti
  <2>2. Rpl(host) = 0 /\ Ti(host) = 0
    BY <1>1, <2>1, HostSelectorParts
  <2>3. ASSUME kind \in {"cs", "tr"} PROVE host # 0
    <3>1. ~IsNull(sel) /\ Ti(sel) = 0
      BY <1>1, <2>3 DEF Loadable
    <3>2. Index(sel) # 0
      BY <3>1 DEF IsNull
    <3>3. Index(host) = Index(sel)
      BY <1>1, <2>3, HostSelectorParts
    <3>4. QED
      BY <1>1, <3>2, <3>3, NullSelectors
  <2>4. QED
    BY <2>2, <2>3 DEF HostAccepted
<1>5. QED
  BY <1>3, <1>4

\* VM entry loads the guest's registers, or refuses.
LEMMA EnterGuestKeeps == SegInv /\ EnterGuest => SegInv'
<1>1. SUFFICES ASSUME SegInv, EnterGuest PROVE SegInv'
  OBVIOUS
<1>2. /\ at = "setup" /\ kind' = kind /\ gdt' = gdt /\ guest' = guest /\ host' = host
      /\ SegTypeOK /\ Loaded /\ FieldsRead
  BY <1>1 DEF EnterGuest, SegInv
<1>3. guest.selector = sel /\ host = (IF kind = "ldtr" THEN 0 ELSE HostSelector(sel))
  BY <1>2 DEF FieldsRead
<1>4. CASE GuestAccepted /\ HostAccepted
  <2>1. /\ sel' = sel /\ at' = "guest"
        /\ cache' = [usable |-> ~guest.rights.unusable, rights |-> guest.rights.flags,
                     limit |-> guest.limit, base |-> guest.base]
    BY <1>1, <1>3, <1>4 DEF EnterGuest
  <2>2. /\ guest.rights.unusable \in BOOLEAN /\ guest.rights.flags \in Word
        /\ guest.limit \in Nat /\ guest.base \in Nat
    BY <1>2 DEF SegTypeOK
  <2>3. cache' \in Segment
    BY <2>1, <2>2 DEF Segment
  <2>4. SegTypeOK'
    BY <1>2, <2>1, <2>3 DEF SegTypeOK
  <2>5. QED
    BY <1>2, <1>3, <2>1, <2>4 DEF SegInv
<1>5. CASE ~(GuestAccepted /\ HostAccepted)
  <2>1. at' = "refused" /\ sel' = sel /\ cache' = cache
    BY <1>1, <1>5 DEF EnterGuest
  <2>2. SegTypeOK'
    BY <1>2, <2>1 DEF SegTypeOK
  <2>3. OddNull(sel) \/ StrayBase \/ ~(Index(sel) < 32)
    BY <1>2, <1>5, EntryTakes
  <2>4. OddNull(sel) \/ StrayBase \/ Index(sel) >= 32
    BY <1>2, <2>3, HostSelectorParts DEF SegTypeOK
  <2>5. StrayBase' = StrayBase /\ OddNull(sel)' = OddNull(sel)
    BY <1>2, <2>1 DEF StrayBase, OddNull
  <2>6. QED
    BY <2>1, <2>2, <2>4, <2>5 DEF SegInv
<1>6. QED
  BY <1>4, <1>5

-----------------------------------------------------------------------------
(* The theorems                                                               *)

\* The invariant of read<segment_t>, setup_guest() and setup_host(): the fields are what
\* they read of a register that holds what its selector loads.
THEOREM SegInvariance == SegSpec => []SegInv
<1>1. SegInv /\ [SegNext]_segVars => SegInv'
  <2>1. SUFFICES ASSUME SegInv, [SegNext]_segVars PROVE SegInv'
    OBVIOUS
  <2>2. CASE UNCHANGED segVars
    <3>1. /\ kind' = kind /\ gdt' = gdt /\ sel' = sel /\ cache' = cache /\ guest' = guest
          /\ host' = host /\ at' = at
      BY <2>2 DEF segVars
    <3>2. SegTypeOK' = SegTypeOK
      BY <3>1 DEF SegTypeOK
    <3>3. Loaded' = Loaded
      BY <3>1 DEF Loaded, Loadable, HiddenPart, Descriptor
    <3>4. FieldsRead' = FieldsRead
      BY <3>1 DEF FieldsRead, LslValues, LarValues, Descriptor, SegmentBase
    <3>5. StrayBase' = StrayBase
      BY <3>1 DEF StrayBase
    <3>6. QED
      BY <2>1, <3>1, <3>2, <3>3, <3>4, <3>5 DEF SegInv
  <2>3. CASE SegNext
    BY <2>1, <2>3, LoadSelectorKeeps, WriteBaseMsrKeeps, SetupSegmentKeeps, EnterGuestKeeps
       DEF SegNext
  <2>4. QED
    BY <2>1, <2>2, <2>3
<1>2. QED
  BY <1>1, InitEstablishes, PTL DEF SegSpec

\* Every field written to the VMCS has the width of its type, whatever the tables hold.
THEOREM SegTypeCorrect == SegSpec => []SegTypeOK
<1>1. SegInv => SegTypeOK
  BY DEF SegInv
<1>2. QED
  BY <1>1, SegInvariance, PTL

\* With a GDT of at most 32 entries, VM entry refuses the states setup_guest() and
\* setup_host() make of a register only where it is a null selector with an RPL, or DS or
\* ES loaded from the LDT while the GDT has no code or data segment at that index; and the
\* host runs on the descriptors the system was using.
THEOREM EntryAcceptsSegmentsHolds ==
  ASSUME TableOf32
  PROVE  SegSpec => []EntryAcceptsSegments
<1>1. SegInv => EntryAcceptsSegments
  <2>1. SUFFICES ASSUME SegInv PROVE EntryAcceptsSegments
    OBVIOUS
  <2>2. sel \in Selectors
    BY <2>1 DEF SegInv, SegTypeOK
  <2>3. Index(sel) \in Nat /\ Index(sel) < 32
    BY <2>2, HostSelectorParts, TableOf32 DEF TableOf32
  <2>4. ~(Index(sel) >= 32)
    BY <2>3
  <2>5. kind # "ldtr" /\ at = "guest" => Index(host) = Index(sel)
    BY <2>1, <2>2, <2>3, HostSelectorParts DEF SegInv
  <2>6. QED
    BY <2>1, <2>4, <2>5 DEF SegInv, EntryAcceptsSegments
<1>2. QED
  BY <1>1, SegInvariance, PTL

\* The register the guest gets is the one the processor had loaded, whatever the tables, the
\* selector and the base: no claim is made of null selectors with an RPL, nor of the base of
\* DS and ES from the LDT.
THEOREM GuestSegmentsMatchHolds == SegSpec => GuestSegmentsMatch
<1>1. SegInv /\ EnterGuest /\ at' = "guest" /\ ~OddNull(sel)
        => /\ SameRights(cache', cache)
           /\ Ti(sel) = 0 \/ kind \in MsrBased => SameBase(kind, cache', cache)
  <2>1. SUFFICES ASSUME SegInv, EnterGuest, at' = "guest", ~OddNull(sel)
                 PROVE  /\ SameRights(cache', cache)
                        /\ Ti(sel) = 0 \/ kind \in MsrBased => SameBase(kind, cache', cache)
    OBVIOUS
  <2>2. SegTypeOK /\ Loaded /\ FieldsRead
    BY <2>1 DEF SegInv, EnterGuest
  <2>3. /\ gdt \in Gdts /\ sel \in Selectors /\ kind \in Kinds /\ cache.usable \in BOOLEAN
        /\ guest.rights.unusable \in BOOLEAN /\ Loadable(kind, sel)
    BY <2>2 DEF SegTypeOK, Segment, Loaded
  <2>4. cache' = [usable |-> ~guest.rights.unusable, rights |-> guest.rights.flags,
                  limit |-> guest.limit, base |-> guest.base]
    BY <2>1 DEF EnterGuest
  <2>5. IsNull(sel) <=> sel = 0
    BY <2>1, <2>3, NullSelectors
  <2>6. PICK h : /\ h = HiddenPart(kind, sel, 0) /\ cache = [h EXCEPT !.base = cache.base]
                 /\ kind \notin MsrBased => cache.base = h.base
    BY <2>2 DEF Loaded
  <2>7. guest.base = SegmentBase /\ guest.limit \in LslValues(sel)
    BY <2>2 DEF FieldsRead
  <2>8. CASE IsNull(sel)
    <3>1. h = [usable |-> FALSE, rights |-> 0, limit |-> 0, base |-> 0]
      BY <2>6, <2>8 DEF HiddenPart
    <3>2. cache.usable = FALSE
      BY <2>6, <3>1
    <3>3. guest.rights.unusable
      BY <2>2, <2>5, <2>8, WhatEntryFinds
    <3>4. cache'.usable = FALSE /\ cache'.base = guest.base
      BY <2>4, <3>3
    <3>5. kind \in MsrBased => guest.base = cache.base
      BY <2>7 DEF SegmentBase
    <3>6. QED
      BY <3>2, <3>4, <3>5 DEF SameRights, SameBase
  <2>9. CASE ~IsNull(sel)
    <3>1. h = [usable |-> TRUE, rights |-> AccessOf(Descriptor(sel)),
               limit |-> ByteLimit(Descriptor(sel)),
               base |-> ProcessorBase(kind, IF Ti(sel) = 1 THEN Ldt ELSE gdt, Index(sel))]
      BY <2>6, <2>9 DEF HiddenPart
    <3>2. /\ cache.usable = TRUE /\ cache.rights = AccessOf(Descriptor(sel))
          /\ cache.limit = ByteLimit(Descriptor(sel))
      BY <2>6, <3>1
    <3>3. ~guest.rights.unusable /\ guest.rights.flags = AccessOf(Descriptor(sel))
      BY <2>2, <2>5, <2>9, WhatEntryFinds
    <3>4. guest.limit = ByteLimit(Descriptor(sel))
      BY <2>7, <2>9 DEF LslValues
    <3>5. /\ cache'.usable = TRUE /\ cache'.rights = guest.rights.flags
          /\ cache'.limit = guest.limit /\ cache'.base = guest.base
      BY <2>4, <3>3
    <3>6. SameRights(cache', cache)
      BY <3>2, <3>3, <3>4, <3>5 DEF SameRights
    <3>7. ASSUME Ti(sel) = 0 \/ kind \in MsrBased PROVE guest.base = cache.base
      <4>1. CASE kind \in MsrBased
        BY <2>7, <4>1 DEF SegmentBase
      <4>2. CASE kind \notin MsrBased
        <5>1. Ti(sel) = 0
          BY <3>7, <4>2
        <5>2. h.base = ProcessorBase(kind, gdt, Index(sel))
          BY <3>1, <5>1
        <5>3. h.base = BaseOf(gdt, Index(sel))
          BY <2>3, <2>9, <5>1, <5>2, LoadableDescriptor
        <5>4. guest.base = BaseOf(gdt, Index(sel))
          BY <2>7, <4>2 DEF SegmentBase
        <5>5. QED
          BY <2>6, <4>2, <5>3, <5>4
      <4>3. QED
        BY <4>1, <4>2
    <3>8. QED
      BY <3>5, <3>6, <3>7 DEF SameBase
  <2>10. QED
    BY <2>8, <2>9
<1>2. QED
  BY <1>1, SegInvariance, PTL DEF SegSpec, GuestSegmentsMatch

=============================================================================
