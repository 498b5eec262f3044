------------------------------ MODULE EptProofs ------------------------------
(***************************************************************************)
(* Theorems about the EPT for tables of any size and whatever the memory    *)
(* type range registers hold.                                              *)
(***************************************************************************)
EXTENDS Ept, WellFoundedInduction, TLAPS

-----------------------------------------------------------------------------
(* The look-up of a memory type                                               *)

\* A set of natural numbers that is not empty has a least one.
LEMMA LeastExists ==
  ASSUME NEW S \in SUBSET Nat, S # {}
  PROVE  \E x \in S : \A y \in S : x <= y
<1>1. PICK x \in S : \A y \in S : ~ (<<y, x>> \in OpToRel(<, Nat))
  BY NatLessThanWellFounded, WFMin
<1>2. \A y \in S : ~ (y < x)
  BY <1>1 DEF OpToRel
<1>3. QED
  BY <1>2

\* One with a bound has a greatest one.
LEMMA GreatestExists ==
  ASSUME NEW S \in SUBSET Nat, S # {}, NEW bound \in Nat, \A x \in S : x <= bound
  PROVE  Max(S) \in S /\ \A y \in S : Max(S) >= y
<1> DEFINE T == {bound - x : x \in S}
<1>1. T \in SUBSET Nat /\ T # {}
  <2>1. PICK x \in S : TRUE
    OBVIOUS
  <2>2. bound - x \in T
    OBVIOUS
  <2>3. \A y \in S : bound - y \in Nat
    OBVIOUS
  <2>4. QED
    BY <2>2, <2>3
<1> HIDE DEF T
<1>2. PICK t \in T : \A u \in T : t <= u
  BY <1>1, LeastExists
<1>3. PICK x \in S : t = bound - x
  BY <1>2 DEF T
<1>4. \A y \in S : x >= y
  <2> TAKE y \in S
  <2>1. bound - y \in T
    BY DEF T
  <2>2. QED
    BY <1>2, <1>3, <2>1
<1>5. QED
  BY <1>3, <1>4 DEF Max

\* Of the ranges that are hit, one is taken, and it is one of those hit.
LEMMA LastHitIsHit ==
  ASSUME NEW ranges, NEW default, NEW bound \in Nat, NEW hits \in SUBSET Nat,
         \A n \in hits : n <= bound, hits # {}
  PROVE  \E n \in hits : LastHit(ranges, hits, default) = ranges[n].type
<1> DEFINE taken == {n \in hits : \A m \in hits : m < n => ranges[m].type # "uncachable"}
<1>0. taken \subseteq hits
  OBVIOUS
<1>1. taken # {}
  <2>1. PICK n \in hits : \A m \in hits : n <= m
    BY <1>0, LeastExists
  <2>2. n \in taken
    BY <1>0, <2>1
  <2>3. QED
    BY <2>2
<1>2. Max(taken) \in taken
  <2> HIDE DEF taken
  <2>1. QED
    BY <1>0, <1>1, GreatestExists
<1>3. LastHit(ranges, hits, default) = ranges[Max(taken)].type
  BY <1>1 DEF LastHit
<1>4. QED
  BY <1>2, <1>3

\* One that is hit and uncachable decides: the loop ends with the first such.
LEMMA UncachableHitWins ==
  ASSUME NEW ranges, NEW default, NEW bound \in Nat, NEW hits \in SUBSET Nat,
         \A k \in hits : k <= bound, NEW n \in hits, ranges[n].type = "uncachable"
  PROVE  LastHit(ranges, hits, default) = "uncachable"
<1> DEFINE taken == {k \in hits : \A m \in hits : m < k => ranges[m].type # "uncachable"}
           stops == {k \in hits : ranges[k].type = "uncachable"}
<1>0. taken \subseteq hits /\ stops \subseteq hits /\ n \in stops
  OBVIOUS
<1>1. PICK first \in stops : \A k \in stops : first <= k
  <2> HIDE DEF stops
  <2>1. QED
    BY <1>0, LeastExists
<1>2. first \in taken /\ \A k \in taken : k <= first
  BY <1>0, <1>1
<1>3. Max(taken) \in taken /\ \A k \in taken : Max(taken) >= k
  <2> HIDE DEF taken
  <2>1. QED
    BY <1>0, <1>2, GreatestExists
<1>4. Max(taken) = first
  <2> HIDE DEF taken
  <2>1. PICK n1 \in Nat : n1 = Max(taken)
    BY <1>0, <1>3
  <2>2. n1 <= first /\ n1 >= first /\ first \in Nat
    BY <1>0, <1>2, <1>3, <2>1
  <2>3. QED
    BY <2>1, <2>2
<1>5. QED
  BY <1>1, <1>2, <1>4 DEF LastHit

-----------------------------------------------------------------------------
(* Sequences of registers, and pages of a large page                          *)

\* An element of a sequence is what the sequence is of.
LEMMA ElementOf ==
  ASSUME NEW S, NEW q \in Seq(S), NEW i \in DOMAIN q
  PROVE  q[i] \in S /\ i \in 1 .. Len(q)
OBVIOUS

\* A fixed register and a pair have numbers in their fields.
LEMMA RegisterFields ==
  /\ \A r \in 1 .. Len(FixedRegisters) :
       FixedRegisters[r].base \in Nat /\ FixedRegisters[r].size \in Nat
  /\ \A ps \in PairChoices : \A v \in DOMAIN ps :
       /\ v \in 1 .. Len(ps)
       /\ ps[v].type \in MemoryTypes /\ ps[v].pfn \in Nat /\ ps[v].mask \in Nat
<1> DEFINE R == [base : Nat, size : Nat]
           P == [valid : BOOLEAN, type : MemoryTypes, pfn : Nat, mask : Nat]
<1>1. ASSUME NEW x \in R PROVE x.base \in Nat /\ x.size \in Nat
  OBVIOUS
<1>2. ASSUME NEW x \in P PROVE x.type \in MemoryTypes /\ x.pfn \in Nat /\ x.mask \in Nat
  OBVIOUS
<1>3. FixedRegisters \in Seq(R) /\ PairChoices \subseteq Seq(P)
  BY MtrrAssumption, EptAssumption
<1> HIDE DEF R, P
<1>4. ASSUME NEW r \in 1 .. Len(FixedRegisters) PROVE FixedRegisters[r] \in R
  BY <1>3
<1>5. ASSUME NEW ps \in PairChoices, NEW v \in DOMAIN ps PROVE ps[v] \in P /\ v \in 1 .. Len(ps)
  BY <1>3, ElementOf
<1>6. QED
  BY <1>1, <1>2, <1>4, <1>5

\* The pages of a large page.
LEMMA PagesOfLarge ==
  ASSUME NEW g \in Nat, NEW page \in g * LargePage .. (g + 1) * LargePage - 1
  PROVE  /\ g * LargePage \in Nat /\ page \in Nat
         /\ g * LargePage <= page /\ page <= g * LargePage + LargePage - 1
<1>1. g * LargePage \in Nat /\ (g + 1) * LargePage = g * LargePage + LargePage
  BY MtrrAssumption
<1>2. QED
  BY <1>1, MtrrAssumption

-----------------------------------------------------------------------------
(* The ranges                                                                 *)

\* What a fixed register and one of its ranges are called in the descriptor.
PositionOf(r, n) == (r - 1) * PerRegister + n

\* The position of a range tells its register and its number there.
LEMMA FixedPositions ==
  /\ FixedCount \in Nat
  /\ \A k \in 1 .. FixedCount :
       /\ ((k - 1) \div PerRegister) + 1 \in 1 .. Len(FixedRegisters)
       /\ ((k - 1) % PerRegister) + 1 \in 1 .. PerRegister
  /\ \A r \in 1 .. Len(FixedRegisters), n \in 1 .. PerRegister :
       /\ PositionOf(r, n) \in 1 .. FixedCount
       /\ ((PositionOf(r, n) - 1) \div PerRegister) + 1 = r
       /\ ((PositionOf(r, n) - 1) % PerRegister) + 1 = n
<1> DEFINE P == PerRegister
           L == Len(FixedRegisters)
<1>1. P \in Nat \ {0} /\ L \in Nat
  BY MtrrAssumption
<1> HIDE DEF P, L
<1>2. P * L \in Nat
  BY <1>1
<1>3. ASSUME NEW k \in 1 .. P * L
      PROVE  ((k - 1) \div P) + 1 \in 1 .. L /\ ((k - 1) % P) + 1 \in 1 .. P
  <2>1. k - 1 \in Nat /\ k - 1 < P * L
    BY <1>1, <1>2
  <2>2. /\ (k - 1) \div P \in Nat
        /\ (k - 1) % P \in 0 .. P - 1
        /\ k - 1 = P * ((k - 1) \div P) + ((k - 1) % P)
    BY <1>1, <2>1
  <2>3. (k - 1) \div P < L
    BY <1>1, <2>1, <2>2
  <2>4. QED
    BY <1>1, <2>2, <2>3
<1>4. ASSUME NEW r \in 1 .. L, NEW n \in 1 .. P, NEW k, k = (r - 1) * P + n
      PROVE  k \in 1 .. P * L /\ ((k - 1) \div P) + 1 = r /\ ((k - 1) % P) + 1 = n
  <2>1. (r - 1) * P \in Nat /\ (r - 1) * P + P <= P * L
    BY <1>1
  <2>2. k \in 1 .. P * L
    BY <1>1, <1>2, <1>4, <2>1
  <2>3. ((r - 1) * P + (n - 1)) \div P = r - 1 /\ ((r - 1) * P + (n - 1)) % P = n - 1
    BY <1>1
  <2>4. k - 1 = (r - 1) * P + (n - 1)
    BY <1>1, <1>4, <2>1
  <2>5. (k - 1) \div P = r - 1 /\ (k - 1) % P = n - 1
    BY <2>3, <2>4
  <2>6. QED
    BY <1>1, <2>2, <2>5
<1>5. P = PerRegister /\ L = Len(FixedRegisters) /\ FixedCount = P * L
  BY DEF P, L, FixedCount
<1>6. \A r, n : PositionOf(r, n) = (r - 1) * P + n
  BY <1>5 DEF PositionOf
<1>7. FixedCount \in Nat
  BY <1>2, <1>5
<1>8. ASSUME NEW k \in 1 .. FixedCount
      PROVE  /\ ((k - 1) \div PerRegister) + 1 \in 1 .. Len(FixedRegisters)
             /\ ((k - 1) % PerRegister) + 1 \in 1 .. PerRegister
  BY <1>3, <1>5
<1>9. ASSUME NEW r \in 1 .. Len(FixedRegisters), NEW n \in 1 .. PerRegister
      PROVE  /\ PositionOf(r, n) \in 1 .. FixedCount
             /\ ((PositionOf(r, n) - 1) \div PerRegister) + 1 = r
             /\ ((PositionOf(r, n) - 1) % PerRegister) + 1 = n
  <2>1. r \in 1 .. L /\ n \in 1 .. P
    BY <1>5
  <2>2. PICK k : k = PositionOf(r, n)
    OBVIOUS
  <2>3. k \in 1 .. P * L /\ ((k - 1) \div P) + 1 = r /\ ((k - 1) % P) + 1 = n
    BY <1>4, <1>6, <2>1, <2>2
  <2>4. QED
    BY <1>5, <2>2, <2>3
<1>10. QED
  BY <1>7, <1>8, <1>9

\* The positions of the descriptor are numbers with a bound, and every range has a type
\* of the enum.
LEMMA DescriptorShape ==
  ASSUME NEW types \in FixedTypes, NEW ps \in PairChoices
  PROVE  LET ranges == MtrrDescriptor(types, ps)
         IN  /\ DOMAIN ranges \in SUBSET Nat
             /\ FixedCount + Len(ps) \in Nat
             /\ \A k \in DOMAIN ranges :
                  k <= FixedCount + Len(ps) /\ ranges[k].type \in MemoryTypes
<1> DEFINE ranges == MtrrDescriptor(types, ps)
           valid == {FixedCount + v : v \in {w \in DOMAIN ps : ps[w].valid}}
<1>1. /\ ps \in Seq([valid : BOOLEAN, type : MemoryTypes, pfn : Nat, mask : Nat])
      /\ types \in [1 .. Len(FixedRegisters) -> [1 .. PerRegister -> MemoryTypes]]
  BY EptAssumption
<1>2. DOMAIN ps = 1 .. Len(ps) /\ Len(ps) \in Nat /\ FixedCount \in Nat
  BY <1>1, FixedPositions
<1>3. DOMAIN ranges = (1 .. FixedCount) \cup valid
  BY DEF MtrrDescriptor
<1>4. \A k \in DOMAIN ranges : k \in Nat /\ k <= FixedCount + Len(ps)
  BY <1>2, <1>3
<1>5. ASSUME NEW k \in DOMAIN ranges PROVE ranges[k].type \in MemoryTypes
  <2>1. CASE k <= FixedCount
    <3>1. k \in 1 .. FixedCount
      BY <1>2, <1>3, <1>4, <2>1
    <3>2. PICK r \in 1 .. Len(FixedRegisters), n \in 1 .. PerRegister :
            r = ((k - 1) \div PerRegister) + 1 /\ n = ((k - 1) % PerRegister) + 1
      BY <3>1, FixedPositions
    <3>3. ranges[k] = FixedRange(FixedRegisters[r], n, types[r][n])
      BY <1>3, <2>1, <3>2 DEF MtrrDescriptor, FixedRangeAt
    <3>4. ranges[k].type = types[r][n]
      <4> HIDE DEF ranges
      <4>1. QED
        BY <3>3 DEF FixedRange
    <3>5. types[r][n] \in MemoryTypes
      BY <1>1
    <3>6. QED
      BY <3>4, <3>5
  <2>2. CASE ~(k <= FixedCount)
    <3>1. PICK v \in 1 .. Len(ps) : k = FixedCount + v
      BY <1>2, <1>3, <1>4, <2>2
    <3>2. ranges[k] = VariableRange(ps[v])
      BY <1>2, <1>3, <2>2, <3>1 DEF MtrrDescriptor
    <3>3. ranges[k].type = ps[v].type
      <4> HIDE DEF ranges
      <4>1. QED
        BY <3>2 DEF VariableRange
    <3>4. ps[v].type \in MemoryTypes
      BY <1>2, RegisterFields
    <3>5. QED
      BY <3>3, <3>4
  <2>3. QED
    BY <2>1, <2>2
<1>6. QED
  BY <1>2, <1>4, <1>5

\* get_type_or() answers with a type of the enum.
LEMMA GetTypeOrIsType ==
  ASSUME NEW types \in FixedTypes, NEW ps \in PairChoices, NEW pa
  PROVE  GetTypeOr(MtrrDescriptor(types, ps), pa, "write_back") \in MemoryTypes
<1> DEFINE ranges == MtrrDescriptor(types, ps)
           hits == {n \in DOMAIN ranges : Touches(pa, ranges[n])}
<1>1. /\ hits \subseteq DOMAIN ranges
      /\ GetTypeOr(ranges, pa, "write_back") = LastHit(ranges, hits, "write_back")
  BY DEF GetTypeOr
<1> HIDE DEF hits
<1>2. CASE hits = {}
  BY <1>1, <1>2 DEF LastHit, MemoryTypes
<1>3. CASE hits # {}
  <2>1. /\ DOMAIN ranges \in SUBSET Nat /\ FixedCount + Len(ps) \in Nat
        /\ \A k \in DOMAIN ranges : k <= FixedCount + Len(ps) /\ ranges[k].type \in MemoryTypes
    BY DescriptorShape
  <2> HIDE DEF ranges
  <2>2. hits \in SUBSET Nat /\ \A n \in hits : n <= FixedCount + Len(ps)
    BY <1>1, <2>1
  <2>3. \E n \in hits : LastHit(ranges, hits, "write_back") = ranges[n].type
    BY <1>3, <2>1, <2>2, LastHitIsHit
  <2>4. QED
    BY <1>1, <2>1, <2>3 DEF ranges
<1>4. QED
  BY <1>2, <1>3

\* A range that is uncachable and that a large page touches decides the page's type.
LEMMA UncachableIsFound ==
  ASSUME NEW types \in FixedTypes, NEW ps \in PairChoices, NEW pa,
         NEW k \in DOMAIN MtrrDescriptor(types, ps),
         Touches(pa, MtrrDescriptor(types, ps)[k]),
         MtrrDescriptor(types, ps)[k].type = "uncachable"
  PROVE  GetTypeOr(MtrrDescriptor(types, ps), pa, "write_back") = "uncachable"
<1> DEFINE ranges == MtrrDescriptor(types, ps)
           hits == {n \in DOMAIN ranges : Touches(pa, ranges[n])}
<1>1. /\ hits \subseteq DOMAIN ranges /\ k \in hits
      /\ GetTypeOr(ranges, pa, "write_back") = LastHit(ranges, hits, "write_back")
  BY DEF GetTypeOr
<1>2. /\ DOMAIN ranges \in SUBSET Nat /\ FixedCount + Len(ps) \in Nat
      /\ \A n \in DOMAIN ranges : n <= FixedCount + Len(ps)
  BY DescriptorShape
<1>3. ranges[k].type = "uncachable"
  OBVIOUS
<1> HIDE DEF hits, ranges
<1>4. LastHit(ranges, hits, "write_back") = "uncachable"
  BY <1>1, <1>2, <1>3, UncachableHitWins
<1>5. QED
  BY <1>1, <1>4 DEF ranges

\* A large page with a page in it that a fixed range makes uncachable is looked up as
\* uncachable: that ranges are longer than they should be takes none away.
LEMMA FixedIsTouched ==
  ASSUME NEW types \in FixedTypes, NEW ps \in PairChoices, NEW g \in Nat,
         NEW r \in 1 .. Len(FixedRegisters), NEW n \in 1 .. PerRegister,
         NEW page \in g * LargePage .. (g + 1) * LargePage - 1,
         FixedCovers(r, n, page), types[r][n] = "uncachable"
  PROVE  GetTypeOr(MtrrDescriptor(types, ps), g * LargePage, "write_back") = "uncachable"
<1> DEFINE ranges == MtrrDescriptor(types, ps)
           k == PositionOf(r, n)
           size == FixedRegisters[r].size
           base == FixedRegisters[r].base + (n - 1) * size
           pa == g * LargePage
<1>1. k \in 1 .. FixedCount /\ FixedCount \in Nat
  BY FixedPositions
<1>2. k \in DOMAIN ranges /\ ranges[k] = FixedRange(FixedRegisters[r], n, types[r][n])
  <2>1. k \in DOMAIN ranges /\ ranges[k] = FixedRangeAt(types, k)
    <3> HIDE DEF k
    <3>1. QED
      BY <1>1 DEF MtrrDescriptor
  <2>2. QED
    BY <2>1, FixedPositions DEF FixedRangeAt
<1>3. ranges[k] = [base |-> base, size |-> size + base, type |-> types[r][n]]
  BY <1>2 DEF FixedRange
<1>4. base \in Nat /\ size \in Nat /\ pa \in Nat
  <2>1. size \in Nat /\ FixedRegisters[r].base \in Nat /\ n - 1 \in Nat
    BY RegisterFields, MtrrAssumption
  <2>2. (n - 1) * size \in Nat
    BY <2>1
  <2>3. QED
    BY <2>1, <2>2, MtrrAssumption
<1>5. page \in Nat /\ pa <= page /\ page <= pa + LargePage - 1
  BY PagesOfLarge
<1>6. page >= base /\ page < base + size
  BY DEF FixedCovers
<1>7. Touches(pa, ranges[k]) /\ ranges[k].type = "uncachable"
  <2> HIDE DEF ranges, k, base, size, pa
  <2>1. ranges[k].base = base /\ ranges[k].size = size + base /\ ranges[k].type = types[r][n]
    BY <1>3
  <2>2. pa < base + (size + base) /\ pa + LargePage - 1 >= base
    BY <1>4, <1>5, <1>6, MtrrAssumption
  <2>3. QED
    BY <2>1, <2>2 DEF Touches
<1>8. QED
  BY <1>2, <1>7, UncachableIsFound

\* The same of a page that a variable range makes uncachable, when its mask is one that
\* the lowest bit tells the length of.
LEMMA VariableIsTouched ==
  ASSUME ContiguousMasks,
         NEW types \in FixedTypes, NEW ps \in PairChoices, NEW g \in Nat,
         NEW v \in DOMAIN ps, NEW page \in g * LargePage .. (g + 1) * LargePage - 1,
         Covers(ps[v], page), ps[v].type = "uncachable"
  PROVE  GetTypeOr(MtrrDescriptor(types, ps), g * LargePage, "write_back") = "uncachable"
<1> DEFINE ranges == MtrrDescriptor(types, ps)
           k == FixedCount + v
           base == ps[v].pfn
           size == 2^LowestBit(ps[v].mask)
           pa == g * LargePage
<1>1. v \in 1 .. Len(ps) /\ FixedCount \in Nat /\ ps[v].pfn \in Nat /\ ps[v].mask \in Nat
  BY RegisterFields, FixedPositions
<1>2. k \in DOMAIN ranges /\ ranges[k] = VariableRange(ps[v])
  <2>1. k \in {FixedCount + w : w \in {u \in DOMAIN ps : ps[u].valid}} /\ ~(k <= FixedCount)
    BY <1>1 DEF Covers
  <2>2. k \in DOMAIN ranges /\ ranges[k] = VariableRange(ps[k - FixedCount])
    <3> HIDE DEF k
    <3>1. QED
      BY <2>1 DEF MtrrDescriptor
  <2>3. k - FixedCount = v
    BY <1>1
  <2>4. QED
    BY <2>2, <2>3
<1>3. ranges[k] = [base |-> base, size |-> base + size, type |-> ps[v].type]
  BY <1>2 DEF VariableRange
<1>4. base \in Nat /\ pa \in Nat /\ PhysPages - ps[v].mask \in Int
  <2>1. pa \in Nat
    BY PagesOfLarge
  <2>2. PhysPages - ps[v].mask \in Int
    BY <1>1, EptAssumption
  <2>3. QED
    BY <1>1, <2>1, <2>2
<1>5. page \in Nat /\ pa <= page /\ page <= pa + LargePage - 1
  BY PagesOfLarge
<1>6. page >= base /\ page < base + size /\ size \in Int
  <2>1. size = PhysPages - ps[v].mask
    BY DEF ContiguousMasks, Covers
  <2> HIDE DEF size
  <2>2. QED
    BY <1>4, <2>1 DEF Covers
<1>7. Touches(pa, ranges[k]) /\ ranges[k].type = "uncachable"
  <2> HIDE DEF ranges, k, size, pa
  <2>1. ranges[k].base = base /\ ranges[k].size = base + size /\ ranges[k].type = ps[v].type
    BY <1>3
  <2> HIDE DEF base
  <2>2. pa < base + (base + size) /\ pa + LargePage - 1 >= base
    BY <1>4, <1>5, <1>6, MtrrAssumption
  <2>3. QED
    BY <2>1, <2>2 DEF Touches
<1>8. QED
  BY <1>2, <1>7, UncachableIsFound

-----------------------------------------------------------------------------
(* The steps of the constructor                                               *)

\* Nothing is written before the tables are allocated.
LEMMA EptInitInv == EptInit => EptInv
<1> SUFFICES ASSUME EptInit PROVE EptInv
  OBVIOUS
<1>1. at = <<"new">>
  BY DEF EptInit
<1>2. ~Pml4Done /\ (\A i \in Index : ~PdptDone(i)) /\ (\A i, j \in Index : ~PdDone(i, j))
  BY <1>1 DEF Pml4Done, PdptDone, PdDone
<1>3. TablesSoFar
  BY <1>2 DEF EptInit, TablesSoFar
<1>4. QED
  BY <1>1, <1>3 DEF EptInit, EptInv, ConstructorPoint, RegistersAreRead

\* Reading the registers writes no table.
LEMMA AllocateInv ==
  ASSUME EptInv, AllocateAndReadMtrr
  PROVE  EptInv'
<1>1. at = <<"new">> /\ at' = <<"pml4">>
  BY DEF AllocateAndReadMtrr
<1>2. /\ ~Pml4Done /\ (\A i \in Index : ~PdptDone(i)) /\ (\A i, j \in Index : ~PdDone(i, j))
      /\ ~Pml4Done' /\ (\A i \in Index : ~PdptDone(i)') /\ (\A i, j \in Index : ~PdDone(i, j)')
  BY <1>1 DEF Pml4Done, PdptDone, PdDone
<1>3. TablesSoFar'
  BY <1>2 DEF EptInv, TablesSoFar, AllocateAndReadMtrr
<1>4. QED
  BY <1>1, <1>3 DEF EptInv, AllocateAndReadMtrr, ConstructorPoint, RegistersAreRead

\* The first entry of the pml4 is written, the others stay.
LEMMA LinkPml4Inv ==
  ASSUME EptInv, LinkPml4
  PROVE  EptInv'
<1>1. at = <<"pml4">> /\ at' = <<"pdpt", 0>> /\ 0 \in Index
  BY EptAssumption DEF LinkPml4, Index
<1>2. /\ ~Pml4Done /\ (\A i \in Index : ~PdptDone(i)) /\ (\A i, j \in Index : ~PdDone(i, j))
      /\ Pml4Done' /\ (\A i \in Index : ~PdptDone(i)') /\ (\A i, j \in Index : ~PdDone(i, j)')
  BY <1>1 DEF Pml4Done, PdptDone, PdDone, Index
<1>3. pml4' = [k \in Index |-> IF k = 0 /\ Pml4Done' THEN Link(PdptFrame)' ELSE Unwritten]
  BY <1>1, <1>2 DEF EptInv, TablesSoFar, LinkPml4, Link, PdptFrame
<1>4. TablesSoFar'
  BY <1>2, <1>3 DEF EptInv, TablesSoFar, LinkPml4
<1>5. QED
  BY <1>1, <1>4 DEF EptInv, LinkPml4, ConstructorPoint, RegistersAreRead

\* A round of the first loop writes its entry of the pdpt.
LEMMA LinkPdptInv ==
  ASSUME EptInv, NEW i \in Index, LinkPdpt(i)
  PROVE  EptInv'
<1>1. /\ i \in Nat /\ at = <<"pdpt", i>>
      /\ at' = IF i + 1 \in Index THEN <<"pdpt", i + 1>> ELSE <<"pd", 0, 0>>
  BY DEF LinkPdpt, Index
<1>2. \A k \in Index : k \in Nat /\ (i + 1 \notin Index => k <= i)
  BY EptAssumption DEF Index
<1>3. Pml4Done /\ Pml4Done' /\ \A m, n \in Index : ~PdDone(m, n) /\ ~PdDone(m, n)'
  BY <1>1 DEF Pml4Done, PdDone, Index
<1>4. \A k \in Index : PdptDone(k)' <=> PdptDone(k) \/ k = i
  BY <1>1, <1>2 DEF PdptDone
<1>5. pdpt' = [k \in Index |-> IF PdptDone(k)' THEN Link(PdFrame(k))' ELSE Unwritten]
  BY <1>4 DEF EptInv, TablesSoFar, LinkPdpt, Link, PdFrame
<1>6. TablesSoFar'
  BY <1>3, <1>5 DEF EptInv, TablesSoFar, LinkPdpt, Link, PdptFrame
<1>7. ConstructorPoint'
  BY <1>1, EptAssumption DEF ConstructorPoint, Index
<1>8. QED
  BY <1>1, <1>6, <1>7 DEF EptInv, LinkPdpt, RegistersAreRead

\* A round of the inner loop writes its entry of a pd, with the type of its large page.
LEMMA FillPdInv ==
  ASSUME EptInv, NEW i \in Index, NEW j \in Index, FillPd(i, j)
  PROVE  EptInv'
<1>1. /\ i \in Nat /\ j \in Nat /\ at = <<"pd", i, j>>
      /\ at' = IF j + 1 \in Index THEN <<"pd", i, j + 1>>
               ELSE IF i + 1 \in Index THEN <<"pd", i + 1, 0>> ELSE <<"built">>
  BY DEF FillPd, Index
<1>2. \A k \in Index : k \in Nat /\ (i + 1 \notin Index => k <= i) /\ (j + 1 \notin Index => k <= j)
  BY EptAssumption DEF Index
<1>3. Pml4Done /\ Pml4Done' /\ \A k \in Index : PdptDone(k) /\ PdptDone(k)'
  BY <1>1 DEF Pml4Done, PdptDone
<1>4. \A m, n \in Index : PdDone(m, n)' <=> PdDone(m, n) \/ (m = i /\ n = j)
  BY <1>1, <1>2 DEF PdDone
<1>5. \A m, n : PdEntry(m, n)' = PdEntry(m, n)
  BY DEF FillPd, PdEntry
<1>6. pd' = [pd EXCEPT ![i][j] = PdEntry(i, j)]
  BY DEF FillPd, PdEntry
<1>7. \A m, n \in Index : pd'[m][n] = IF PdDone(m, n)' THEN PdEntry(m, n)' ELSE Unwritten
  BY <1>4, <1>5, <1>6 DEF EptInv, TablesSoFar
<1>8. pd' = [m \in Index |-> [n \in Index |-> pd'[m][n]]]
  BY <1>6 DEF EptInv, TablesSoFar
<1>9. TablesSoFar'
  <2>1. pml4' = pml4 /\ pdpt' = pdpt /\ frame' = frame
    BY DEF FillPd
  <2>2. pd' = [m \in Index |->
                 [n \in Index |-> IF PdDone(m, n)' THEN PdEntry(m, n)' ELSE Unwritten]]
    BY <1>7, <1>8
  <2>3. QED
    BY <1>3, <2>1, <2>2 DEF EptInv, TablesSoFar, Link, PdptFrame, PdFrame
<1>10. ConstructorPoint'
  BY <1>1, EptAssumption DEF ConstructorPoint, Index
<1>11. QED
  BY <1>1, <1>9, <1>10 DEF EptInv, FillPd, RegistersAreRead

\* What is built stays.
LEMMA BuiltInv ==
  ASSUME EptInv, UNCHANGED eptVars
  PROVE  EptInv'
BY DEF EptInv, eptVars, ConstructorPoint, RegistersAreRead, TablesSoFar, Pml4Done, PdptDone,
       PdDone, PdEntry, Link, PdptFrame, PdFrame

\* At every moment the tables hold what the constructor has written by then, from the
\* registers as they are.
THEOREM EptInvariance == EptSpec => []EptInv
<1>1. EptInv /\ [EptNext]_eptVars => EptInv'
  <2> SUFFICES ASSUME EptInv, [EptNext]_eptVars PROVE EptInv'
    OBVIOUS
  <2>1. CASE AllocateAndReadMtrr
    BY <2>1, AllocateInv
  <2>2. CASE LinkPml4
    BY <2>2, LinkPml4Inv
  <2>3. ASSUME NEW i \in Index, LinkPdpt(i) PROVE EptInv'
    BY <2>3, LinkPdptInv
  <2>4. ASSUME NEW i \in Index, NEW j \in Index, FillPd(i, j) PROVE EptInv'
    BY <2>4, FillPdInv
  <2>5. CASE Built \/ UNCHANGED eptVars
    BY <2>5, BuiltInv DEF Built
  <2>6. QED
    BY <2>1, <2>2, <2>3, <2>4, <2>5 DEF EptNext
<1>2. QED
  BY <1>1, EptInitInv, PTL DEF EptSpec

-----------------------------------------------------------------------------
(* What the tables are                                                        *)

\* The entries of the pds number the large pages that are mapped, without a gap.
LEMMA LargePages ==
  /\ \A i, j \in Index : LargePfn(i, j) \in Mapped
  /\ \A g \in Mapped : /\ g \div (Entries * Entries) = 0
                       /\ (g \div Entries) % Entries \in Index
                       /\ g % Entries \in Index
                       /\ LargePfn((g \div Entries) % Entries, g % Entries) = g
<1> DEFINE E == Entries
<1>1. E \in Nat \ {0} /\ E * E \in Nat \ {0}
  BY EptAssumption
<1>2. ASSUME NEW i \in Index, NEW j \in Index PROVE LargePfn(i, j) \in Mapped
  <2>1. i \in Nat /\ j \in Nat /\ i <= E - 1 /\ j <= E - 1
    BY <1>1 DEF Index
  <2>2. i * E \in Nat /\ i * E <= (E - 1) * E /\ (E - 1) * E = E * E - E
    BY <1>1, <2>1
  <2>3. QED
    BY <1>1, <2>1, <2>2 DEF LargePfn, Mapped
<1>3. ASSUME NEW g \in Mapped
      PROVE  /\ g \div (E * E) = 0 /\ (g \div E) % E \in Index /\ g % E \in Index
             /\ LargePfn((g \div E) % E, g % E) = g
  <2>1. g \in Nat /\ g < E * E
    BY <1>1 DEF Mapped
  <2>2. g \div E \in Nat /\ g % E \in 0 .. E - 1 /\ g = E * (g \div E) + (g % E)
    BY <1>1, <2>1
  <2>3. g \div E < E
    BY <1>1, <2>1, <2>2
  <2>4. (g \div E) % E = g \div E
    <3>1. PICK q \in Nat : q = g \div E
      BY <2>2
    <3>2. q < E
      BY <2>3, <3>1
    <3>3. q % E = q
      BY <1>1, <3>2
    <3>4. QED
      BY <3>1, <3>3
  <2>5. g \div (E * E) = 0
    BY <1>1, <2>1
  <2>6. g \div E \in Index /\ g % E \in Index
    BY <1>1, <2>2, <2>3 DEF Index
  <2>7. LargePfn(g \div E, g % E) = g
    BY <1>1, <2>2 DEF LargePfn
  <2>8. QED
    BY <2>4, <2>5, <2>6, <2>7
<1>4. QED
  BY <1>2, <1>3

\* When the constructor is through every entry it has to write is written.
LEMMA BuiltTables ==
  ASSUME EptInv, at = <<"built">>
  PROVE  /\ pml4 = [k \in Index |-> IF k = 0 THEN Link(PdptFrame) ELSE Unwritten]
         /\ pdpt = [i \in Index |-> Link(PdFrame(i))]
         /\ pd = [i \in Index |-> [j \in Index |-> PdEntry(i, j)]]
         /\ mtrr = MtrrDescriptor(fixed, pairs) /\ frame \in Nat
<1>1. Pml4Done /\ (\A i \in Index : PdptDone(i)) /\ (\A i, j \in Index : PdDone(i, j))
  BY DEF Pml4Done, PdptDone, PdDone
<1>2. mtrr = MtrrDescriptor(fixed, pairs) /\ frame \in Nat
  BY EptAssumption DEF EptInv, RegistersAreRead
<1>3. QED
  BY <1>1, <1>2 DEF EptInv, TablesSoFar

\* Every table entry is one of its level with a type there is, or not written.
THEOREM EptTypeCorrect == EptSpec => []EptTypeOK
<1>1. ASSUME EptInv PROVE EptTypeOK
  <2> USE <1>1
  <2>0. at = <<"new">> \/ frame \in Nat
    <3>1. Frames \subseteq Nat
      BY EptAssumption
    <3>2. QED
      BY <3>1 DEF EptInv, RegistersAreRead
  <2>1. \A k \in Index : pml4[k] = Unwritten \/ (pml4[k].present /\ pml4[k].pfn \in Nat)
    <3>1. Pml4Done => frame \in Nat
      BY <2>0 DEF Pml4Done
    <3>2. QED
      BY <3>1 DEF EptInv, TablesSoFar, Link, PdptFrame
  <2>2. \A i \in Index : pdpt[i] = Unwritten \/ (pdpt[i].present /\ pdpt[i].pfn \in Nat)
    <3>1. \A i \in Index : i \in Nat /\ (PdptDone(i) => frame \in Nat)
      BY <2>0 DEF PdptDone, Index
    <3>2. QED
      BY <3>1 DEF EptInv, TablesSoFar, Link, PdFrame
  <2>3. ASSUME NEW i \in Index, NEW j \in Index
        PROVE  pd[i][j] = Unwritten \/ (pd[i][j].pfn \in Mapped /\ pd[i][j].type \in MemoryTypes)
    <3>1. CASE ~PdDone(i, j)
      BY <3>1 DEF EptInv, TablesSoFar
    <3>2. CASE PdDone(i, j)
      <4>1. mtrr = MtrrDescriptor(fixed, pairs) /\ fixed \in FixedTypes /\ pairs \in PairChoices
        BY <3>2 DEF EptInv, RegistersAreRead, PdDone
      <4>2. pd[i][j] = PdEntry(i, j)
        BY <3>2 DEF EptInv, TablesSoFar
      <4>3. PdEntry(i, j).pfn \in Mapped
        BY LargePages DEF PdEntry
      <4>4. PdEntry(i, j).type \in MemoryTypes
        BY <4>1, GetTypeOrIsType DEF PdEntry
      <4>5. QED
        BY <4>2, <4>3, <4>4
    <3>3. QED
      BY <3>1, <3>2
  <2>4. QED
    BY <2>1, <2>2, <2>3 DEF EptInv, EptTypeOK
<1>2. QED
  BY <1>1, EptInvariance, PTL

\* The EPT maps every guest page its first pml4 entry reaches to itself, and none beyond.
THEOREM IdentityMapHolds == EptSpec => []IdentityMap
<1>1. ASSUME EptInv PROVE IdentityMap
  <2> SUFFICES ASSUME at = <<"built">>, NEW page \in 0 .. PhysPages - 1
               PROVE  IF Large(page) \in Mapped
                      THEN /\ Reached(page).present
                           /\ Reached(page).pfn * LargePage + (page % LargePage) = page
                      ELSE ~Reached(page).present
    BY DEF IdentityMap
  <2> DEFINE g == Large(page)
             k == g \div (Entries * Entries)
             i == (g \div Entries) % Entries
             j == g % Entries
  <2>1. /\ page \in Nat /\ g \in Nat /\ page % LargePage \in Nat
        /\ g * LargePage + (page % LargePage) = page
    BY MtrrAssumption, EptAssumption DEF Large
  <2>2. /\ pml4 = [n \in Index |-> IF n = 0 THEN Link(PdptFrame) ELSE Unwritten]
        /\ pdpt = [n \in Index |-> Link(PdFrame(n))]
        /\ pd = [m \in Index |-> [n \in Index |-> PdEntry(m, n)]]
        /\ frame \in Nat
    BY <1>1, BuiltTables
  <2>3. CASE g \in Mapped
    <3>1. k = 0 /\ i \in Index /\ j \in Index /\ LargePfn(i, j) = g
      BY <2>3, LargePages
    <3>2. 0 \in Index /\ i \in Nat
      BY <3>1, EptAssumption DEF Index
    <3> HIDE DEF g, k, i, j
    <3>3. pml4[k].present /\ pml4[k].pfn = PdptFrame
      BY <2>2, <3>1, <3>2 DEF Link
    <3>4. pdpt[i].present /\ pdpt[i].pfn = PdFrame(i) /\ PdFrame(i) - PdFrame(0) = i
      BY <2>2, <3>1, <3>2 DEF Link, PdFrame
    <3>5. Reached(page) = PdEntry(i, j)
      BY <2>2, <3>1, <3>2, <3>3, <3>4 DEF Reached, g, k, i, j
    <3>6. PdEntry(i, j).present /\ PdEntry(i, j).pfn = g
      BY <3>1 DEF PdEntry
    <3>7. QED
      BY <2>1, <2>3, <3>5, <3>6 DEF g
  <2>4. CASE g \notin Mapped
    <3>1. k # 0
      <4>1. Entries * Entries \in Nat \ {0} /\ g >= Entries * Entries
        BY <2>1, <2>4, EptAssumption DEF Mapped
      <4> HIDE DEF g
      <4>2. QED
        BY <2>1, <4>1
    <3>2. Reached(page) = Unwritten
      <4>1. CASE k \in Index
        <5>1. ~pml4[k].present
          BY <2>2, <3>1, <4>1 DEF Unwritten
        <5>2. QED
          BY <5>1 DEF Reached
      <4>2. CASE k \notin Index
        BY <4>2 DEF Reached
      <4>3. QED
        BY <4>1, <4>2
    <3>3. QED
      BY <2>4, <3>2 DEF Unwritten
  <2>5. QED
    BY <2>3, <2>4
<1>2. QED
  BY <1>1, EptInvariance, PTL

\* No large page with a page in it that the registers make uncachable is mapped with
\* another type: with any number of registers and whatever they hold, if the masks are
\* contiguous.
THEOREM UncachableWinsHolds ==
  ASSUME ContiguousMasks
  PROVE  EptSpec => []UncachableWins
<1>1. ASSUME EptInv PROVE UncachableWins
  <2> SUFFICES ASSUME at = <<"built">>, NEW i \in Index, NEW j \in Index,
                      "uncachable" \in TypesWithin(LargePfn(i, j))
               PROVE  pd[i][j].type = "uncachable"
    BY DEF UncachableWins
  <2> DEFINE g == LargePfn(i, j)
  <2>1. g \in Nat
    BY LargePages DEF Mapped
  <2>2. /\ fixed \in FixedTypes /\ pairs \in PairChoices
        /\ DOMAIN fixed = 1 .. Len(FixedRegisters)
        /\ \A r \in DOMAIN fixed : DOMAIN fixed[r] = 1 .. PerRegister
    BY <1>1, EptAssumption DEF EptInv, RegistersAreRead
  <2>3. pd[i][j].type = GetTypeOr(MtrrDescriptor(fixed, pairs), g * LargePage, "write_back")
    BY <1>1, BuiltTables DEF PdEntry
  <2> HIDE DEF g
  <2>4. "uncachable" \in TypesWithin(g)
    BY DEF g
  <2>5. CASE \E v \in DOMAIN pairs : /\ pairs[v].type = "uncachable"
                                    /\ \E page \in g * LargePage .. (g + 1) * LargePage - 1 :
                                         Covers(pairs[v], page)
    BY <2>1, <2>2, <2>3, <2>5, VariableIsTouched
  <2>6. CASE \E r \in DOMAIN fixed : \E n \in DOMAIN fixed[r] :
               /\ fixed[r][n] = "uncachable"
               /\ \E page \in g * LargePage .. (g + 1) * LargePage - 1 : FixedCovers(r, n, page)
    BY <2>1, <2>2, <2>3, <2>6, FixedIsTouched
  <2>7. QED
    BY <2>4, <2>5, <2>6 DEF TypesWithin
<1>2. QED
  BY <1>1, EptInvariance, PTL

=============================================================================
