----------------------------- MODULE MCSegments -----------------------------
EXTENDS Segments

\* present, type: the ones of 64-bit code, data, a busy TSS and an LDT.
Entry(type, system, dpl, flags, low, high, b0, b1, b2) ==
  [type |-> type, system |-> system, dpl |-> dpl, present |-> 1,
   avl |-> 0, l |-> flags \div 4, db |-> (flags \div 2) % 2, granularity |-> flags % 2,
   limit_low |-> low, limit_high |-> high, base_low |-> b0, base_mid |-> b1, base_high |-> b2]

Nothing == [Entry(0, 0, 0, 0, 0, 0, 0, 0, 0) EXCEPT !.present = 0]

\* The second entry of a system descriptor, as an entry.
Upper(low, b0) == [Nothing EXCEPT !.limit_low = low, !.base_low = b0]

Code == Entry(11, 1, 0, 5, 65535, 0, 0, 0, 0)
User == Entry(3, 1, 3, 3, 65535, 1, 0, 0, 0)
Odd  == Entry(3, 1, 0, 2, 4660, 2, 2, 1, 1)
Tss(low, b0, b2) == Entry(11, 0, 0, 0, low, 0, b0, 0, b2)
LdtD == Entry(2, 0, 0, 0, 103, 0, 1, 1, 0)

Table(t, u) == [i \in 0 .. 8 |->
  CASE i = 1 -> Code [] i = 2 -> User [] i = 3 -> Odd [] i = 4 -> t [] i = 5 -> u
    [] i = 6 -> LdtD [] OTHER -> Nothing]

MCGdts == {Table(Tss(103, b0, b2), Upper(low, b1)) :
             b0 \in {0, 3}, b2 \in {0, 1}, low \in {0, 2}, b1 \in {0, 1}}

MCLdt == [i \in 0 .. 4 |-> IF i = 3 THEN User ELSE Odd]

\* Of the LDT: 0 and 4 meet no code or data segment in the GDT, 3 does.
MCSelectors ==
  {8 * i + r : i \in {0, 1, 2, 3, 4, 6}, r \in {0, 3}}
  \cup {8 * i + r : i \in {0, 3, 4}, r \in {4, 7}}

=============================================================================
