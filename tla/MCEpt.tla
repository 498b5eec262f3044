-------------------------------- MODULE MCEpt --------------------------------
(* Values of the constants of Ept for TLC.                                     *)
EXTENDS Ept

\* One fixed register with two ranges of one page.  As with the eleven registers
\* of the processor, they fill the lower half of the first large page.
OneFixed == <<[base |-> 0, size |-> 1]>>

Types == {"uncachable", "write_through", "write_back"}

TwoTypes == {<<<<a, b>>>> : a, b \in Types}

\* Naturally aligned blocks within the 16 pages that the tables map, with masks
\* of 32 pages, enabled and not: less than, as much as, and more than one large
\* page.
Blocks ==
  {[valid |-> valid, type |-> type, pfn |-> size * n, mask |-> 32 - size] :
     valid \in BOOLEAN, type \in Types, size \in {1, 4, 8, 16}, n \in 0 .. 15}

FirstPairs == {pair \in Blocks : pair.pfn + (32 - pair.mask) <= 16}

\* The second pair is disabled, or has one of two blocks that meet others.
SecondPairs ==
  {pair \in FirstPairs : /\ pair.pfn = IF pair.valid THEN 8 ELSE 4
                         /\ pair.mask \in (IF pair.valid THEN {28, 31} ELSE {28})}

TwoPairs == {<<a, b>> : a \in FirstPairs, b \in SecondPairs}

TwoFrames == {20, 40}

=============================================================================
