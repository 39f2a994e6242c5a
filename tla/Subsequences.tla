---------------------------- MODULE Subsequences ----------------------------
(***************************************************************************)
(* What is left of a sequence when some of it goes.  SelectSeq says the    *)
(* same of a test as Kept does of positions; nothing can be proved of it.  *)
(***************************************************************************)
EXTENDS Naturals, Sequences

\* The elements of s at the positions I, in their order.
Kept(s, I) ==
    LET kept[i \in 0..Len(s)] ==
            IF i = 0 THEN <<>>
            ELSE IF i \in I THEN Append(kept[i - 1], s[i]) ELSE kept[i - 1]
    IN  kept[Len(s)]
=============================================================================
