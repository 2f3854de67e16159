---------------------------------- MODULE Sift ----------------------------------
(* The rows of a WHERE clause in the order of an ORDER BY: what is left of a    *)
(* sequence.  SelectSeq with a set in the place of its test, as a recursive     *)
(* function, so that it can be reasoned about.                                  *)
EXTENDS Naturals, Sequences

\* The elements of s that are in kept, in the order of s.
Sift(s, kept) ==
    LET upTo[i \in 0 .. Len(s)] ==
            IF i = 0 THEN <<>>
            ELSE IF s[i] \in kept THEN Append(upTo[i - 1], s[i])
            ELSE upTo[i - 1]
    IN  upTo[Len(s)]
=============================================================================
