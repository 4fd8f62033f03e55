-------------------------------- MODULE Lists --------------------------------
(* Lists that a loop builds from another list.                              *)
EXTENDS Naturals, Sequences

\* The members of s that are in T, in their order.
Only(s, T) ==
    LET upTo[i \in 0 .. Len(s)] ==
            IF i = 0 THEN << >>
            ELSE IF s[i] \in T THEN Append(upTo[i - 1], s[i]) ELSE upTo[i - 1]
    IN upTo[Len(s)]
==============================================================================
