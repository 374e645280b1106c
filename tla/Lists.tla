-------------------------------- MODULE Lists --------------------------------
(* The elements of a list that pass a test, as Array.filter has it.  (What    *)
(* SelectSeq does, for a set instead of an operator, and as a recursive       *)
(* function, so that something can be proved of it.)                          *)
EXTENDS Naturals, Sequences

Filter(s, keep) ==
    LET kept[n \in 0..Len(s)] ==
            IF n = 0 THEN <<>>
            ELSE IF s[n] \in keep THEN Append(kept[n - 1], s[n]) ELSE kept[n - 1]
    IN  kept[Len(s)]
=============================================================================
