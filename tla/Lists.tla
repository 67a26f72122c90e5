--------------------------------- MODULE Lists ---------------------------------
(***************************************************************************)
(* Array.filter, which the renderer takes an item off its lists with: what *)
(* SelectSeq(s, LAMBDA e : e \in S) is, with the test as a set, so that    *)
(* what it does to a list of any length can be proved.                     *)
(***************************************************************************)
EXTENDS Naturals, Sequences

Picked(s, S) ==
  LET upTo[i \in 0 .. Len(s)] ==
        IF i = 0 THEN <<>>
        ELSE IF s[i] \in S THEN Append(upTo[i - 1], s[i]) ELSE upTo[i - 1]
  IN  upTo[Len(s)]
==============================================================================
