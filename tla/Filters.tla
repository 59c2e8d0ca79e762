-------------------------------- MODULE Filters --------------------------------
(***************************************************************************)
(* The elements of a sequence that a loop of the code keeps, finds or      *)
(* passes on (Vec::retain, Iterator::filter).  SelectSeq takes a test, and *)
(* no theorem can be stated for every test; Those takes the set of the     *)
(* elements that pass.                                                     *)
(***************************************************************************)
EXTENDS Naturals, Sequences

(* The elements of s that are in S, in their order.                         *)
Those(S, s) ==
    LET upTo[n \in 0 .. Len(s)] ==
            IF n = 0 THEN <<>>
            ELSE IF s[n] \in S THEN Append(upTo[n - 1], s[n])
            ELSE upTo[n - 1]
    IN  upTo[Len(s)]
=============================================================================
