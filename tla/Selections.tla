----------------------------- MODULE Selections -----------------------------
(***************************************************************************)
(* What is kept of a list.  The code appends what it keeps to a new list,  *)
(* one item after the other; so does the function here, which is SelectSeq *)
(* with the places of the items for the test on them.                      *)
(***************************************************************************)
EXTENDS Naturals, Sequences

(* The items of s at the places, in their order. *)
AtPlaces(s, places) ==
  LET upTo[n \in 0 .. Len(s)] ==
        IF n = 0 THEN << >>
        ELSE IF n \in places THEN Append(upTo[n - 1], s[n])
        ELSE upTo[n - 1]
  IN  upTo[Len(s)]
=============================================================================
