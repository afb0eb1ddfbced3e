---------------------------- MODULE UniqueNames ----------------------------
(***************************************************************************)
(* uniqueName of internal/generator/naming.go.  `used' counts how often a  *)
(* name was asked for; a name outside of its domain was never, as a Go map *)
(* yields zero for it.  The callers never ask for the empty name.          *)
(***************************************************************************)
EXTENDS Naturals, FiniteSets

CONSTANT Numbered(_,_)   \* a name with a number after it

(* Two numbers after one name make two names. *)
NumbersDiffer ==
  \A name : \A m, n \in Nat : Numbered(name, m) = Numbered(name, n) => m = n

Taken(used, name) == IF name \in DOMAIN used THEN used[name] ELSE 0

Take(used, name, count) ==
  [x \in DOMAIN used \cup {name} |-> IF x = name THEN count ELSE used[x]]

(* Of several numbers in a row, one more than there are names, one is free. *)
UniqueName(candidate, used) ==
  LET count == Taken(used, candidate) + 1
      counted == Take(used, candidate, count)
      free == {n \in count..(count + Cardinality(DOMAIN counted)) :
                 Taken(counted, Numbered(candidate, n)) = 0}
      name == Numbered(candidate, CHOOSE n \in free : \A m \in free : n <= m)
  IN  IF count = 1 THEN [name |-> candidate, used |-> counted]
      ELSE [name |-> name, used |-> Take(counted, name, 1)]
=============================================================================
