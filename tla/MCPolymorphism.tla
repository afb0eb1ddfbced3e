-------------------------- MODULE MCPolymorphism ---------------------------
(***************************************************************************)
(* Schemas of up to three elements, three types that extend each other,    *)
(* and two places where elements are used.  A member of a substitution     *)
(* group has the type of its head or one that derives from it, as XSD asks.*)
(***************************************************************************)
EXTENDS Polymorphism, TLC

MCKey == {"h", "m", "n", "s", "t", "B", "D", "E", "F", "G", "X", "C", "K"}
MCBuiltIn == {"X"}

(* The heads in the order of their names. *)
Sorted == <<"B", "D", "h", "m", "s", "t">>
MCBefore(a, b) == \E i, j \in DOMAIN Sorted : i < j /\ Sorted[i] = a /\ Sorted[j] = b

El(key, type, head_, abstract) ==
  [key |-> key, type |-> type, head |-> head_, abstract |-> abstract]
Ct(key, base, abstract, named) ==
  [key |-> key, base |-> base, abstract |-> abstract, named |-> named]
Ref(container, k) == [container |-> container, head |-> k, local |-> FALSE, type |-> None]
Local(container, k, type) ==
  [container |-> container, head |-> k, local |-> TRUE, type |-> type]

Bases == {<<None, "B", "B">>, <<None, "B", "D">>, <<None, "B", None>>, <<None, "E", "B">>}
Types(b, abstractB, abstractD, named) ==
  <<Ct("B", b[1], abstractB, named), Ct("D", b[2], abstractD, named),
    Ct("E", b[3], FALSE, named)>>
TypeLists(named) ==
  {Types(b, aB, aD, named) : b \in Bases, aB, aD \in BOOLEAN}

RECURSIVE Derives(_,_,_)
Derives(b, t, k) ==
  \/ t = k
  \/ t \in {"B", "D", "E"} /\ LET base == b[CASE t = "B" -> 1 [] t = "D" -> 2 [] t = "E" -> 3]
                               IN  base # None /\ Derives(b, base, k)
BasesOf(types) == [i \in DOMAIN types |-> types[i].base]

(* References to h, which may be of any type, and to m, whose members may be *)
(* heads, even in a circle; a reference in a type that stands for h itself.  *)
Elements(abstract, types, heads) ==
  <<El("h", types[1], None, abstract), El("m", types[2], heads[1], FALSE),
    El("n", types[3], heads[2], FALSE)>>
Groups == {<<"h", "h">>, <<"h", "m">>, <<"h", None>>, <<None, None>>, <<"n", "m">>, <<"n", "h">>}
GroupTypes == {<<a, b, c>> : a \in {"B", "D", "X", None}, b \in {"B", "D", "E", "X"}, c \in {"B", "E"}}
Substitutable(s) ==
  \A i, j \in DOMAIN s.elements :
    s.elements[i].head = s.elements[j].key =>
      s.elements[j].type = None \/ Derives(BasesOf(s.types), s.elements[i].type, s.elements[j].type)

(* The type of an abstract element is its own. *)
AbstractApart(s) ==
  \A i, j \in DOMAIN s.elements :
    s.elements[i].abstract /\ i # j => s.elements[i].type # s.elements[j].type

GroupSchemas ==
  {s \in {[elements |-> e, types |-> ts, uses |-> u] :
            e \in {Elements(a, t, g) : a \in BOOLEAN, t \in GroupTypes, g \in Groups},
            ts \in TypeLists(FALSE),
            u \in {<<Ref("C", "h")>>, <<Ref("C", "m"), Ref("K", "h")>>, <<Ref("D", "h")>>}} :
     Substitutable(s) /\ AbstractApart(s)}

(* Elements that are called like their types. *)
NamedAlike ==
  {s \in {[elements |-> <<El("B", "B", None, a), El("D", "D", g[1], FALSE), El("E", "E", g[2], FALSE)>>,
           types |-> ts, uses |-> u] :
            a \in BOOLEAN, ts \in TypeLists(FALSE),
            g \in {<<"B", "B">>, <<"B", "D">>, <<"B", None>>, <<None, None>>},
            u \in {<<Ref("C", "B")>>, <<Ref("C", "D"), Ref("K", "B")>>}} :
     Substitutable(s)}

(* Local elements of abstract types; one name has one type, and elements of  *)
(* types that derive from each other are in different containers.            *)
SlotSchemas ==
  {[elements |-> << >>, types |-> ts, uses |-> <<Local("C", "s", t)>>] :
     ts \in TypeLists(TRUE), t \in {"B", "D"}}
  \cup {[elements |-> << >>, types |-> ts, uses |-> u] :
     ts \in TypeLists(FALSE),
     u \in {<<Local("C", "s", t), Local("K", "t", w)>> : t, w \in {"B", "D"}}
             \cup {<<Local("C", "s", "B"), Local("C", "s", "B")>>}}
  \cup {[elements |-> << >>,
         types |-> <<Ct("B", None, TRUE, named), Ct("D", "B", FALSE, named),
                     Ct("F", None, TRUE, named), Ct("G", "F", aG, named)>>,
         uses |-> <<Local("C", "s", "B"), Local("C", "t", "F")>>] : aG, named \in BOOLEAN}

(* A container with two local elements of one abstract type. *)
TwoSlots ==
  {[elements |-> << >>, types |-> <<Ct("B", None, TRUE, FALSE), Ct("D", "B", FALSE, FALSE)>>,
    uses |-> <<Local("C", "s", "B"), Local("C", "t", "B")>>]}

(* A head and a member of one type, which is read by encoding/xml. *)
OneTypeMembers ==
  {[elements |-> <<El("h", "B", None, FALSE), El("m", "B", "h", FALSE)>>,
    types |-> <<Ct("B", None, FALSE, TRUE)>>, uses |-> <<Ref("C", "h")>>]}

MCSchemas == GroupSchemas \cup NamedAlike \cup SlotSchemas \cup TwoSlots \cup OneTypeMembers
=============================================================================
