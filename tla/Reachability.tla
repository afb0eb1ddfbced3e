---------------------------- MODULE Reachability ----------------------------
(***************************************************************************)
(* What the schema loader promises, without its queue, its spellings of    *)
(* file names and its catalogs: from a set of start nodes, find every node *)
(* that can be reached along the references, or give up on a node that     *)
(* cannot be read.  Nothing is said about the order of the search.         *)
(***************************************************************************)
CONSTANT Node

VARIABLES
  start,    \* the nodes the search was asked for
  graph,    \* graph[n] is the set of nodes n refers to
  broken,   \* the nodes that cannot be read
  found,    \* the nodes read so far
  status    \* "idle", "searching", "complete" or "aborted"

vars == <<start, graph, broken, found, status>>

Frontier == (start \cup UNION {graph[n] : n \in found}) \ found

(* S holds the start nodes and, with every readable node, its references. *)
ClosedUnderReferences(S) ==
  /\ start \subseteq S
  /\ \A n \in S \ broken : graph[n] \subseteq S

(* The least such set, written without recursion. *)
Reachable ==
  {n \in Node : \A S \in SUBSET Node : ClosedUnderReferences(S) => n \in S}

-----------------------------------------------------------------------------

Init ==
  /\ start \subseteq Node
  /\ broken \subseteq Node
  /\ graph \in [Node -> SUBSET Node]
  /\ found = {}
  /\ status = "idle"

(* The references are known from here on. *)
Begin ==
  /\ status = "idle"
  /\ status' = "searching"
  /\ graph' \in [Node -> SUBSET Node]
  /\ UNCHANGED <<start, broken, found>>

Refuse ==
  /\ status = "idle"
  /\ status' = "aborted"
  /\ UNCHANGED <<start, graph, broken, found>>

Visit(n) ==
  /\ status = "searching"
  /\ n \in Frontier \ broken
  /\ found' = found \cup {n}
  /\ UNCHANGED <<start, graph, broken, status>>

Complete ==
  /\ status = "searching"
  /\ Frontier = {}
  /\ status' = "complete"
  /\ UNCHANGED <<start, graph, broken, found>>

(* A search that meets an unreadable node returns nothing at all. *)
Abort ==
  /\ status = "searching"
  /\ Frontier \cap broken # {}
  /\ status' = "aborted"
  /\ found' = {}
  /\ UNCHANGED <<start, graph, broken>>

Next ==
  \/ Begin
  \/ Refuse
  \/ \E n \in Node : Visit(n)
  \/ Complete
  \/ Abort

Search == Init /\ [][Next]_vars

Spec == Search /\ WF_vars(Next)
=============================================================================
