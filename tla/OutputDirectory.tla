-------------------------- MODULE OutputDirectory --------------------------
(***************************************************************************)
(* What a generator promises about the directory it writes to.  A run that *)
(* writes has decided every file before it touches the first; it puts them *)
(* in place one by one, in any order; it reports success only when all are *)
(* there.  A run that ends otherwise leaves each file as it was or as it   *)
(* was to be, and at most the one it was writing torn.                     *)
(***************************************************************************)
CONSTANTS Paths, Torn

VARIABLES
  disk,      \* the directory
  writing,   \* whether a run is writing to it
  plan,      \* what that run writes, by path
  pending,   \* the paths it has not written yet
  success    \* whether the last run reported success

outputVars == <<disk, writing, plan, pending, success>>

OutputInit == DOMAIN disk = Paths /\ ~writing /\ pending = {} /\ ~success

Begin == /\ ~writing /\ writing' /\ ~success'
         /\ DOMAIN plan' \subseteq Paths /\ pending' = DOMAIN plan'
         /\ UNCHANGED disk

Put == \E path \in pending :
  /\ writing /\ disk' = [disk EXCEPT ![path] = plan[path]]
  /\ pending' = pending \ {path}
  /\ UNCHANGED <<writing, plan, success>>

Succeed == /\ writing /\ pending = {}
           /\ ~writing' /\ success'
           /\ UNCHANGED <<disk, pending>>

(* A run ends without success, or a new one begins.                         *)
GiveUp == /\ \/ UNCHANGED disk
             \/ \E path \in pending : disk' = [disk EXCEPT ![path] = Torn]
          /\ ~writing' /\ pending' = {} /\ ~success'

OutputSpec == OutputInit /\ [][Begin \/ Put \/ Succeed \/ GiveUp]_outputVars
=============================================================================
