---------------------------- MODULE MCSceneBridge ----------------------------
(***************************************************************************)
(* Small instances of SceneBridge.  MaxEdits bounds the edits, loads and   *)
(* selections of a behaviour; undo, redo and the timers are free.          *)
(***************************************************************************)
EXTENDS SceneBridge

CONSTANTS e1, e2, e3, e4, MaxEdits

VARIABLE edits

mcvars == <<vars, edits>>

MCInit == Init /\ edits = 0

UserStep == Load \/ RefusedLoad \/ Edit \/ Select

MCNext ==
  \/ /\ edits < MaxEdits
     /\ UserStep
     /\ edits' = edits + 1
  \/ /\ History \/ ArmTimerFires \/ SaveTimerFires
     /\ edits' = edits

MCSpec == MCInit /\ [][MCNext]_mcvars

\* Timers that nobody restarts fire.
MCFairSpec == MCSpec /\ WF_vars(SaveTimerFires) /\ WF_vars(ArmTimerFires)

TopNode(d) == [parent |-> Root, data |-> d]

\* One entity in two states: the history run.
OneEntity == { [x \in {e1} |-> TopNode(0)], [x \in {e1} |-> TopNode(1)] }

\* A chain of two, and the empty scene: the tree run.
TwoInAChain ==
  { [x \in {e1, e2} |-> IF x = e1 THEN TopNode(0) ELSE [parent |-> e1, data |-> 0]],
    [x \in {} |-> TopNode(0)] }

\* e1's hand-written Transform is out of the patcher's reach; the patcher
\* takes e1's for that of e2; the others are found.
MCPatchTarget ==
  [x \in Ids |-> IF x = e1 THEN NoId ELSE IF x = e2 THEN e1 ELSE x]
=============================================================================
