------------------------------ MODULE SceneTree ------------------------------
(***************************************************************************)
(* The entity tree of a Void scene (VecnScene.entities) and the tree       *)
(* surgery of SceneBridge: findEntity, removeEntityFromTree, findParent    *)
(* and the bodies of create, delete, reparent and duplicate.               *)
(*                                                                         *)
(* A scene is a function from the ids of its entities to nodes.  A node    *)
(* names its parent (Root for the top-level list) and carries one datum    *)
(* standing for everything else: name, visibility, components, transform.  *)
(* The order of siblings is left out.  Ids are unique, which loading       *)
(* enforces (vecnValidation.ts reports a duplicate id as an error).        *)
(***************************************************************************)
EXTENDS FiniteSets, Functions

CONSTANTS Ids,      \* entity ids, those generateId may still produce included
          Root,     \* the parent of a top-level entity
          Values    \* what a node can carry

ASSUME RootAssumption == Root \notin Ids

Scenes == UNION { [P -> [parent : P \cup {Root}, data : Values]] : P \in SUBSET Ids }

Entities(s) == DOMAIN s

\* A set that contains the children of its members.
ClosedBelow(s, S) == \A x \in Entities(s) : s[x].parent \in S => x \in S

\* What a walk down from n meets: the least closed set with n in it.
Below(s, n) ==
  { x \in Entities(s) :
      \A S \in SUBSET (Entities(s) \cup {Root}) :
         n \in S /\ ClosedBelow(s, S) => x \in S }

\* findEntity walks down from the top-level list: it sees every entity.
IsForest(s) == Below(s, Root) = Entities(s)

\* The parent an entity gets: the requested one if the walk finds it,
\* else it joins the top-level list.
ParentOrRoot(s, p) == IF p \in Entities(s) THEN p ELSE Root

\* Faulty: the requested parent is taken as it is.
AddUnderAnyParent(s, e, p, d) ==
  [x \in Entities(s) \cup {e} |-> IF x = e THEN [parent |-> p, data |-> d] ELSE s[x]]

AddEntity(s, e, p, d) ==
  [x \in Entities(s) \cup {e} |->
     IF x = e THEN [parent |-> ParentOrRoot(s, p), data |-> d] ELSE s[x]]

\* splice takes the entity out together with its children.
RemoveEntity(s, e) == Restrict(s, Entities(s) \ Below(s, e))

\* Faulty: the new parent is looked up before the removal.
MoveBeforeRemoval(s, e, p) == [s EXCEPT ![e].parent = ParentOrRoot(s, p)]

\* The new parent is looked up after the removal, so an entity dropped on
\* itself or on one of its descendants goes to the top level.
MoveEntity(s, e, p) ==
  [s EXCEPT ![e].parent = ParentOrRoot(RemoveEntity(s, e), p)]

\* fresh maps each entity of the copied subtree to its new id.
CloneEntity(s, e, fresh) ==
  LET original(x) == CHOOSE o \in DOMAIN fresh : fresh[o] = x
      copy(o) == IF o = e THEN s[e] ELSE [s[o] EXCEPT !.parent = fresh[@]]
  IN  [x \in Entities(s) \cup Range(fresh) |->
         IF x \in Entities(s) THEN s[x] ELSE copy(original(x))]

SetData(s, S, d) == [x \in Entities(s) |-> IF x \in S THEN [s[x] EXCEPT !.data = d] ELSE s[x]]
=============================================================================
