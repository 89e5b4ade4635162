-------------------------- MODULE SceneBridge_proofs --------------------------
(***************************************************************************)
(* The entity tree and the safety of the scene bridge, for every set of    *)
(* ids, values, files and contents and every history limit.                *)
(***************************************************************************)
EXTENDS SceneBridge, SequenceTheorems, TLAPS

-----------------------------------------------------------------------------
(* The entity tree.  Below is defined as a least closed set, so each proof *)
(* about it names a closed set and uses that Below is contained in it.     *)

\* A scene is a function from its entities to nodes over these entities.
LEMMA SceneType ==
  ASSUME NEW s \in Scenes
  PROVE  /\ Entities(s) \in SUBSET Ids
         /\ s \in [Entities(s) -> [parent : Entities(s) \cup {Root}, data : Values]]
         /\ \A x \in Entities(s) : /\ s[x].parent \in Entities(s) \cup {Root}
                                   /\ s[x].data \in Values
                                   /\ s[x] = [parent |-> s[x].parent, data |-> s[x].data]
<1>1. PICK P \in SUBSET Ids : s \in [P -> [parent : P \cup {Root}, data : Values]]
  BY DEF Scenes
<1>2. Entities(s) = P
  BY <1>1 DEF Entities
<1>3. QED
  BY <1>1, <1>2

\* The converse: such a function is a scene.
LEMMA SceneIntro ==
  ASSUME NEW P \in SUBSET Ids,
         NEW s \in [P -> [parent : P \cup {Root}, data : Values]]
  PROVE  s \in Scenes /\ Entities(s) = P
BY DEF Scenes, Entities

\* Below(s, n) is contained in every closed set that has n.
LEMMA BelowLeast ==
  ASSUME NEW s, NEW n, NEW S \in SUBSET (Entities(s) \cup {Root}),
         n \in S, ClosedBelow(s, S)
  PROVE  Below(s, n) \subseteq S
BY DEF Below

\* The children of n and of what is below n are below n.
LEMMA BelowClosed ==
  ASSUME NEW s, NEW n, NEW x \in Entities(s),
         s[x].parent \in Below(s, n) \cup {n}
  PROVE  x \in Below(s, n)
<1> SUFFICES ASSUME NEW S \in SUBSET (Entities(s) \cup {Root}),
                    n \in S, ClosedBelow(s, S)
             PROVE  x \in S
  BY DEF Below
<1>1. s[x].parent \in S
  BY DEF Below
<1>2. QED
  BY <1>1 DEF ClosedBelow

\* A walk from an entity meets the entity.
LEMMA BelowSelf ==
  ASSUME NEW s, NEW n \in Entities(s)
  PROVE  n \in Below(s, n)
BY DEF Below

\* A walk from an entity meets only entities.
LEMMA BelowSubset ==
  ASSUME NEW s, NEW n
  PROVE  Below(s, n) \subseteq Entities(s)
BY DEF Below

\* What is below n, other than n, has its parent below n.
LEMMA ParentBelow ==
  ASSUME NEW s, NEW n \in Entities(s) \cup {Root}, NEW x \in Below(s, n), x # n
  PROVE  s[x].parent \in Below(s, n) \cup {n}
<1> SUFFICES ASSUME s[x].parent \notin Below(s, n) \cup {n}
             PROVE  FALSE
  OBVIOUS
<1> DEFINE S == (Below(s, n) \cup {n}) \ {x}
<1>1. S \in SUBSET (Entities(s) \cup {Root})
  BY BelowSubset
<1>2. n \in S
  OBVIOUS
<1>3. ClosedBelow(s, S)
  BY BelowClosed DEF ClosedBelow
<1>4. Below(s, n) \subseteq S
  BY <1>1, <1>2, <1>3, BelowLeast
<1>5. QED
  BY <1>4

-----------------------------------------------------------------------------
\* To see that a scene is a forest, show that every closed set with Root in
\* it has all entities; a forest offers that for every closed set.
LEMMA ForestRule ==
  ASSUME NEW s
  PROVE  IsForest(s) <=>
           \A S \in SUBSET (Entities(s) \cup {Root}) :
              Root \in S /\ ClosedBelow(s, S) => Entities(s) \subseteq S
BY DEF IsForest, Below
-----------------------------------------------------------------------------
(* One lemma per operation: the result is a scene, over these entities, and *)
(* a forest if the argument was one.                                        *)

\* Two scenes with the same entities and parents are forests together.
LEMMA SameTree ==
  ASSUME NEW s, NEW t, Entities(t) = Entities(s),
         \A x \in Entities(s) : t[x].parent = s[x].parent,
         IsForest(s)
  PROVE  IsForest(t)
<1>1. \A S : ClosedBelow(t, S) => ClosedBelow(s, S)
  BY DEF ClosedBelow
<1>2. QED
  BY <1>1, ForestRule

\* Setting data keeps the tree.
LEMMA SetDataScene ==
  ASSUME NEW s \in Scenes, NEW S, NEW d \in Values
  PROVE  /\ SetData(s, S, d) \in Scenes
         /\ Entities(SetData(s, S, d)) = Entities(s)
         /\ \A x \in Entities(s) :
              /\ SetData(s, S, d)[x].parent = s[x].parent
              /\ SetData(s, S, d)[x].data = IF x \in S THEN d ELSE s[x].data
         /\ IsForest(s) => IsForest(SetData(s, S, d))
<1> DEFINE t == SetData(s, S, d)
<1>1. \A x \in Entities(s) : /\ t[x] \in [parent : Entities(s) \cup {Root}, data : Values]
                             /\ t[x].parent = s[x].parent
                             /\ t[x].data = IF x \in S THEN d ELSE s[x].data
  <2> TAKE x \in Entities(s)
  <2>1. t[x] = IF x \in S THEN [s[x] EXCEPT !.data = d] ELSE s[x]
    BY DEF SetData
  <2>2. s[x] = [parent |-> s[x].parent, data |-> s[x].data] /\ s[x].parent \in Entities(s) \cup {Root}
    BY SceneType
  <2>3. s[x] \in [parent : Entities(s) \cup {Root}, data : Values]
    BY SceneType
  <2>4. [s[x] EXCEPT !.data = d] = [parent |-> s[x].parent, data |-> d]
    BY <2>2
  <2>5. QED
    BY <2>1, <2>2, <2>3, <2>4
<1>2. t \in [Entities(s) -> [parent : Entities(s) \cup {Root}, data : Values]]
  BY <1>1 DEF SetData
<1>3. t \in Scenes /\ Entities(t) = Entities(s)
  BY <1>2, SceneType, SceneIntro
<1>4. QED
  BY <1>1, <1>3, SameTree

\* A new leaf below an entity or at the top level.
LEMMA AddEntityScene ==
  ASSUME NEW s \in Scenes, NEW e \in Ids, e \notin Entities(s), NEW p, NEW d \in Values
  PROVE  /\ AddEntity(s, e, p, d) \in Scenes
         /\ Entities(AddEntity(s, e, p, d)) = Entities(s) \cup {e}
         /\ IsForest(s) => IsForest(AddEntity(s, e, p, d))
<1> DEFINE t == AddEntity(s, e, p, d)
           q == ParentOrRoot(s, p)
           P == Entities(s) \cup {e}
<1>1. q \in Entities(s) \cup {Root}
  BY DEF ParentOrRoot
<1>2. t[e] = [parent |-> q, data |-> d] /\ \A x \in Entities(s) : t[x] = s[x]
  BY DEF AddEntity
<1>3. \A x \in Entities(s) : s[x] \in [parent : P \cup {Root}, data : Values]
  BY SceneType
<1>4. \A x \in P : t[x] \in [parent : P \cup {Root}, data : Values]
  BY <1>1, <1>2, <1>3
<1>5. t \in [P -> [parent : P \cup {Root}, data : Values]]
  BY <1>4 DEF AddEntity
<1>6. t \in Scenes /\ Entities(t) = P
  BY <1>5, SceneType, SceneIntro
<1>7. ASSUME IsForest(s), NEW S \in SUBSET (P \cup {Root}), Root \in S, ClosedBelow(t, S)
      PROVE  P \subseteq S
  <2> DEFINE T == S \cap (Entities(s) \cup {Root})
  <2>1. ClosedBelow(s, T)
    BY <1>2, <1>6, <1>7 DEF ClosedBelow
  <2>2. Entities(s) \subseteq T
    BY <1>7, <2>1, ForestRule
  <2>3. e \in S
    BY <1>1, <1>2, <1>6, <1>7, <2>2 DEF ClosedBelow
  <2>4. QED
    BY <2>2, <2>3
<1>8. IsForest(s) => IsForest(t)
  BY <1>6, <1>7, ForestRule
<1>9. QED
  BY <1>6, <1>8

\* What is left after a removal keeps its parents: none of them was removed.
LEMMA RemoveEntityScene ==
  ASSUME NEW s \in Scenes, NEW e \in Entities(s)
  PROVE  /\ RemoveEntity(s, e) \in Scenes
         /\ Entities(RemoveEntity(s, e)) = Entities(s) \ Below(s, e)
         /\ IsForest(s) => IsForest(RemoveEntity(s, e))
<1> DEFINE t == RemoveEntity(s, e)
           P == Entities(s) \ Below(s, e)
<1>1. \A x \in P : t[x] = s[x]
  BY DEF RemoveEntity, Restrict
<1>2. \A x \in P : s[x].parent \in P \cup {Root}
  <2> TAKE x \in P
  <2>1. s[x].parent \in Entities(s) \cup {Root}
    BY SceneType
  <2>2. s[x].parent \notin Below(s, e)
    BY BelowClosed
  <2>3. QED
    BY <2>1, <2>2
<1>3. \A x \in P : t[x] \in [parent : P \cup {Root}, data : Values]
  BY <1>1, <1>2, SceneType
<1>4. t \in [P -> [parent : P \cup {Root}, data : Values]]
  BY <1>3 DEF RemoveEntity, Restrict
<1>5. t \in Scenes /\ Entities(t) = P
  BY <1>4, SceneType, SceneIntro
<1>6. ASSUME IsForest(s), NEW S \in SUBSET (P \cup {Root}), Root \in S, ClosedBelow(t, S)
      PROVE  P \subseteq S
  <2> DEFINE T == S \cup Below(s, e)
  <2>1. T \in SUBSET (Entities(s) \cup {Root})
    BY <1>6, BelowSubset
  <2>2. ClosedBelow(s, T)
    BY <1>1, <1>5, <1>6, BelowClosed DEF ClosedBelow
  <2>3. Entities(s) \subseteq T
    BY <1>6, <2>1, <2>2, ForestRule
  <2>4. QED
    BY <2>3
<1>7. IsForest(s) => IsForest(t)
  BY <1>5, <1>6, ForestRule
<1>8. QED
  BY <1>5, <1>7

\* A move takes a whole subtree along and never ties it to itself: the new
\* parent is not one of the entities that move.
LEMMA MoveEntityScene ==
  ASSUME NEW s \in Scenes, NEW e \in Entities(s), NEW p
  PROVE  /\ MoveEntity(s, e, p) \in Scenes
         /\ Entities(MoveEntity(s, e, p)) = Entities(s)
         /\ IsForest(s) => IsForest(MoveEntity(s, e, p))
<1> DEFINE D == Below(s, e)
           q == ParentOrRoot(RemoveEntity(s, e), p)
           t == MoveEntity(s, e, p)
<1>1. q \in (Entities(s) \ D) \cup {Root}
  BY RemoveEntityScene DEF ParentOrRoot
<1>2. t = [x \in Entities(s) |-> IF x = e THEN [parent |-> q, data |-> s[e].data] ELSE s[x]]
  <2>1. s[e] = [parent |-> s[e].parent, data |-> s[e].data]
    BY SceneType
  <2>2. [s[e] EXCEPT !.parent = q] = [parent |-> q, data |-> s[e].data]
    BY <2>1
  <2>3. t = [s EXCEPT ![e] = [s[e] EXCEPT !.parent = q]]
    BY DEF MoveEntity
  <2>4. s = [x \in Entities(s) |-> s[x]]
    BY SceneType
  <2> HIDE DEF t, q
  <2>5. QED
    BY <2>2, <2>3, <2>4
<1> HIDE DEF t, q
<1>3. \A x \in Entities(s) : t[x] \in [parent : Entities(s) \cup {Root}, data : Values]
  BY <1>1, <1>2, SceneType
<1>4. t \in [Entities(s) -> [parent : Entities(s) \cup {Root}, data : Values]]
  BY <1>2, <1>3
<1>5. t \in Scenes /\ Entities(t) = Entities(s)
  BY <1>4, SceneType, SceneIntro
<1>6. t[e].parent = q /\ \A x \in Entities(s) \ {e} : t[x].parent = s[x].parent
  BY <1>2
<1>7. ASSUME IsForest(s), NEW S \in SUBSET (Entities(s) \cup {Root}), Root \in S, ClosedBelow(t, S)
      PROVE  Entities(s) \subseteq S
  \* What does not move is in S: add the moved subtree and S is closed in s.
  <2>1. Entities(s) \subseteq S \cup D
    <3>1. S \cup D \in SUBSET (Entities(s) \cup {Root})
      BY <1>7, BelowSubset
    <3>2. ClosedBelow(s, S \cup D)
      <4> SUFFICES ASSUME NEW x \in Entities(s), s[x].parent \in S \cup D, x \notin D
                   PROVE  x \in S
        BY DEF ClosedBelow
      <4>1. x # e /\ s[x].parent \in S
        BY BelowSelf, BelowClosed
      <4>2. QED
        BY <1>5, <1>6, <1>7, <4>1 DEF ClosedBelow
    <3>3. QED
      BY <1>7, <3>1, <3>2, ForestRule
  \* Hence so are the new parent and e, and then the rest of the subtree.
  <2>2. q \in S
    BY <1>1, <1>7, <2>1
  <2>3. e \in S
    BY <1>5, <1>6, <1>7, <2>2 DEF ClosedBelow
  <2>4. D \subseteq S
    <3> DEFINE T == (S \cap D) \cup {e}
    <3>1. T \in SUBSET (Entities(s) \cup {Root})
      BY BelowSubset
    <3>2. ClosedBelow(s, T)
      <4> SUFFICES ASSUME NEW x \in Entities(s), s[x].parent \in T, x # e
                   PROVE  x \in S \cap D
        BY DEF ClosedBelow
      <4>1. s[x].parent \in S
        BY <2>3
      <4>2. x \in S
        BY <1>5, <1>6, <1>7, <4>1 DEF ClosedBelow
      <4>3. x \in D
        BY BelowClosed
      <4>4. QED
        BY <4>2, <4>3
    <3>3. D \subseteq T
      BY <3>1, <3>2, BelowLeast
    <3>4. QED
      BY <2>3, <3>3
  <2>5. QED
    BY <2>1, <2>4
<1>8. IsForest(s) => IsForest(t)
  BY <1>5, <1>7, ForestRule
<1>9. QED
  BY <1>5, <1>8 DEF t

\* A duplicate hangs a copy of the subtree, all of it under new ids, beside
\* the original.
LEMMA CloneEntityScene ==
  ASSUME NEW s \in Scenes, NEW e \in Entities(s),
         NEW fresh \in Injection(Below(s, e), Ids \ Entities(s))
  PROVE  /\ CloneEntity(s, e, fresh) \in Scenes
         /\ Entities(CloneEntity(s, e, fresh)) = Entities(s) \cup Range(fresh)
         /\ IsForest(s) => IsForest(CloneEntity(s, e, fresh))
<1> DEFINE D == Below(s, e)
           P == Entities(s) \cup Range(fresh)
           copy(o) == IF o = e THEN s[e] ELSE [s[o] EXCEPT !.parent = fresh[@]]
           original(x) == CHOOSE o \in DOMAIN fresh : fresh[o] = x
           t == CloneEntity(s, e, fresh)
<1>1. /\ fresh \in [D -> Ids \ Entities(s)]
      /\ DOMAIN fresh = D
      /\ \A a, b \in D : fresh[a] = fresh[b] => a = b
      /\ Range(fresh) = {fresh[o] : o \in D}
  BY DEF Injection, IsInjective, Range
<1>2. e \in D /\ D \subseteq Entities(s)
  BY BelowSelf, BelowSubset
<1>3. \A o \in D : original(fresh[o]) = o
  BY <1>1
<1>4. t = [x \in P |-> IF x \in Entities(s) THEN s[x] ELSE copy(original(x))]
  BY DEF CloneEntity
<1> HIDE DEF t, original, copy
<1>5. \A o \in D : t[fresh[o]] = copy(o)
  BY <1>1, <1>3, <1>4
<1>6. \A x \in Entities(s) : t[x] = s[x]
  BY <1>4
<1>7. copy(e) = s[e]
  BY DEF copy
<1>8. \A o \in D \ {e} : /\ s[o].parent \in D
                         /\ copy(o) = [parent |-> fresh[s[o].parent], data |-> s[o].data]
  <2> TAKE o \in D \ {e}
  <2>1. s[o].parent \in D
    BY <1>2, ParentBelow
  <2>2. s[o] = [parent |-> s[o].parent, data |-> s[o].data]
    BY <1>2, SceneType
  <2>3. [s[o] EXCEPT !.parent = fresh[@]] = [parent |-> fresh[s[o].parent], data |-> s[o].data]
    BY <2>2
  <2>4. QED
    BY <2>1, <2>3 DEF copy
<1>9. \A o \in D : copy(o) \in [parent : P \cup {Root}, data : Values]
  <2>1. copy(e) \in [parent : P \cup {Root}, data : Values]
    BY <1>2, <1>7, SceneType
  <2>2. ASSUME NEW o \in D \ {e}
        PROVE  copy(o) \in [parent : P \cup {Root}, data : Values]
    <3>1. fresh[s[o].parent] \in P
      BY <1>1, <1>8
    <3>2. s[o].data \in Values
      BY <1>2, SceneType
    <3>3. QED
      BY <1>8, <3>1, <3>2
  <2>3. QED
    BY <2>1, <2>2
<1>10. t \in [P -> [parent : P \cup {Root}, data : Values]]
  <2>1. \A x \in Entities(s) : t[x] \in [parent : P \cup {Root}, data : Values]
    BY <1>6, SceneType
  <2>2. \A x \in Range(fresh) : t[x] \in [parent : P \cup {Root}, data : Values]
    BY <1>1, <1>5, <1>9
  <2>3. QED
    BY <1>4, <2>1, <2>2
<1>11. P \in SUBSET Ids
  BY <1>1, SceneType
<1>12. t \in Scenes /\ Entities(t) = P
  BY <1>10, <1>11, SceneIntro
<1>13. ASSUME IsForest(s), NEW S \in SUBSET (P \cup {Root}), Root \in S, ClosedBelow(t, S)
       PROVE  P \subseteq S
  <2>1. Entities(s) \subseteq S
    <3> DEFINE T == S \cap (Entities(s) \cup {Root})
    <3>1. ClosedBelow(s, T)
      BY <1>6, <1>12, <1>13 DEF ClosedBelow
    <3>2. Entities(s) \subseteq T
      BY <1>13, <3>1, ForestRule
    <3>3. QED
      BY <3>2
  <2> DEFINE T == {o \in D : fresh[o] \in S}
  <2>2. \A o \in D : t[fresh[o]].parent \in S => fresh[o] \in S
    BY <1>1, <1>12, <1>13 DEF ClosedBelow
  <2>3. e \in T
    <3>1. s[e].parent \in S
      BY <1>13, <2>1, SceneType
    <3>2. QED
      BY <1>2, <1>5, <1>7, <2>2, <3>1
  <2>4. ClosedBelow(s, T)
    <3> SUFFICES ASSUME NEW x \in Entities(s), s[x].parent \in T, x # e
                 PROVE  x \in T
      BY <2>3 DEF ClosedBelow
    <3>1. x \in D
      BY BelowClosed
    <3>2. t[fresh[x]].parent = fresh[s[x].parent]
      BY <1>5, <1>8, <3>1
    <3>3. QED
      BY <2>2, <3>1, <3>2
  <2>5. D \subseteq T
    <3>1. T \in SUBSET (Entities(s) \cup {Root})
      BY <1>2
    <3>2. QED
      BY <2>3, <2>4, <3>1, BelowLeast
  <2>6. QED
    BY <1>1, <2>1, <2>5
<1>14. IsForest(s) => IsForest(t)
  BY <1>12, <1>13, ForestRule
<1>15. QED
  BY <1>12, <1>14 DEF t

-----------------------------------------------------------------------------
(* Stacks *)

\* A push keeps a stack of snapshots and adds at most one, up to the limit.
LEMMA PushBoundedStack ==
  ASSUME NEW stack \in Seq(Snapshots), NEW x \in Snapshots
  PROVE  /\ PushBounded(stack, x) \in Seq(Snapshots)
         /\ PushBounded(stack, x) # <<>>
         /\ Last(PushBounded(stack, x)) = x
         /\ Len(stack) <= HistoryLimit => Len(PushBounded(stack, x)) <= HistoryLimit
         /\ \A i \in DOMAIN PushBounded(stack, x) :
               \/ PushBounded(stack, x)[i] = x
               \/ \E j \in DOMAIN stack : PushBounded(stack, x)[i] = stack[j]
BY HistoryLimitAssumption DEF PushBounded, Last

\* A pop returns a snapshot and leaves a stack of the others.
LEMMA PopStack ==
  ASSUME NEW stack \in Seq(Snapshots), stack # <<>>
  PROVE  /\ Last(stack) \in Snapshots
         /\ \E j \in DOMAIN stack : Last(stack) = stack[j]
         /\ Front(stack) \in Seq(Snapshots)
         /\ Len(Front(stack)) = Len(stack) - 1
         /\ \A i \in DOMAIN Front(stack) : i \in DOMAIN stack /\ Front(stack)[i] = stack[i]
<1>1. Len(stack) \in Nat /\ Len(stack) > 0 /\ stack \in [1 .. Len(stack) -> Snapshots]
  OBVIOUS
<1>2. Last(stack) = stack[Len(stack)]
  BY DEF Last
<1>3. Front(stack) = [i \in 1 .. Len(stack) - 1 |-> stack[i]]
  BY <1>1 DEF Front
<1>4. Front(stack) \in Seq(Snapshots) /\ Len(Front(stack)) = Len(stack) - 1
  BY <1>1, <1>3
<1>5. QED
  BY <1>1, <1>2, <1>3, <1>4

\* Append, as undo and redo use it on the other stack.
LEMMA AppendStack ==
  ASSUME NEW stack \in Seq(Snapshots), NEW x \in Snapshots
  PROVE  /\ Append(stack, x) \in Seq(Snapshots)
         /\ Len(Append(stack, x)) = Len(stack) + 1
         /\ \A i \in DOMAIN Append(stack, x) :
               Append(stack, x)[i] = x \/ (i \in DOMAIN stack /\ Append(stack, x)[i] = stack[i])
OBVIOUS

-----------------------------------------------------------------------------
(* The kinds of steps *)

\* A load: of a forest, or refused.
LoadStep ==
  \E t \in Texts \cup {NoText}, legacy \in BOOLEAN, source \in {"init", "editor", "disk"} :
    /\ t # NoText => IsForest(t.scene)
    /\ uri' \in Uris
    /\ LoadFromText(t, legacy, source)

\* An edit that serializes: its scene is one, and a forest if the old one was.
CommitStep ==
  \E s \in Scenes : (IsForest(scene) => IsForest(s)) /\ Commit(s)

DragStep ==
  \E e \in Ids, d \in Values : UpdateTransform(e, d) \/ UpdateTransform2D(e, d)

\* Opening, reloading and their refusals are load steps of known texts.
LEMMA LoadIsLoadStep ==
  ASSUME TypeOK, Load \/ RefusedLoad
  PROVE  LoadStep
<1>1. ASSUME NEW s \in Contents, NEW legacy \in BOOLEAN,
             NEW t, t = [scene |-> s, layout |-> "hand"]
      PROVE  t \in Texts /\ t.scene = s /\ IsForest(s)
  BY <1>1, InputAssumption DEF Texts
<1>2. ASSUME Load PROVE LoadStep
  <2>1. PICK s \in Contents, legacy \in BOOLEAN :
          LET t == [scene |-> s, layout |-> "hand"] IN
            \/ \E u \in Uris : Open(u, t, legacy)
            \/ \E source \in {"editor", "disk"} : Reload(t, legacy, source)
    BY <1>2 DEF Load
  <2> DEFINE t == [scene |-> s, layout |-> "hand"]
  <2>2. t \in Texts /\ t.scene = s /\ IsForest(s)
    BY <1>1
  <2> HIDE DEF t
  <2>3. CASE \E u \in Uris : Open(u, t, legacy)
    BY <2>2, <2>3 DEF Open, LoadStep
  <2>4. CASE \E source \in {"editor", "disk"} : Reload(t, legacy, source)
    BY <2>2, <2>4 DEF Reload, LoadStep, TypeOK
  <2>5. QED
    BY <2>1, <2>3, <2>4 DEF t
<1>3. ASSUME RefusedLoad PROVE LoadStep
  <2>1. CASE \E u \in Uris : Open(u, NoText, FALSE)
    BY <2>1 DEF Open, LoadStep
  <2>2. CASE \E source \in {"editor", "disk"} : Reload(NoText, FALSE, source)
    BY <2>2 DEF Reload, LoadStep, TypeOK
  <2>3. QED
    BY <1>3, <2>1, <2>2 DEF RefusedLoad
<1>4. QED
  BY <1>2, <1>3

\* Every edit that is no drag commits a scene made by one tree operation.
LEMMA EditIsCommitStep ==
  ASSUME TypeOK, TreeEdit \/ ValueEdit
  PROVE  CommitStep
<1>1. scene # NoScene => scene \in Scenes
  BY DEF TypeOK
<1>2. ASSUME NEW e \in Ids, NEW p \in Ids \cup {Root}, CreateEntity(e, p)
      PROVE  CommitStep
  <2>1. scene \in Scenes /\ e \notin Entities(scene)
    BY <1>1, <1>2 DEF CreateEntity
  <2>2. QED
    BY <1>2, <2>1, AddEntityScene, InputAssumption DEF CreateEntity, CommitStep
<1>3. ASSUME NEW e \in Ids, NEW p \in Ids \cup {Root}, ReparentEntity(e, p)
      PROVE  CommitStep
  BY <1>1, <1>3, MoveEntityScene DEF ReparentEntity, CommitStep
<1>4. ASSUME NEW e \in Ids, DeleteEntity(e)
      PROVE  CommitStep
  BY <1>1, <1>4, RemoveEntityScene DEF DeleteEntity, CommitStep
<1>5. ASSUME NEW e \in Ids, NEW fresh, DuplicateEntity(e, fresh)
      PROVE  CommitStep
  BY <1>1, <1>5, CloneEntityScene DEF DuplicateEntity, CommitStep
<1>6. ASSUME NEW S, NEW d \in Values, scene # NoScene, Commit(SetData(scene, S, d))
      PROVE  CommitStep
  BY <1>1, <1>6, SetDataScene DEF CommitStep
<1>7. CASE TreeEdit
  BY <1>2, <1>3, <1>4, <1>5, <1>7 DEF TreeEdit
<1>8. CASE ValueEdit
  BY <1>6, <1>8 DEF ValueEdit, EditEntity, CommitInspectorEdit, ApplyComponentTemplateToAll
<1>9. QED
  BY <1>7, <1>8

\* Every step is of one of these kinds.
LEMMA StepKinds ==
  ASSUME TypeOK, Next
  PROVE  LoadStep \/ CommitStep \/ DragStep \/ Undo \/ Redo \/ Select \/ ArmTimerFires \/ SaveTimerFires
BY LoadIsLoadStep, EditIsCommitStep DEF Next, Edit, Drag, DragStep, History

-----------------------------------------------------------------------------
(* The stacks along a step *)

Stacked(x) ==
  (\E i \in DOMAIN undo : undo[i] = x) \/ (\E i \in DOMAIN redo : redo[i] = x)

\* What a stack holds after a step was on a stack before or is the current
\* text, and the two stacks have not outgrown the limit.
StacksFollow ==
  /\ undo' \in Seq(Snapshots) /\ redo' \in Seq(Snapshots)
  /\ \A i \in DOMAIN undo' : Stacked(undo'[i]) \/ (scene # NoScene /\ undo'[i] = Here)
  /\ \A i \in DOMAIN redo' : Stacked(redo'[i]) \/ (scene # NoScene /\ redo'[i] = Here)
  /\ HistoryBounded => HistoryBounded'

\* What the push operations put on a stack is a snapshot.
LEMMA HereIsSnapshot ==
  ASSUME TypeOK, scene # NoScene
  PROVE  Here \in Snapshots /\ raw \in Texts /\ scene \in Scenes
BY DEF TypeOK, Here, Snapshots

\* A step that leaves the two stacks alone leaves their contents alone.
LEMMA SameStacks ==
  ASSUME TypeOK, UNCHANGED histVars
  PROVE  StacksFollow
BY DEF TypeOK, histVars, StacksFollow, Stacked, HistoryBounded

\* PushUndoSnapshot keeps the bound and stacks no text but the current one.
LEMMA PushStacks ==
  ASSUME TypeOK, scene # NoScene, PushUndoSnapshot
  PROVE  StacksFollow
<1>1. CASE UNCHANGED histVars
  BY <1>1, SameStacks
<1>2. CASE undo' = PushBounded(undo, Here) /\ redo' = <<>>
  <2>1. undo \in Seq(Snapshots) /\ Here \in Snapshots
    BY HereIsSnapshot DEF TypeOK
  <2>2. /\ undo' \in Seq(Snapshots)
        /\ Len(undo) <= HistoryLimit => Len(undo') <= HistoryLimit
        /\ \A i \in DOMAIN undo' : undo'[i] = Here \/ \E j \in DOMAIN undo : undo'[i] = undo[j]
    BY <1>2, <2>1, PushBoundedStack
  <2>3. redo' \in Seq(Snapshots) /\ DOMAIN redo' = {} /\ Len(redo') = 0
    BY <1>2
  <2>4. HistoryBounded => HistoryBounded'
    <3>1. Len(undo) \in Nat /\ Len(redo) \in Nat /\ Len(undo') \in Nat /\ HistoryLimit \in Nat
      BY <2>1, <2>2, HistoryLimitAssumption DEF TypeOK
    <3>2. QED
      BY <2>2, <2>3, <3>1 DEF HistoryBounded
  <2>5. QED
    BY <2>2, <2>3, <2>4 DEF StacksFollow, Stacked
<1>3. QED
  BY <1>1, <1>2 DEF PushUndoSnapshot

\* Undo and redo: a pop from one stack and a push on the other.
LEMMA SwapStacks ==
  ASSUME TypeOK, Undo \/ Redo
  PROVE  /\ StacksFollow
         /\ \E x \in Snapshots : Stacked(x) /\ RestoreSnapshot(x)
<1>1. undo \in Seq(Snapshots) /\ redo \in Seq(Snapshots)
  BY DEF TypeOK
<1>2. Len(undo) \in Nat /\ Len(redo) \in Nat /\ HistoryLimit \in Nat
  BY <1>1, HistoryLimitAssumption
<1>3. CASE Undo
  <2>1. scene # NoScene /\ undo # <<>> /\ undo' = Front(undo) /\ redo' = Append(redo, Here)
    BY <1>3 DEF Undo
  <2>2. Here \in Snapshots
    BY <2>1, HereIsSnapshot
  <2>3. /\ undo' \in Seq(Snapshots) /\ Len(undo') = Len(undo) - 1
        /\ \A i \in DOMAIN undo' : Stacked(undo'[i])
    BY <1>1, <2>1, PopStack DEF Stacked
  <2>4. /\ redo' \in Seq(Snapshots) /\ Len(redo') = Len(redo) + 1
        /\ \A i \in DOMAIN redo' : redo'[i] = Here \/ Stacked(redo'[i])
    BY <1>1, <2>1, <2>2, AppendStack DEF Stacked
  <2>5. Last(undo) \in Snapshots /\ Stacked(Last(undo))
    BY <1>1, <2>1, PopStack DEF Stacked
  <2>6. QED
    BY <1>2, <1>3, <2>1, <2>3, <2>4, <2>5 DEF Undo, StacksFollow, HistoryBounded
<1>4. CASE Redo
  <2>1. scene # NoScene /\ redo # <<>> /\ redo' = Front(redo) /\ undo' = Append(undo, Here)
    BY <1>4 DEF Redo
  <2>2. Here \in Snapshots
    BY <2>1, HereIsSnapshot
  <2>3. /\ redo' \in Seq(Snapshots) /\ Len(redo') = Len(redo) - 1
        /\ \A i \in DOMAIN redo' : Stacked(redo'[i])
    BY <1>1, <2>1, PopStack DEF Stacked
  <2>4. /\ undo' \in Seq(Snapshots) /\ Len(undo') = Len(undo) + 1
        /\ \A i \in DOMAIN undo' : undo'[i] = Here \/ Stacked(undo'[i])
    BY <1>1, <2>1, <2>2, AppendStack DEF Stacked
  <2>5. Last(redo) \in Snapshots /\ Stacked(Last(redo))
    BY <1>1, <2>1, PopStack DEF Stacked
  <2>6. QED
    BY <1>2, <1>4, <2>1, <2>3, <2>4, <2>5 DEF Redo, StacksFollow, HistoryBounded
<1>5. QED
  BY <1>3, <1>4

\* A load keeps the bound: it leaves both stacks alone or empties them.
LEMMA LoadStacks ==
  ASSUME TypeOK, LoadStep
  PROVE  StacksFollow
<1>1. UNCHANGED histVars \/ (undo' = <<>> /\ redo' = <<>>)
  BY DEF LoadStep, LoadFromText, ResetHistory, histVars
<1>2. CASE undo' = <<>> /\ redo' = <<>>
  <2>1. undo' \in Seq(Snapshots) /\ redo' \in Seq(Snapshots) /\ Len(undo') = 0 /\ Len(redo') = 0
        /\ DOMAIN undo' = {} /\ DOMAIN redo' = {}
    BY <1>2
  <2>2. HistoryBounded'
    BY <2>1, HistoryLimitAssumption DEF HistoryBounded
  <2>3. QED
    BY <2>1, <2>2 DEF StacksFollow
<1>3. QED
  BY <1>1, <1>2, SameStacks

\* All steps.
LEMMA StacksStep ==
  ASSUME TypeOK, [Next]_vars
  PROVE  StacksFollow
<1>1. CASE LoadStep
  BY <1>1, LoadStacks
<1>2. CASE CommitStep
  BY <1>2, PushStacks DEF CommitStep, Commit
<1>3. CASE DragStep
  BY <1>3, PushStacks, SameStacks
  DEF DragStep, UpdateTransform, UpdateTransform2D, Drags, PushTransformUndoSnapshotOnce
<1>4. CASE Undo \/ Redo
  BY <1>4, SwapStacks
<1>5. CASE Select \/ ArmTimerFires \/ SaveTimerFires \/ UNCHANGED vars
  <2>1. UNCHANGED histVars
    BY <1>5 DEF Select, SelectEntity, ArmTimerFires, SaveTimerFires, vars, histVars
  <2>2. QED
    BY <2>1, SameStacks
<1>6. QED
  BY <1>1, <1>2, <1>3, <1>4, <1>5, StepKinds

-----------------------------------------------------------------------------
(* The scene and its text along a step *)

\* Patching changes the data of one entity of the text's scene at most.
LEMMA PatchedText ==
  ASSUME NEW t \in Texts, NEW e \in Ids, NEW d \in Values
  PROVE  /\ PatchRawTRS(t, e, d) \in Texts
         /\ PatchRawTRS(t, e, d).layout = t.layout
         /\ \E target : /\ PatchRawTRS(t, e, d).scene = SetData(t.scene, {target}, d)
                        /\ t.layout = "canon" => target = IF t.scene[e].data \in Misnamed THEN NoId ELSE e
<1> DEFINE own == IF t.scene[e].data \in Misnamed THEN NoId ELSE e
           target == IF t.layout = "canon" THEN own ELSE PatchTarget[e]
<1>1. t.scene \in Scenes /\ t.layout \in {"hand", "canon"} /\ t = [scene |-> t.scene, layout |-> t.layout]
  BY DEF Texts
<1>2. [t EXCEPT !.scene = SetData(@, {target}, d)]
        = [scene |-> SetData(t.scene, {target}, d), layout |-> t.layout]
  BY <1>1
<1>3. PatchRawTRS(t, e, d) = [scene |-> SetData(t.scene, {target}, d), layout |-> t.layout]
  BY <1>2 DEF PatchRawTRS
<1>4. t.layout = "canon" => target = own
  OBVIOUS
<1> HIDE DEF target
<1>5. SetData(t.scene, {target}, d) \in Scenes
  BY <1>1, SetDataScene
<1>6. PatchRawTRS(t, e, d) \in Texts
  BY <1>1, <1>3, <1>5 DEF Texts
<1>7. PatchRawTRS(t, e, d).layout = t.layout /\ PatchRawTRS(t, e, d).scene = SetData(t.scene, {target}, d)
  BY <1>3
<1>8. QED
  BY <1>4, <1>6, <1>7

\* Serializing a scene gives a text that parses to it.
LEMMA SerializedText ==
  ASSUME NEW s \in Scenes
  PROVE  Serialize(s) \in Texts /\ Serialize(s).scene = s /\ Serialize(s).layout = "canon"
BY DEF Serialize, Texts

\* What the two drags do to the scene, the text and the timers.
LEMMA DragFacts ==
  ASSUME TypeOK, NEW e \in Ids, NEW d \in Values,
         UpdateTransform(e, d) \/ UpdateTransform2D(e, d)
  PROVE  /\ scene \in Scenes /\ raw \in Texts
         /\ scene' = SetData(scene, {e}, d) /\ scene' \in Scenes
         /\ raw' = PatchRawTRS(raw, e, d) \/ raw' = Serialize(scene')
         /\ raw' \in Texts
         /\ armed' = FALSE /\ armTimer' = TRUE /\ saveTimer' = TRUE
         /\ UNCHANGED <<uri, valid, sel, outside>>
<1>1. scene \in Scenes /\ raw \in Texts
  BY HereIsSnapshot DEF UpdateTransform, UpdateTransform2D, Drags
<1>2. scene' = SetData(scene, {e}, d)
  BY DEF UpdateTransform, UpdateTransform2D, Drags
<1>3. scene' \in Scenes
  BY <1>1, <1>2, SetDataScene
<1>4. raw' = PatchRawTRS(raw, e, d) \/ raw' = Serialize(scene')
  BY DEF UpdateTransform, UpdateTransform2D, Drags
<1>5. raw' \in Texts
  BY <1>1, <1>3, <1>4, PatchedText, SerializedText
<1>6. /\ armed' = FALSE /\ armTimer' = TRUE /\ saveTimer' = TRUE
      /\ UNCHANGED <<uri, valid, sel, outside>>
  BY DEF UpdateTransform, UpdateTransform2D, Drags, PushTransformUndoSnapshotOnce
<1>7. QED
  BY <1>1, <1>2, <1>3, <1>4, <1>5, <1>6

\* The parts of a snapshot.
LEMMA SnapshotText ==
  ASSUME NEW x \in Snapshots
  PROVE  x.raw \in Texts /\ x.sel \in Ids \cup {NoId} /\ x.raw.scene \in Scenes
BY DEF Snapshots, Texts

\* What LoadFromText leaves behind: the old document or the loaded one.
LEMMA LoadFacts ==
  ASSUME TypeOK, LoadStep
  PROVE  /\ uri' \in Uris /\ valid' \in BOOLEAN /\ sel' = sel
         /\ \/ /\ UNCHANGED <<scene, raw, undo, redo, armed, armTimer, saveTimer>>
               /\ outside' = outside \/ (outside' = raw /\ raw \in Texts)
            \/ \E t \in Texts :
                 /\ scene' = t.scene /\ scene' \in Scenes /\ raw' = t /\ IsForest(t.scene)
                 /\ undo' = <<>> /\ redo' = <<>> /\ armed' = TRUE /\ armTimer' = FALSE
                 /\ saveTimer' \in BOOLEAN
                 /\ (outside' = NoText /\ saveTimer') \/ outside' = t
<1>1. PICK t \in Texts \cup {NoText}, legacy \in BOOLEAN, source \in {"init", "editor", "disk"} :
        /\ t # NoText => IsForest(t.scene)
        /\ uri' \in Uris
        /\ LoadFromText(t, legacy, source)
  BY DEF LoadStep
<1>2. valid' \in BOOLEAN /\ sel' = sel
  BY <1>1 DEF LoadFromText, TypeOK
<1>3. CASE t = NoText \/ (scene # NoScene /\ t = raw)
  BY <1>1, <1>2, <1>3, HereIsSnapshot DEF LoadFromText
<1>4. CASE ~ (t = NoText \/ (scene # NoScene /\ t = raw))
  <2>1. t \in Texts /\ t.scene \in Scenes
    BY <1>4 DEF Texts
  <2>2. /\ scene' = t.scene /\ raw' = t
        /\ undo' = <<>> /\ redo' = <<>> /\ armed' = TRUE /\ armTimer' = FALSE
        /\ LET migrate == legacy /\ source \in {"init", "disk"}
           IN  saveTimer' = (saveTimer \/ migrate) /\ outside' = IF migrate THEN NoText ELSE t
    BY <1>1, <1>4 DEF LoadFromText, ResetHistory, Parse
  <2>3. saveTimer' \in BOOLEAN /\ ((outside' = NoText /\ saveTimer') \/ outside' = t)
    BY <2>2 DEF TypeOK
  <2>4. QED
    BY <1>1, <1>2, <1>4, <2>1, <2>2, <2>3
<1>5. QED
  BY <1>3, <1>4

-----------------------------------------------------------------------------
(* Type correctness *)

\* Every step preserves the type invariant.
LEMMA TypeStep ==
  ASSUME TypeOK, [Next]_vars
  PROVE  TypeOK'
<1>1. undo' \in Seq(Snapshots) /\ redo' \in Seq(Snapshots)
  BY StacksStep DEF StacksFollow
<1>2. CASE LoadStep
  BY <1>1, <1>2, LoadFacts, AbsentAssumption DEF TypeOK
<1>3. CASE CommitStep
  <2>1. PICK s \in Scenes : Commit(s)
    BY <1>3 DEF CommitStep
  <2>2. raw' \in Texts /\ scene' = s
    BY <2>1, SerializedText DEF Commit
  <2>3. QED
    BY <1>1, <2>1, <2>2, AbsentAssumption DEF Commit, TypeOK
<1>4. CASE DragStep
  <2>1. PICK e \in Ids, d \in Values : UpdateTransform(e, d) \/ UpdateTransform2D(e, d)
    BY <1>4 DEF DragStep
  <2>2. QED
    BY <1>1, <2>1, DragFacts, AbsentAssumption DEF TypeOK
<1>5. CASE Undo \/ Redo
  <2>1. PICK x \in Snapshots : RestoreSnapshot(x)
    BY <1>5, SwapStacks
  <2>2. QED
    BY <1>1, <2>1, SnapshotText, AbsentAssumption DEF RestoreSnapshot, Parse, TypeOK
<1>6. CASE Select
  BY <1>1, <1>6 DEF Select, SelectEntity, docVars, timerVars, TypeOK
<1>7. CASE ArmTimerFires
  BY <1>1, <1>7 DEF ArmTimerFires, docVars, TypeOK
<1>8. CASE SaveTimerFires
  BY <1>1, <1>8 DEF SaveTimerFires, TypeOK
<1>9. CASE UNCHANGED vars
  BY <1>9 DEF vars, TypeOK
<1>10. QED
  BY <1>2, <1>3, <1>4, <1>5, <1>6, <1>7, <1>8, <1>9, StepKinds

\* The initial state has the types.
LEMMA TypeInit ==
  ASSUME Init PROVE TypeOK
<1>1. undo \in Seq(Snapshots) /\ redo \in Seq(Snapshots)
  BY DEF Init
<1>2. armed \in BOOLEAN /\ armTimer \in BOOLEAN /\ saveTimer \in BOOLEAN /\ valid \in BOOLEAN
  BY DEF Init
<1>3. QED
  BY <1>1, <1>2 DEF Init, TypeOK

\* Every variable of the bridge keeps its type, and scene and text are
\* present together.
THEOREM TypeCorrect == Spec => []TypeOK
<1>1. Init => TypeOK
  BY TypeInit
<1>2. TypeOK /\ [Next]_vars => TypeOK'
  BY TypeStep
<1>3. QED
  BY <1>1, <1>2, PTL DEF Spec

-----------------------------------------------------------------------------
(* The history stays within its limit *)

\* Undo and redo entries together never exceed historyLimit.
THEOREM HistoryStaysBounded == Spec => []HistoryBounded
<1>1. Init => HistoryBounded
  BY HistoryLimitAssumption DEF Init, HistoryBounded
<1>2. TypeOK /\ HistoryBounded /\ [Next]_vars => HistoryBounded'
  BY StacksStep DEF StacksFollow
<1>3. QED
  BY <1>1, <1>2, TypeCorrect, PTL DEF Spec

-----------------------------------------------------------------------------
(* Scenes stay forests *)

\* The scenes of stacked texts are forests when all known ones are.
LEMMA StackedIsForest ==
  ASSUME TypeOK, ScenesAreForests, NEW x, Stacked(x)
  PROVE  IsForest(x.raw.scene)
BY DEF ScenesAreForests, KnownTexts, Stacked

\* Every step preserves ScenesAreForests.
LEMMA ForestStep ==
  ASSUME TypeOK, ScenesAreForests, [Next]_vars
  PROVE  ScenesAreForests'
<1>1. scene # NoScene => IsForest(scene) /\ IsForest(raw.scene)
  BY AbsentAssumption DEF ScenesAreForests, KnownTexts, TypeOK
<1>2. /\ \A i \in DOMAIN undo' : IsForest(undo'[i].raw.scene)
      /\ \A i \in DOMAIN redo' : IsForest(redo'[i].raw.scene)
  <2>1. \A x : Stacked(x) \/ (scene # NoScene /\ x = Here) => IsForest(x.raw.scene)
    BY <1>1, StackedIsForest DEF Here
  <2>2. QED
    BY <2>1, StacksStep DEF StacksFollow
<1>3. SUFFICES scene' # NoScene => IsForest(scene') /\ IsForest(raw'.scene)
  BY <1>2, TypeStep DEF ScenesAreForests, KnownTexts, TypeOK
<1>4. CASE LoadStep
  BY <1>1, <1>4, LoadFacts
<1>5. CASE CommitStep
  <2>1. PICK s \in Scenes : (IsForest(scene) => IsForest(s)) /\ Commit(s)
    BY <1>5 DEF CommitStep
  <2>2. QED
    BY <1>1, <2>1, SerializedText DEF Commit
<1>6. CASE DragStep
  <2>1. PICK e \in Ids, d \in Values : UpdateTransform(e, d) \/ UpdateTransform2D(e, d)
    BY <1>6 DEF DragStep
  <2>2. scene # NoScene /\ scene \in Scenes /\ raw \in Texts /\ raw.scene \in Scenes
    BY <2>1, DragFacts DEF UpdateTransform, UpdateTransform2D, Drags, Texts
  <2>3. IsForest(scene')
    <3>1. scene' = SetData(scene, {e}, d)
      BY <2>1, DragFacts
    <3>2. IsForest(scene)
      BY <1>1, <2>2
    <3>3. QED
      BY <2>2, <3>1, <3>2, SetDataScene
  <2>4. IsForest(raw'.scene)
    <3>1. scene' \in Scenes
      BY <2>1, DragFacts
    <3>2. CASE raw' = Serialize(scene')
      BY <2>3, <3>1, <3>2, SerializedText
    <3>3. CASE raw' = PatchRawTRS(raw, e, d)
      <4>1. PICK target : raw'.scene = SetData(raw.scene, {target}, d)
        BY <2>2, <3>3, PatchedText
      <4>2. QED
        BY <1>1, <2>2, <4>1, SetDataScene
    <3>4. QED
      BY <2>1, <3>2, <3>3, DragFacts
  <2>5. QED
    BY <2>3, <2>4
<1>7. CASE Undo \/ Redo
  <2>1. PICK x \in Snapshots : Stacked(x) /\ RestoreSnapshot(x)
    BY <1>7, SwapStacks
  <2>2. QED
    BY <2>1, StackedIsForest DEF RestoreSnapshot, Parse
<1>8. CASE Select \/ ArmTimerFires \/ SaveTimerFires \/ UNCHANGED vars
  <2>1. UNCHANGED <<scene, raw>>
    BY <1>8 DEF Select, SelectEntity, ArmTimerFires, SaveTimerFires, docVars, vars
  <2>2. QED
    BY <1>1, <2>1
<1>9. QED
  BY <1>4, <1>5, <1>6, <1>7, <1>8, StepKinds

\* Every scene the bridge holds, shows, saves or can restore is a forest in
\* which each entity is reached from the top level.
THEOREM ScenesStayForests == Spec => []ScenesAreForests
<1>1. Init => ScenesAreForests
  BY DEF Init, ScenesAreForests, KnownTexts
<1>2. TypeOK /\ ScenesAreForests /\ [Next]_vars => ScenesAreForests'
  BY ForestStep
<1>3. QED
  BY <1>1, <1>2, TypeCorrect, PTL DEF Spec

-----------------------------------------------------------------------------
(* The text describes the scene *)

\* Every step preserves TextDescribesScene.
LEMMA TextStep ==
  ASSUME TypeOK, TextDescribesScene, [Next]_vars
  PROVE  TextDescribesScene'
<1> DEFINE Alike(x, y) == x = y \/ {x, y} \subseteq Misnamed
<1>1. ASSUME scene' \in Scenes, raw'.scene = scene'
      PROVE  TextDescribesScene'
  BY <1>1 DEF TextDescribesScene
<1>2. ASSUME UNCHANGED <<scene, raw>>
      PROVE  TextDescribesScene'
  BY <1>2 DEF TextDescribesScene
<1>3. CASE LoadStep
  BY <1>1, <1>2, <1>3, LoadFacts
<1>4. CASE CommitStep
  BY <1>1, <1>4, SerializedText DEF CommitStep, Commit
<1>5. CASE DragStep
  <2>1. PICK e \in Ids, d \in Values : UpdateTransform(e, d) \/ UpdateTransform2D(e, d)
    BY <1>5 DEF DragStep
  <2>2. /\ scene # NoScene /\ scene \in Scenes /\ raw \in Texts /\ raw.scene \in Scenes
        /\ scene' \in Scenes /\ scene' = SetData(scene, {e}, d)
    BY <2>1, DragFacts DEF UpdateTransform, UpdateTransform2D, Drags, Texts
  <2>3. CASE raw' = Serialize(scene')
    BY <1>1, <2>2, <2>3, SerializedText
  <2>4. CASE raw' = PatchRawTRS(raw, e, d)
    <3>1. raw'.layout = raw.layout
      BY <2>2, <2>4, PatchedText
    <3>2. PICK target : /\ raw'.scene = SetData(raw.scene, {target}, d)
                        /\ raw.layout = "canon" => target = IF raw.scene[e].data \in Misnamed THEN NoId ELSE e
      BY <2>2, <2>4, PatchedText
    <3>3. /\ Entities(raw'.scene) = Entities(raw.scene)
          /\ \A x \in Entities(raw.scene) : raw'.scene[x].parent = raw.scene[x].parent
      BY <2>2, <3>2, SetDataScene
    <3>4. /\ Entities(scene') = Entities(scene)
          /\ \A x \in Entities(scene) : scene'[x].parent = scene[x].parent
      BY <2>2, SetDataScene
    <3>5. /\ Entities(raw.scene) = Entities(scene)
          /\ \A x \in Entities(scene) : raw.scene[x].parent = scene[x].parent
          /\ raw.layout = "canon" =>
               \A x \in Entities(scene) : Alike(raw.scene[x].data, scene[x].data)
      BY <2>2 DEF TextDescribesScene
    <3>6. e \in Entities(scene) /\ (d \in Misnamed <=> scene[e].data \in Misnamed)
      BY <2>1 DEF UpdateTransform, UpdateTransform2D, Drags
    <3>7. ASSUME raw.layout = "canon", NEW x \in Entities(scene)
          PROVE  Alike(raw'.scene[x].data, scene'[x].data)
      <4>1. scene'[x].data = IF x = e THEN d ELSE scene[x].data
        BY <2>2, <3>7, SetDataScene
      <4>2. Alike(raw.scene[x].data, scene[x].data) /\ Alike(raw.scene[e].data, scene[e].data)
        BY <3>5, <3>6, <3>7
      <4>3. CASE raw.scene[e].data \in Misnamed
        <5>1. NoId # x
          <6>1. x \in Ids
            BY <2>2, <3>7, SceneType DEF Entities
          <6>2. QED
            BY <6>1, SentinelAssumption
        <5>2. raw'.scene[x].data = raw.scene[x].data
          BY <2>2, <3>2, <3>5, <3>7, <4>3, <5>1, SetDataScene
        <5>3. QED
          BY <3>6, <4>1, <4>2, <4>3, <5>2
      <4>4. CASE raw.scene[e].data \notin Misnamed
        <5>1. raw'.scene[x].data = IF x = e THEN d ELSE raw.scene[x].data
          BY <2>2, <3>2, <3>5, <3>7, <4>4, SetDataScene
        <5>2. QED
          BY <4>1, <4>2, <5>1
      <4>5. QED
        BY <4>3, <4>4
    <3>8. QED
      BY <2>2, <3>1, <3>3, <3>4, <3>5, <3>7 DEF TextDescribesScene
  <2>5. QED
    BY <2>1, <2>3, <2>4, DragFacts
<1>6. CASE Undo \/ Redo
  <2>1. PICK x \in Snapshots : RestoreSnapshot(x)
    BY <1>6, SwapStacks
  <2>2. QED
    BY <1>1, <2>1, SnapshotText DEF RestoreSnapshot, Parse
<1>7. CASE Select \/ ArmTimerFires \/ SaveTimerFires \/ UNCHANGED vars
  BY <1>2, <1>7 DEF Select, SelectEntity, ArmTimerFires, SaveTimerFires, docVars, vars
<1>8. QED
  BY <1>3, <1>4, <1>5, <1>6, <1>7, StepKinds

\* The text has the tree of the scene in memory, and a serialized text has
\* its data, but for transforms of Misnamed entities.
THEOREM TextAlwaysDescribesScene == Spec => []TextDescribesScene
<1>1. Init => TextDescribesScene
  BY DEF Init, TextDescribesScene
<1>2. TypeOK /\ TextDescribesScene /\ [Next]_vars => TextDescribesScene'
  BY TextStep
<1>3. QED
  BY <1>1, <1>2, TypeCorrect, PTL DEF Spec

-----------------------------------------------------------------------------
(* The timers *)

\* Every step preserves ClosedWindowHasTimer.
LEMMA WindowStep ==
  ASSUME TypeOK, ClosedWindowHasTimer, [Next]_vars
  PROVE  ClosedWindowHasTimer'
<1>1. CASE LoadStep
  <2>1. CASE UNCHANGED <<armed, armTimer>>
    BY <2>1 DEF ClosedWindowHasTimer
  <2>2. CASE armed' = TRUE /\ armTimer' = FALSE
    BY <2>2 DEF ClosedWindowHasTimer
  <2>3. QED
    BY <1>1, <2>1, <2>2, LoadFacts
<1>2. CASE CommitStep
  BY <1>2 DEF CommitStep, Commit, ClosedWindowHasTimer
<1>3. CASE DragStep
  <2>1. PICK e \in Ids, d \in Values : UpdateTransform(e, d) \/ UpdateTransform2D(e, d)
    BY <1>3 DEF DragStep
  <2>2. armed' = FALSE /\ armTimer' = TRUE
    BY <2>1, DragFacts
  <2>3. QED
    BY <2>2 DEF ClosedWindowHasTimer
<1>4. CASE Undo \/ Redo
  BY <1>4 DEF Undo, Redo, RestoreSnapshot, ClosedWindowHasTimer
<1>5. CASE Select \/ SaveTimerFires \/ UNCHANGED vars
  BY <1>5 DEF Select, SelectEntity, SaveTimerFires, timerVars, vars, ClosedWindowHasTimer
<1>6. CASE ArmTimerFires
  BY <1>6 DEF ArmTimerFires, ClosedWindowHasTimer
<1>7. QED
  BY <1>1, <1>2, <1>3, <1>4, <1>5, <1>6, StepKinds

\* A drag window that is closed to snapshots always has its timer running.
THEOREM DragWindowReopens == Spec => []ClosedWindowHasTimer
<1>1. Init => ClosedWindowHasTimer
  BY DEF Init, ClosedWindowHasTimer
<1>2. TypeOK /\ ClosedWindowHasTimer /\ [Next]_vars => ClosedWindowHasTimer'
  BY WindowStep
<1>3. QED
  BY <1>1, <1>2, TypeCorrect, PTL DEF Spec

\* Strengthening: a scene belongs to a file, so no save is lost for want of one.
SceneHasFile == scene # NoScene => uri \in Uris

\* A bridge with a scene has a file.
LEMMA FileStep ==
  ASSUME TypeOK, SceneHasFile, [Next]_vars
  PROVE  SceneHasFile'
<1>1. CASE LoadStep
  BY <1>1, LoadFacts DEF SceneHasFile
<1>2. CASE CommitStep
  BY <1>2 DEF CommitStep, Commit, SceneHasFile
<1>3. CASE DragStep
  BY <1>3 DEF DragStep, UpdateTransform, UpdateTransform2D, Drags, SceneHasFile
<1>4. CASE Undo \/ Redo
  BY <1>4 DEF Undo, Redo, RestoreSnapshot, SceneHasFile
<1>5. CASE Select \/ ArmTimerFires \/ SaveTimerFires \/ UNCHANGED vars
  BY <1>5 DEF Select, SelectEntity, ArmTimerFires, SaveTimerFires, docVars, vars, SceneHasFile
<1>6. QED
  BY <1>1, <1>2, <1>3, <1>4, <1>5, StepKinds

\* Every step preserves UnsavedHasTimer, given the file.
LEMMA SaveStep ==
  ASSUME TypeOK, SceneHasFile, UnsavedHasTimer, [Next]_vars
  PROVE  UnsavedHasTimer'
<1>1. CASE LoadStep
  <2>1. CASE /\ UNCHANGED <<scene, raw, saveTimer>>
             /\ outside' = outside \/ outside' = raw
    BY <2>1 DEF UnsavedHasTimer
  <2>2. CASE saveTimer' \/ outside' = raw'
    BY <2>2 DEF UnsavedHasTimer
  <2>3. QED
    BY <1>1, <2>1, <2>2, LoadFacts
<1>2. CASE CommitStep
  BY <1>2 DEF CommitStep, Commit, UnsavedHasTimer
<1>3. CASE DragStep
  BY <1>3 DEF DragStep, UpdateTransform, UpdateTransform2D, Drags, UnsavedHasTimer
<1>4. CASE Undo \/ Redo
  BY <1>4 DEF Undo, Redo, RestoreSnapshot, UnsavedHasTimer
<1>5. CASE Select \/ ArmTimerFires \/ UNCHANGED vars
  BY <1>5 DEF Select, SelectEntity, ArmTimerFires, docVars, timerVars, vars, UnsavedHasTimer
<1>6. CASE SaveTimerFires
  BY <1>6, SentinelAssumption DEF SaveTimerFires, UnsavedHasTimer, SceneHasFile
<1>7. QED
  BY <1>1, <1>2, <1>3, <1>4, <1>5, <1>6, StepKinds

\* Text the file side has not got always has a save timer running.
THEOREM UnsavedTextHasTimer == Spec => []UnsavedHasTimer
<1>1. Init => SceneHasFile /\ UnsavedHasTimer
  BY DEF Init, SceneHasFile, UnsavedHasTimer
<1>2. TypeOK /\ SceneHasFile /\ UnsavedHasTimer /\ [Next]_vars => SceneHasFile' /\ UnsavedHasTimer'
  BY FileStep, SaveStep
<1>3. QED
  BY <1>1, <1>2, TypeCorrect, PTL DEF Spec

-----------------------------------------------------------------------------
(* Edits can be undone *)

\* After a push the text it was called under is on top of the undo stack.
LEMMA PushLeavesText ==
  ASSUME TypeOK, scene # NoScene, PushUndoSnapshot
  PROVE  undo' # <<>> /\ Last(undo').raw = raw
<1>1. CASE undo # <<>> /\ Last(undo).raw = raw /\ UNCHANGED histVars
  BY <1>1 DEF histVars
<1>2. CASE undo' = PushBounded(undo, Here)
  <2>1. undo' # <<>> /\ Last(undo') = Here
    BY <1>2, HereIsSnapshot, PushBoundedStack DEF TypeOK
  <2>2. QED
    BY <2>1 DEF Here
<1>3. QED
  BY <1>1, <1>2 DEF PushUndoSnapshot

\* Every edit outside a drag under way leaves the text before it on top of
\* the undo stack.
THEOREM EditsAreUndoable == Spec => EditIsUndoable
<1>1. ASSUME TypeOK, [Next]_vars
      PROVE  [Edit /\ raw' # raw /\ (armed \/ ~ Drag) => undo' # <<>> /\ Last(undo').raw = raw]_vars
  <2>1. ASSUME Edit, armed \/ ~ Drag
        PROVE  undo' # <<>> /\ Last(undo').raw = raw
    <3>1. CASE Drag
      BY <1>1, <2>1, <3>1, PushLeavesText
      DEF Drag, UpdateTransform, UpdateTransform2D, Drags, PushTransformUndoSnapshotOnce
    <3>2. CASE TreeEdit \/ ValueEdit
      BY <1>1, <3>2, EditIsCommitStep, PushLeavesText DEF CommitStep, Commit
    <3>3. QED
      BY <2>1, <3>1, <3>2 DEF Edit
  <2>2. QED
    BY <2>1
<1>2. QED
  BY <1>1, TypeCorrect, PTL DEF Spec, EditIsUndoable

-----------------------------------------------------------------------------
(* The bridge as a text *)

\* A load opens the text, keeps it or is refused.
LEMMA LoadRefines ==
  ASSUME TypeOK, LoadStep
  PROVE  Document!Next
<1>1. PICK t \in Texts \cup {NoText}, legacy \in BOOLEAN, source \in {"init", "editor", "disk"} :
        uri' \in Uris /\ LoadFromText(t, legacy, source)
  BY DEF LoadStep
<1>2. PICK migrated \in BOOLEAN : migrated = (legacy /\ source \in {"init", "disk"})
  OBVIOUS
<1>3. CASE t = NoText \/ (scene # NoScene /\ t = raw)
  <2>1. Document!LoadFromText(t, migrated)
    BY <1>1, <1>3 DEF LoadFromText, Document!LoadFromText
  <2>2. QED
    BY <1>1, <2>1 DEF Document!Next, Document!Open
<1>4. CASE ~ (t = NoText \/ (scene # NoScene /\ t = raw))
  <2>1. t \notin {NoText, raw}
    BY <1>4 DEF TypeOK
  <2>2. raw' = t /\ saveTimer' = (saveTimer \/ migrated)
    BY <1>1, <1>2, <1>4 DEF LoadFromText
  <2>3. Document!LoadFromText(t, migrated)
    BY <2>1, <2>2 DEF Document!LoadFromText
  <2>4. QED
    BY <1>1, <2>3 DEF Document!Next, Document!Open
<1>5. QED
  BY <1>3, <1>4

\* An edit, an undo or a redo edits the text and leaves a save due.
LEMMA EditRefines ==
  ASSUME TypeOK, TypeOK', raw # NoText, raw' # NoText, saveTimer' = TRUE, uri' = uri
  PROVE  Document!Next
BY DEF TypeOK, Document!Next, Document!Edit

\* The bridge implements a text, the file it belongs to and a save that is
\* due: whatever the mix of edits, drags, undos and loads, none forgets the
\* save, none moves the text to another file, and a load replaces the text
\* as a whole or not at all.
THEOREM BridgeImplementsText == Spec => ImplementsTextBridge
<1>1. Init => Document!Init
  BY DEF Init, Document!Init
<1>2. ASSUME TypeOK, TypeOK', [Next]_vars
      PROVE  [Document!Next]_<<uri, raw, saveTimer>>
  <2>1. CASE LoadStep
    BY <1>2, <2>1, LoadRefines
  <2>2. CASE CommitStep
    <3>1. PICK s \in Scenes : Commit(s)
      BY <2>2 DEF CommitStep
    <3>2. scene # NoScene /\ raw' \in Texts /\ saveTimer' = TRUE /\ uri' = uri
      BY <3>1, SerializedText DEF Commit
    <3>3. QED
      BY <1>2, <3>2, EditRefines, AbsentAssumption DEF TypeOK
  <2>3. CASE DragStep
    <3>1. PICK e \in Ids, d \in Values : UpdateTransform(e, d) \/ UpdateTransform2D(e, d)
      BY <2>3 DEF DragStep
    <3>2. raw \in Texts /\ raw' \in Texts /\ saveTimer' = TRUE /\ uri' = uri
      BY <1>2, <3>1, DragFacts
    <3>3. QED
      BY <1>2, <3>2, EditRefines, AbsentAssumption
  <2>4. CASE Undo \/ Redo
    <3>1. PICK x \in Snapshots : RestoreSnapshot(x)
      BY <1>2, <2>4, SwapStacks
    <3>2. scene # NoScene /\ raw' = x.raw /\ saveTimer' = TRUE /\ uri' = uri
      BY <2>4, <3>1 DEF Undo, Redo, RestoreSnapshot
    <3>3. raw' \in Texts
      BY <3>1, <3>2, SnapshotText
    <3>4. QED
      BY <1>2, <3>2, <3>3, EditRefines, AbsentAssumption DEF TypeOK
  <2>5. CASE Select \/ ArmTimerFires \/ UNCHANGED vars
    BY <2>5 DEF Select, SelectEntity, ArmTimerFires, docVars, timerVars, vars
  <2>6. CASE SaveTimerFires
    <3>1. Document!SaveTimerFires
      BY <2>6 DEF SaveTimerFires, Document!SaveTimerFires
    <3>2. QED
      BY <3>1 DEF Document!Next
  <2>7. QED
    BY <1>2, <2>1, <2>2, <2>3, <2>4, <2>5, <2>6, StepKinds
<1>3. QED
  BY <1>1, <1>2, TypeCorrect, PTL
  DEF Spec, ImplementsTextBridge, Document!Spec, Document!bridgeVars

-----------------------------------------------------------------------------
(* The two stacks as a line *)

\* The line by its positions: what undo goes back to, the text, and what
\* redo goes on to, the last undone first.
LineOf(u, t, r) ==
  [i \in 1 .. Len(u) + 1 + Len(r) |->
     IF i <= Len(u) THEN u[i].raw
     ELSE IF i = Len(u) + 1 THEN t
     ELSE r[Len(u) + Len(r) + 2 - i].raw]

\* The texts of a stack.
LEMMA StackTexts ==
  ASSUME NEW u \in Seq(Snapshots)
  PROVE  /\ [i \in DOMAIN u |-> u[i].raw] \in Seq(Texts)
         /\ Len([i \in DOMAIN u |-> u[i].raw]) = Len(u)
<1>1. Len(u) \in Nat /\ DOMAIN u = 1 .. Len(u)
  OBVIOUS
<1>2. \A i \in 1 .. Len(u) : u[i].raw \in Texts
  BY SnapshotText
<1>3. [i \in 1 .. Len(u) |-> u[i].raw] \in Seq(Texts)
  BY <1>1, <1>2
<1>4. QED
  BY <1>1, <1>3

\* A line is a sequence of texts.
LEMMA LineTexts ==
  ASSUME NEW u \in Seq(Snapshots), NEW t \in Texts, NEW r \in Seq(Snapshots)
  PROVE  /\ LineOf(u, t, r) \in Seq(Texts)
         /\ Len(LineOf(u, t, r)) = Len(u) + 1 + Len(r)
         /\ DOMAIN LineOf(u, t, r) = 1 .. Len(u) + 1 + Len(r)
<1>1. Len(u) \in Nat /\ Len(r) \in Nat /\ Len(u) + 1 + Len(r) \in Nat
  OBVIOUS
<1>2. ASSUME NEW i \in 1 .. Len(u) + 1 + Len(r)
      PROVE  LineOf(u, t, r)[i] \in Texts
  <2>1. CASE i <= Len(u)
    BY <1>1, <2>1, SnapshotText DEF LineOf
  <2>2. CASE i = Len(u) + 1
    BY <1>1, <2>2 DEF LineOf
  <2>3. CASE i > Len(u) + 1
    <3>1. Len(u) + Len(r) + 2 - i \in 1 .. Len(r)
      BY <1>1, <2>3
    <3>2. r[Len(u) + Len(r) + 2 - i] \in Snapshots
      BY <3>1
    <3>3. QED
      BY <1>1, <2>3, <3>2, SnapshotText DEF LineOf
  <2>4. QED
    BY <1>1, <2>1, <2>2, <2>3
<1>3. QED
  BY <1>1, <1>2 DEF LineOf

\* The refinement mapping gives that line.
LEMMA LineByPosition ==
  ASSUME NEW u \in Seq(Snapshots), NEW t \in Texts, NEW r \in Seq(Snapshots)
  PROVE  [i \in DOMAIN u |-> u[i].raw] \o <<t>> \o Reverse([i \in DOMAIN r |-> r[i].raw])
           = LineOf(u, t, r)
<1> DEFINE past   == [i \in DOMAIN u |-> u[i].raw]
           undone == [i \in DOMAIN r |-> r[i].raw]
           ahead  == Reverse(undone)
<1>1. /\ past \in Seq(Texts) /\ Len(past) = Len(u) /\ \A i \in 1 .. Len(u) : past[i] = u[i].raw
      /\ undone \in Seq(Texts) /\ Len(undone) = Len(r) /\ \A i \in 1 .. Len(r) : undone[i] = r[i].raw
      /\ Len(u) \in Nat /\ Len(r) \in Nat
  BY StackTexts
<1>2. ahead = [i \in 1 .. Len(undone) |-> undone[(Len(undone) - i) + 1]]
  BY DEF Reverse
<1> HIDE DEF past, undone, ahead
<1>3. \A i \in 1 .. Len(r) : ahead[i] = r[Len(r) - i + 1].raw /\ ahead[i] \in Texts
  <2>1. ASSUME NEW i \in 1 .. Len(r)
        PROVE  ahead[i] = r[Len(r) - i + 1].raw /\ ahead[i] \in Texts
    <3>1. Len(r) - i + 1 \in 1 .. Len(r)
      BY <1>1
    <3>2. ahead[i] = undone[Len(r) - i + 1]
      BY <1>1, <1>2
    <3>3. QED
      BY <1>1, <3>1, <3>2
  <2>2. QED
    BY <2>1
<1>4. ahead \in Seq(Texts) /\ Len(ahead) = Len(r)
  BY <1>1, <1>2, <1>3
<1> DEFINE front == past \o <<t>>
<1>5. /\ front \in Seq(Texts) /\ Len(front) = Len(u) + 1
      /\ \A i \in 1 .. Len(u) : front[i] = u[i].raw
      /\ front[Len(u) + 1] = t
  BY <1>1
<1> HIDE DEF front
<1> DEFINE whole == front \o ahead
<1>6. /\ whole \in Seq(Texts) /\ Len(whole) = Len(u) + 1 + Len(r)
      /\ \A i \in 1 .. Len(u) + 1 + Len(r) :
           whole[i] = IF i <= Len(u) + 1 THEN front[i] ELSE ahead[i - (Len(u) + 1)]
  <2> front \in Seq(Texts) /\ ahead \in Seq(Texts)
    BY <1>4, <1>5
  <2>1. /\ whole \in Seq(Texts) /\ Len(whole) = Len(front) + Len(ahead)
        /\ \A i \in 1 .. Len(front) + Len(ahead) :
             whole[i] = IF i <= Len(front) THEN front[i] ELSE ahead[i - Len(front)]
    BY ConcatProperties, Zenon
  <2> HIDE DEF whole
  <2>2. QED
    BY <1>1, <1>4, <1>5, <2>1
<1> HIDE DEF whole
<1>7. ASSUME NEW i \in 1 .. Len(u) + 1 + Len(r)
      PROVE  whole[i] = LineOf(u, t, r)[i]
  <2>1. CASE i <= Len(u)
    BY <1>1, <1>5, <1>6, <2>1 DEF LineOf
  <2>2. CASE i = Len(u) + 1
    BY <1>1, <1>5, <1>6, <2>2 DEF LineOf
  <2>3. CASE i > Len(u) + 1
    <3>1. i - (Len(u) + 1) \in 1 .. Len(r) /\ Len(r) - (i - (Len(u) + 1)) + 1 = Len(u) + Len(r) + 2 - i
      BY <1>1, <2>3
    <3>2. ahead[i - (Len(u) + 1)] = r[Len(u) + Len(r) + 2 - i].raw
      BY <1>3, <3>1
    <3>3. LineOf(u, t, r)[i] = r[Len(u) + Len(r) + 2 - i].raw
      BY <1>1, <2>3 DEF LineOf
    <3>4. QED
      BY <1>6, <2>3, <3>2, <3>3
  <2>4. QED
    BY <1>1, <2>1, <2>2, <2>3
<1>8. whole = LineOf(u, t, r)
  <2>1. /\ LineOf(u, t, r) \in Seq(Texts) /\ Len(LineOf(u, t, r)) = Len(u) + 1 + Len(r)
    BY LineTexts
  <2>2. QED
    BY <1>6, <1>7, <2>1
<1>9. QED
  BY <1>8 DEF whole, front, past, ahead, undone

\* What is where on a line.
IsLine(line, u, t, r) ==
  /\ line \in Seq(Texts)
  /\ Len(line) = Len(u) + 1 + Len(r)
  /\ \A i \in 1 .. Len(u) : line[i] = u[i].raw
  /\ line[Len(u) + 1] = t
  /\ \A i \in 1 .. Len(r) : line[Len(u) + 1 + Len(r) + 1 - i] = r[i].raw

\* LineOf puts it there.
LEMMA LineAt ==
  ASSUME NEW u \in Seq(Snapshots), NEW t \in Texts, NEW r \in Seq(Snapshots)
  PROVE  IsLine(LineOf(u, t, r), u, t, r)
<1>1. Len(u) \in Nat /\ Len(r) \in Nat
  OBVIOUS
<1>2. /\ LineOf(u, t, r) \in Seq(Texts)
      /\ Len(LineOf(u, t, r)) = Len(u) + 1 + Len(r)
  BY LineTexts
<1>3. ASSUME NEW i \in 1 .. Len(u)
      PROVE  LineOf(u, t, r)[i] = u[i].raw
  BY <1>1 DEF LineOf
<1>4. LineOf(u, t, r)[Len(u) + 1] = t
  BY <1>1 DEF LineOf
<1>5. ASSUME NEW i \in 1 .. Len(r)
      PROVE  LineOf(u, t, r)[Len(u) + 1 + Len(r) + 1 - i] = r[i].raw
  <2> DEFINE j == Len(u) + 1 + Len(r) + 1 - i
  <2>1. /\ j \in 1 .. Len(u) + 1 + Len(r) /\ ~ (j <= Len(u)) /\ j # Len(u) + 1
        /\ Len(u) + Len(r) + 2 - j = i
    BY <1>1
  <2> HIDE DEF j
  <2>2. LineOf(u, t, r)[j] = r[i].raw
    BY <2>1 DEF LineOf
  <2>3. QED
    BY <2>2 DEF j
<1>6. QED
  BY <1>2, <1>3, <1>4, <1>5 DEF IsLine

\* Lines are equal when they agree at every position.
LEMMA SameLine ==
  ASSUME NEW a \in Seq(Texts), NEW b \in Seq(Texts), Len(a) = Len(b),
         \A i \in 1 .. Len(a) : a[i] = b[i]
  PROVE  a = b
OBVIOUS

\* Moving the cursor over one text moves the text from one stack to the
\* other and leaves the line alone.
LEMMA ShiftLine ==
  ASSUME NEW v \in Seq(Snapshots), NEW x \in Snapshots, NEW y \in Snapshots, NEW q \in Seq(Snapshots)
  PROVE  LineOf(Append(v, x), y.raw, q) = LineOf(v, x.raw, Append(q, y))
<1>1. PICK u \in Seq(Snapshots) :
        /\ u = Append(v, x) /\ Len(u) = Len(v) + 1 /\ u[Len(v) + 1] = x
        /\ \A i \in 1 .. Len(v) : u[i] = v[i]
  <2>1. /\ Append(v, x) \in Seq(Snapshots)
        /\ Len(Append(v, x)) = Len(v) + 1 /\ Append(v, x)[Len(v) + 1] = x
        /\ \A i \in 1 .. Len(v) : Append(v, x)[i] = v[i]
    OBVIOUS
  <2>2. QED
    BY <2>1, Zenon
<1>2. PICK r \in Seq(Snapshots) :
        /\ r = Append(q, y) /\ Len(r) = Len(q) + 1 /\ r[Len(q) + 1] = y
        /\ \A i \in 1 .. Len(q) : r[i] = q[i]
  <2>1. /\ Append(q, y) \in Seq(Snapshots)
        /\ Len(Append(q, y)) = Len(q) + 1 /\ Append(q, y)[Len(q) + 1] = y
        /\ \A i \in 1 .. Len(q) : Append(q, y)[i] = q[i]
    OBVIOUS
  <2>2. QED
    BY <2>1, Zenon
<1>3. PICK s \in Texts, t \in Texts : s = y.raw /\ t = x.raw
  BY SnapshotText
<1>4. PICK a \in Seq(Texts) : a = LineOf(u, s, q) /\ IsLine(a, u, s, q)
  BY LineAt, LineTexts
<1>5. PICK b \in Seq(Texts) : b = LineOf(v, t, r) /\ IsLine(b, v, t, r)
  BY LineAt, LineTexts
<1>6. Len(v) \in Nat /\ Len(q) \in Nat
  OBVIOUS
<1>7. ASSUME NEW i \in 1 .. Len(a)
      PROVE  a[i] = b[i]
  <2>1. CASE i <= Len(v)
    <3>1. i \in 1 .. Len(v) /\ i \in 1 .. Len(u)
      BY <1>1, <1>6, <2>1
    <3>2. QED
      BY <1>1, <1>4, <1>5, <3>1 DEF IsLine
  <2>2. CASE i = Len(v) + 1
    <3>1. i \in 1 .. Len(u)
      BY <1>1, <1>6, <2>2
    <3>2. QED
      BY <1>1, <1>3, <1>4, <1>5, <2>2, <3>1 DEF IsLine
  <2>3. CASE i = Len(v) + 2
    <3>1. Len(q) + 1 \in 1 .. Len(r) /\ i = Len(v) + 1 + Len(r) + 1 - (Len(q) + 1) /\ i = Len(u) + 1
      BY <1>1, <1>2, <1>6, <2>3
    <3>2. b[i] = r[Len(q) + 1].raw
      BY <1>5, <3>1 DEF IsLine
    <3>3. a[i] = s
      BY <1>4, <3>1 DEF IsLine
    <3>4. QED
      BY <1>2, <1>3, <3>2, <3>3
  <2>4. CASE i > Len(v) + 2
    <3>1. PICK k \in 1 .. Len(q) : i = Len(u) + 1 + Len(q) + 1 - k
      <4>1. Len(v) + Len(q) + 3 - i \in 1 .. Len(q)
        BY <1>1, <1>4, <1>6, <2>4 DEF IsLine
      <4>2. i = Len(u) + 1 + Len(q) + 1 - (Len(v) + Len(q) + 3 - i)
        BY <1>1, <1>4, <1>6 DEF IsLine
      <4>3. QED
        BY <4>1, <4>2
    <3>2. k \in 1 .. Len(r) /\ i = Len(v) + 1 + Len(r) + 1 - k
      BY <1>1, <1>2, <1>6, <3>1
    <3>3. a[i] = q[k].raw
      BY <1>4, <3>1 DEF IsLine
    <3>4. b[i] = r[k].raw
      BY <1>5, <3>2 DEF IsLine
    <3>5. QED
      BY <1>2, <3>3, <3>4
  <2>5. i <= Len(v) \/ i = Len(v) + 1 \/ i = Len(v) + 2 \/ i > Len(v) + 2
    BY <1>6
  <2>6. QED
    BY <2>1, <2>2, <2>3, <2>4, <2>5, Zenon
<1>8. Len(a) = Len(b)
  BY <1>1, <1>2, <1>4, <1>5, <1>6 DEF IsLine
<1>9. a = b
  BY <1>7, <1>8, SameLine
<1>10. QED
  BY <1>1, <1>2, <1>3, <1>4, <1>5, <1>9

\* A stack is its top on the rest.
LEMMA StackTop ==
  ASSUME NEW u \in Seq(Snapshots), u # <<>>
  PROVE  u = Append(Front(u), Last(u))
<1>1. PICK x \in Snapshots : x = Last(u) /\ x = u[Len(u)]
  BY DEF Last
<1>2. PICK v \in Seq(Snapshots) : v = Front(u) /\ Len(v) = Len(u) - 1 /\ \A i \in 1 .. Len(u) - 1 : v[i] = u[i]
  BY PopStack
<1>3. u = Append(v, x)
  BY <1>1, <1>2
<1>4. QED
  BY <1>1, <1>2, <1>3

\* Undo moves the cursor back by one.
LEMMA UndoLine ==
  ASSUME NEW u \in Seq(Snapshots), NEW h \in Snapshots, NEW r \in Seq(Snapshots), u # <<>>
  PROVE  LineOf(Front(u), Last(u).raw, Append(r, h)) = LineOf(u, h.raw, r)
<1>1. Front(u) \in Seq(Snapshots) /\ Last(u) \in Snapshots
  BY PopStack
<1>2. LineOf(Append(Front(u), Last(u)), h.raw, r) = LineOf(Front(u), Last(u).raw, Append(r, h))
  BY <1>1, ShiftLine, Zenon
<1>3. QED
  BY <1>2, StackTop, Zenon

\* Redo moves the cursor on by one.
LEMMA RedoLine ==
  ASSUME NEW u \in Seq(Snapshots), NEW h \in Snapshots, NEW r \in Seq(Snapshots), r # <<>>
  PROVE  LineOf(Append(u, h), Last(r).raw, Front(r)) = LineOf(u, h.raw, r)
<1>1. Front(r) \in Seq(Snapshots) /\ Last(r) \in Snapshots
  BY PopStack
<1>2. LineOf(Append(u, h), Last(r).raw, Front(r)) = LineOf(u, h.raw, Append(Front(r), Last(r)))
  BY <1>1, ShiftLine, Zenon
<1>3. QED
  BY <1>2, StackTop, Zenon

\* Without a push the text under the cursor is replaced, and nothing else.
LEMMA ReplaceLine ==
  ASSUME NEW u \in Seq(Snapshots), NEW t \in Texts, NEW r \in Seq(Snapshots), NEW new \in Texts
  PROVE  LineOf(u, new, r) = [LineOf(u, t, r) EXCEPT ![Len(u) + 1] = new]
<1>1. Len(u) \in Nat /\ Len(r) \in Nat
  OBVIOUS
<1>2. PICK a : a = LineOf(u, t, r) /\ a = [i \in 1 .. Len(u) + 1 + Len(r) |-> a[i]]
                 /\ \A i \in 1 .. Len(u) + 1 + Len(r) : a[i] = LineOf(u, t, r)[i]
  BY DEF LineOf
<1>3. PICK b : b = LineOf(u, new, r) /\ b = [i \in 1 .. Len(u) + 1 + Len(r) |-> b[i]]
                 /\ \A i \in 1 .. Len(u) + 1 + Len(r) : b[i] = LineOf(u, new, r)[i]
  BY DEF LineOf
<1>4. Len(u) + 1 \in 1 .. Len(u) + 1 + Len(r)
  BY <1>1
<1>5. ASSUME NEW i \in 1 .. Len(u) + 1 + Len(r)
      PROVE  b[i] = IF i = Len(u) + 1 THEN new ELSE a[i]
  BY <1>1, <1>2, <1>3, <1>5 DEF LineOf
<1>6. b = [a EXCEPT ![Len(u) + 1] = new]
  BY <1>2, <1>3, <1>4, <1>5
<1>7. QED
  BY <1>2, <1>3, <1>6

\* A line with nothing ahead of the cursor ends in the text under it.
LEMMA LineEnds ==
  ASSUME NEW v \in Seq(Snapshots), NEW t \in Texts, NEW kept \in Seq(Texts),
         Len(kept) = Len(v), \A i \in 1 .. Len(v) : kept[i] = v[i].raw
  PROVE  LineOf(v, t, <<>>) = Append(kept, t)
<1>1. PICK none \in Seq(Snapshots) : none = <<>> /\ Len(none) = 0
  <2>1. <<>> \in Seq(Snapshots) /\ Len(<<>>) = 0
    OBVIOUS
  <2>2. QED
    BY <2>1, Zenon
<1>2. PICK a \in Seq(Texts) : a = LineOf(v, t, none) /\ IsLine(a, v, t, none)
  BY LineAt, LineTexts
<1>3. /\ Append(kept, t) \in Seq(Texts) /\ Len(Append(kept, t)) = Len(v) + 1
      /\ \A i \in 1 .. Len(v) : Append(kept, t)[i] = v[i].raw
      /\ Append(kept, t)[Len(v) + 1] = t
  OBVIOUS
<1>4. PICK b \in Seq(Texts) :
        /\ b = Append(kept, t) /\ Len(b) = Len(v) + 1
        /\ \A i \in 1 .. Len(v) : b[i] = v[i].raw
        /\ b[Len(v) + 1] = t
  BY <1>3, Zenon
<1>5. Len(v) \in Nat /\ Len(a) = Len(v) + 1 /\ Len(b) = Len(v) + 1
  BY <1>1, <1>2, <1>4 DEF IsLine
<1>6. ASSUME NEW i \in 1 .. Len(a)
      PROVE  a[i] = b[i]
  <2>1. i \in 1 .. Len(v) \/ i = Len(v) + 1
    BY <1>5
  <2>2. QED
    BY <1>2, <1>4, <2>1 DEF IsLine
<1>7. a = b
  BY <1>5, <1>6, SameLine
<1>8. QED
  BY <1>1, <1>2, <1>4, <1>7

\* A push keeps what lies behind the cursor and the text under it, but for
\* the oldest beyond the limit, and drops what lies ahead.
LEMMA PushLine ==
  ASSUME NEW u \in Seq(Snapshots), NEW h \in Snapshots, NEW r \in Seq(Snapshots), NEW t \in Texts
  PROVE  LET past == SubSeq(LineOf(u, h.raw, r), 1, Len(u) + 1)
             kept == IF Len(u) + 1 > HistoryLimit THEN Tail(past) ELSE past
         IN  /\ LineOf(PushBounded(u, h), t, <<>>) = Append(kept, t)
             /\ Len(PushBounded(u, h)) = Len(kept)
<1>1. PICK old \in Texts : old = h.raw
  BY SnapshotText
<1>2. PICK line \in Seq(Texts) : line = LineOf(u, old, r) /\ IsLine(line, u, old, r)
  BY LineAt, LineTexts
<1>3. Len(u) \in Nat /\ Len(r) \in Nat /\ HistoryLimit \in Nat \ {0}
  BY HistoryLimitAssumption
<1>4. PICK past \in Seq(Texts) :
        /\ past = SubSeq(line, 1, Len(u) + 1) /\ Len(past) = Len(u) + 1
        /\ \A i \in 1 .. Len(u) : past[i] = u[i].raw
        /\ past[Len(u) + 1] = old
  <2>1. Len(u) + 1 <= Len(line)
    BY <1>2, <1>3 DEF IsLine
  <2>2. /\ SubSeq(line, 1, Len(u) + 1) \in Seq(Texts)
        /\ Len(SubSeq(line, 1, Len(u) + 1)) = Len(u) + 1
        /\ \A i \in 1 .. Len(u) + 1 : SubSeq(line, 1, Len(u) + 1)[i] = line[i]
    BY <1>3, <2>1
  <2>3. \A i \in 1 .. Len(u) : line[i] = u[i].raw /\ i \in 1 .. Len(u) + 1
    BY <1>2, <1>3 DEF IsLine
  <2>4. line[Len(u) + 1] = old /\ Len(u) + 1 \in 1 .. Len(u) + 1
    BY <1>2, <1>3 DEF IsLine
  <2>5. QED
    BY <2>2, <2>3, <2>4, Zenon
<1>5. PICK v \in Seq(Snapshots) : v = PushBounded(u, h)
  BY PushBoundedStack
<1>6. PICK w \in Seq(Snapshots) :
        /\ w = Append(u, h) /\ Len(w) = Len(u) + 1 /\ w[Len(u) + 1] = h
        /\ \A i \in 1 .. Len(u) : w[i] = u[i]
  <2>1. /\ Append(u, h) \in Seq(Snapshots)
        /\ Len(Append(u, h)) = Len(u) + 1 /\ Append(u, h)[Len(u) + 1] = h
        /\ \A i \in 1 .. Len(u) : Append(u, h)[i] = u[i]
    OBVIOUS
  <2>2. QED
    BY <2>1, Zenon
<1>7. \A i \in 1 .. Len(u) + 1 : past[i] = w[i].raw
  <2>1. ASSUME NEW i \in 1 .. Len(u) + 1
        PROVE  past[i] = w[i].raw
    <3>1. i \in 1 .. Len(u) \/ i = Len(u) + 1
      BY <1>3
    <3>2. QED
      BY <1>1, <1>4, <1>6, <3>1
  <2>2. QED
    BY <2>1
<1>8. CASE Len(u) + 1 > HistoryLimit
  <2>1. v = Tail(w)
    BY <1>5, <1>6, <1>8 DEF PushBounded
  <2>2. Len(v) = Len(u) /\ \A i \in 1 .. Len(u) : v[i] = w[i + 1]
    BY <1>3, <1>6, <2>1
  <2>3. PICK kept \in Seq(Texts) :
          /\ kept = Tail(past) /\ Len(kept) = Len(u)
          /\ \A i \in 1 .. Len(u) : kept[i] = past[i + 1]
    <3>1. /\ Tail(past) \in Seq(Texts) /\ Len(Tail(past)) = Len(u)
          /\ \A i \in 1 .. Len(u) : Tail(past)[i] = past[i + 1]
      <4>1. Len(past) = Len(u) + 1
        BY <1>4, Zenon
      <4>2. past # <<>>
        BY <1>3, <4>1
      <4>3. /\ Tail(past) \in Seq(Texts) /\ Len(Tail(past)) = Len(past) - 1
            /\ \A i \in 1 .. Len(Tail(past)) : Tail(past)[i] = past[i + 1]
        BY <4>2, HeadTailProperties, Zenon
      <4>4. Len(Tail(past)) = Len(u)
        BY <1>3, <4>1, <4>3
      <4>5. QED
        BY <4>3, <4>4, Zenon
    <3>2. QED
      BY <3>1, Zenon
  <2>4. \A i \in 1 .. Len(v) : kept[i] = v[i].raw
    <3>1. \A i \in 1 .. Len(u) : i + 1 \in 1 .. Len(u) + 1
      BY <1>3
    <3>2. QED
      BY <1>7, <2>2, <2>3, <3>1
  <2>5. LineOf(v, t, <<>>) = Append(kept, t) /\ Len(v) = Len(kept)
    <3>1. Len(kept) = Len(v)
      BY <2>2, <2>3
    <3>2. QED
      BY <2>4, <3>1, LineEnds, Zenon
  <2>6. QED
    BY <1>1, <1>2, <1>4, <1>5, <1>8, <2>3, <2>5
<1>9. CASE ~ (Len(u) + 1 > HistoryLimit)
  <2>1. v = w
    BY <1>5, <1>6, <1>9 DEF PushBounded
  <2>2. LineOf(v, t, <<>>) = Append(past, t) /\ Len(v) = Len(past)
    BY <1>4, <1>6, <1>7, <2>1, LineEnds
  <2>3. QED
    BY <1>1, <1>2, <1>4, <1>5, <1>9, <2>2
<1>10. QED
  BY <1>8, <1>9

-----------------------------------------------------------------------------
(* The bridge as a history *)

\* The line of an open scene, before and after a step.
LEMMA LineHere ==
  ASSUME TypeOK, scene # NoScene
  PROVE  /\ undo \in Seq(Snapshots) /\ redo \in Seq(Snapshots)
         /\ raw \in Texts /\ Here \in Snapshots /\ Here.raw = raw
         /\ Line = LineOf(undo, raw, redo)
<1>1. undo \in Seq(Snapshots) /\ redo \in Seq(Snapshots) /\ raw \in Texts /\ Here \in Snapshots
  BY HereIsSnapshot DEF TypeOK
<1>2. Here.raw = raw
  BY DEF Here
<1>3. Line = [i \in DOMAIN undo |-> undo[i].raw] \o <<raw>> \o Reverse([i \in DOMAIN redo |-> redo[i].raw])
  BY Zenon DEF Line
<1>4. Line = LineOf(undo, raw, redo)
  BY <1>1, <1>3, LineByPosition, Zenon
<1>5. QED
  BY <1>1, <1>2, <1>4

\* The same after the step.
LEMMA LineThere ==
  ASSUME TypeOK', scene' # NoScene
  PROVE  /\ undo' \in Seq(Snapshots) /\ redo' \in Seq(Snapshots) /\ raw' \in Texts
         /\ Line' = LineOf(undo', raw', redo')
<1>1. undo' \in Seq(Snapshots) /\ redo' \in Seq(Snapshots) /\ raw' \in Texts
  BY DEF TypeOK
<1>2. Line' = [i \in DOMAIN undo' |-> undo'[i].raw] \o <<raw'>> \o Reverse([i \in DOMAIN redo' |-> redo'[i].raw])
  BY Zenon DEF Line
<1>3. QED
  BY <1>1, <1>2, LineByPosition, Zenon

\* Undo and redo move the cursor.
LEMMA MoveRefines ==
  ASSUME TypeOK, TypeOK', scene' # NoScene, Undo \/ Redo
  PROVE  Abstract!Move
<1>1. scene # NoScene /\ armed' = armed
  BY DEF Undo, Redo, RestoreSnapshot
<1>2. /\ undo \in Seq(Snapshots) /\ redo \in Seq(Snapshots) /\ raw \in Texts
      /\ Here \in Snapshots /\ Here.raw = raw /\ Line = LineOf(undo, raw, redo)
  BY <1>1, LineHere
<1>3. undo' \in Seq(Snapshots) /\ redo' \in Seq(Snapshots) /\ raw' \in Texts /\ Line' = LineOf(undo', raw', redo')
  BY LineThere
<1>4. Len(Line) = Len(undo) + 1 + Len(redo) /\ Len(undo) \in Nat /\ Len(redo) \in Nat
  BY <1>2, LineTexts
<1>5. Line' = Line /\ Len(undo') + 1 \in {Len(undo), Len(undo) + 2} \cap (1 .. Len(Line))
  <2>1. CASE Undo
    <3>1. undo # <<>> /\ undo' = Front(undo) /\ redo' = Append(redo, Here) /\ raw' = Last(undo).raw
      BY <2>1 DEF Undo, RestoreSnapshot
    <3>2. Line' = Line
      BY <1>2, <1>3, <3>1, UndoLine
    <3>3. Len(undo') = Len(undo) - 1 /\ Len(undo) > 0
      BY <1>2, <3>1, PopStack
    <3>4. QED
      BY <1>4, <3>2, <3>3
  <2>2. CASE Redo
    <3>1. redo # <<>> /\ redo' = Front(redo) /\ undo' = Append(undo, Here) /\ raw' = Last(redo).raw
      BY <2>2 DEF Redo, RestoreSnapshot
    <3>2. Line' = Line
      BY <1>2, <1>3, <3>1, RedoLine
    <3>3. Len(undo') = Len(undo) + 1 /\ Len(redo) > 0
      BY <1>2, <3>1, AppendStack
    <3>4. QED
      BY <1>4, <3>2, <3>3
  <2>3. QED
    BY <2>1, <2>2
<1>6. (IF scene = NoScene THEN 0 ELSE Len(undo) + 1) = Len(undo) + 1
  BY <1>1
<1>7. (IF scene' = NoScene THEN 0 ELSE Len(undo') + 1) = Len(undo') + 1
  OBVIOUS
<1>8. Len(undo') + 1 \in {Len(undo) + 1 - 1, Len(undo) + 1 + 1} \cap (1 .. Len(Line))
  BY <1>4, <1>5
<1>9. QED
  BY <1>1, <1>5, <1>6, <1>7, <1>8 DEF Abstract!Move

\* An edit extends the line or replaces the text under the cursor.
LEMMA EditOnLine ==
  ASSUME TypeOK, TypeOK', scene # NoScene, scene' # NoScene,
         PushUndoSnapshot \/ (UNCHANGED histVars /\ ~ armed),
         armed' \in {armed, FALSE}
  PROVE  Abstract!Edit
<1>1. /\ undo \in Seq(Snapshots) /\ redo \in Seq(Snapshots) /\ raw \in Texts
      /\ Here \in Snapshots /\ Here.raw = raw /\ Line = LineOf(undo, raw, redo)
  BY LineHere
<1>2. undo' \in Seq(Snapshots) /\ redo' \in Seq(Snapshots) /\ raw' \in Texts /\ Line' = LineOf(undo', raw', redo')
  BY LineThere
<1>3. (~ armed)' \in {~ armed, TRUE}
  BY DEF TypeOK
<1>4. (IF scene = NoScene THEN 0 ELSE Len(undo) + 1) = Len(undo) + 1
  OBVIOUS
<1>5. (IF scene' = NoScene THEN 0 ELSE Len(undo') + 1) = Len(undo') + 1
  OBVIOUS
<1>6. Len(undo) \in Nat
  BY <1>1
<1>7. CASE undo' = PushBounded(undo, Here) /\ redo' = <<>>
  <2>1. LET past == SubSeq(Line, 1, Len(undo) + 1)
            kept == IF Len(undo) + 1 > HistoryLimit THEN Tail(past) ELSE past
        IN  /\ Line' = Append(kept, raw')
            /\ Len(undo') = Len(kept)
    <3>1. LET past == SubSeq(LineOf(undo, Here.raw, redo), 1, Len(undo) + 1)
              kept == IF Len(undo) + 1 > HistoryLimit THEN Tail(past) ELSE past
          IN  /\ LineOf(PushBounded(undo, Here), raw', <<>>) = Append(kept, raw')
              /\ Len(PushBounded(undo, Here)) = Len(kept)
      BY <1>1, <1>2, PushLine, Zenon
    <3>2. Line = LineOf(undo, Here.raw, redo) /\ Line' = LineOf(PushBounded(undo, Here), raw', <<>>)
      BY <1>1, <1>2, <1>7, Zenon
    <3>3. QED
      BY <1>7, <3>1, <3>2, Zenon
  <2>2. Abstract!Extend(raw')
    BY <1>4, <1>5, <1>6, <2>1 DEF Abstract!Extend
  <2>3. QED
    BY <1>2, <1>3, <2>2 DEF Abstract!Edit
<1>8. CASE UNCHANGED histVars /\ (~ armed \/ (undo # <<>> /\ Last(undo).raw = raw))
  <2>1. undo' = undo /\ redo' = redo
    BY <1>8 DEF histVars
  <2>2. Line' = [Line EXCEPT ![Len(undo) + 1] = raw']
    BY <1>1, <1>2, <2>1, ReplaceLine
  <2>3. ASSUME undo # <<>>, Last(undo).raw = raw
        PROVE  Len(undo) + 1 > 1 /\ Line[Len(undo) + 1 - 1] = Line[Len(undo) + 1]
    <3>1. IsLine(Line, undo, raw, redo)
      BY <1>1, LineAt
    <3>2. Len(undo) \in 1 .. Len(undo) /\ Last(undo) = undo[Len(undo)] /\ Len(undo) + 1 - 1 = Len(undo)
      BY <1>1, <1>6, <2>3 DEF Last
    <3>3. QED
      BY <1>6, <2>3, <3>1, <3>2 DEF IsLine
  <2>4. Abstract!Replace(raw')
    BY <1>4, <1>5, <1>6, <1>8, <2>1, <2>2, <2>3 DEF Abstract!Replace
  <2>5. QED
    BY <1>2, <1>3, <2>4 DEF Abstract!Edit
<1>9. QED
  BY <1>7, <1>8 DEF PushUndoSnapshot

\* A load starts a new line or leaves the old one.
LEMMA LoadOnLine ==
  ASSUME TypeOK, TypeOK', LoadStep
  PROVE  \/ UNCHANGED <<scene, raw, undo, redo, armed>>
         \/ \E t \in Texts : Abstract!Restart(t)
<1>1. CASE UNCHANGED <<scene, raw, undo, redo, armed, armTimer, saveTimer>>
  BY <1>1
<1>2. CASE \E t \in Texts : scene' \in Scenes /\ raw' = t /\ undo' = <<>> /\ redo' = <<>> /\ armed' = TRUE
  <2>1. PICK t \in Texts : scene' \in Scenes /\ raw' = t /\ undo' = <<>> /\ redo' = <<>> /\ armed' = TRUE
    BY <1>2
  <2>2. scene' # NoScene
    BY <2>1, AbsentAssumption
  <2>3. Line' = LineOf(<<>>, t, <<>>)
    BY <2>1, <2>2, LineThere
  <2>4. LineOf(<<>>, t, <<>>) = <<t>>
    BY DEF LineOf
  <2>5. Abstract!Restart(t)
    BY <2>1, <2>2, <2>3, <2>4 DEF Abstract!Restart
  <2>6. QED
    BY <2>5
<1>3. QED
  BY <1>1, <1>2, LoadFacts

\* The bridge's undo and redo stacks implement one line of texts with a
\* cursor, for every history limit: undo and redo move the cursor and leave
\* the line alone, an edit cuts off what lies ahead, and a text behind the
\* cursor is never rewritten, nor dropped but for the oldest beyond the limit.
THEOREM BridgeImplementsHistory == Spec => ImplementsLinearHistory
<1>1. Init => Abstract!Init
  BY DEF Init, Abstract!Init, Line
<1>2. ASSUME TypeOK, TypeOK', ClosedWindowHasTimer, [Next]_vars
      PROVE  [Abstract!Next]_<<Line, IF scene = NoScene THEN 0 ELSE Len(undo) + 1, ~ armed>>
  <2>1. CASE LoadStep
    <3>1. CASE UNCHANGED <<scene, raw, undo, redo, armed>>
      BY <3>1 DEF Line
    <3>2. CASE \E t \in Texts : Abstract!Restart(t)
      BY <3>2 DEF Abstract!Next
    <3>3. QED
      BY <1>2, <2>1, <3>1, <3>2, LoadOnLine
  <2>2. CASE CommitStep
    <3>1. PICK s \in Scenes : Commit(s)
      BY <2>2 DEF CommitStep
    <3>2. scene # NoScene /\ scene' # NoScene /\ PushUndoSnapshot /\ armed' = armed
      BY <3>1, AbsentAssumption DEF Commit
    <3>3. QED
      BY <1>2, <3>2, EditOnLine DEF Abstract!Next
  <2>3. CASE DragStep
    <3>1. PICK e \in Ids, d \in Values : UpdateTransform(e, d) \/ UpdateTransform2D(e, d)
      BY <2>3 DEF DragStep
    <3>2. scene # NoScene /\ scene' # NoScene /\ armed' = FALSE
      BY <1>2, <3>1, DragFacts, AbsentAssumption
    <3>3. PushUndoSnapshot \/ (UNCHANGED histVars /\ ~ armed)
      BY <3>1 DEF UpdateTransform, UpdateTransform2D, Drags, PushTransformUndoSnapshotOnce
    <3>4. QED
      BY <1>2, <3>2, <3>3, EditOnLine DEF Abstract!Next
  <2>4. CASE Undo \/ Redo
    <3>1. PICK x \in Snapshots : RestoreSnapshot(x)
      BY <1>2, <2>4, SwapStacks
    <3>2. scene' # NoScene
      BY <3>1, SnapshotText, AbsentAssumption DEF RestoreSnapshot, Parse
    <3>3. QED
      BY <1>2, <2>4, <3>2, MoveRefines DEF Abstract!Next
  <2>5. CASE Select \/ SaveTimerFires \/ UNCHANGED vars
    <3>1. UNCHANGED <<scene, raw, undo, redo, armed>>
      BY <2>5 DEF Select, SelectEntity, SaveTimerFires, docVars, histVars, timerVars, vars
    <3>2. QED
      BY <3>1 DEF Line
  <2>6. CASE ArmTimerFires
    <3>1. UNCHANGED <<scene, raw, undo, redo>> /\ armed' = TRUE /\ armTimer
      BY <2>6 DEF ArmTimerFires, docVars, histVars
    <3>2. ~ armed
      BY <1>2, <3>1 DEF ClosedWindowHasTimer
    <3>3. Line' = Line
      BY <3>1 DEF Line
    <3>4. Abstract!GestureEnds
      BY <3>1, <3>2, <3>3 DEF Abstract!GestureEnds
    <3>5. QED
      BY <3>4 DEF Abstract!Next
  <2>7. QED
    BY <1>2, <2>1, <2>2, <2>3, <2>4, <2>5, <2>6, StepKinds
<1>3. QED
  BY <1>1, <1>2, TypeCorrect, DragWindowReopens, PTL
  DEF Spec, ImplementsLinearHistory, Abstract!Spec, Abstract!hvars
=============================================================================
