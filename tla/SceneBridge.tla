----------------------------- MODULE SceneBridge -----------------------------
(***************************************************************************)
(* The scene bridge of the Void editor (voidSceneBridge.ts): the one       *)
(* object through which the viewports, the inspector, the hierarchy, the   *)
(* text editor and the file of a .vecn scene exchange edits.  It keeps the *)
(* parsed scene and its text side by side, an undo and a redo stack of     *)
(* texts, a window that coalesces the transforms of one drag, and a        *)
(* debounced save.                                                         *)
(*                                                                         *)
(* JavaScript runs each handler to its end, so a handler is one action and *)
(* the interleavings are those of handlers and timers.                     *)
(***************************************************************************)
EXTENDS SceneTree, Sequences, SequencesExt, Naturals

CONSTANTS Uris,          \* files the bridge may be pointed at
          NoUri, NoScene, NoText, NoId,
          HistoryLimit,  \* historyLimit, 200 in the code
          PatchTarget,   \* which entity's Transform block patchRawTRS finds in a
                         \* hand-written text (itself, another's, or NoId)
          Misnamed,      \* data of an entity whose Transform patchRawTRS does not find in
                         \* the serializer's text: its name reads like one, "Transform
                         \* (copy)", or over 2000 characters are written before it
          Default,       \* the datum of a new entity
          Contents       \* the scenes the editor and the disk may hold

ASSUME HistoryLimitAssumption == HistoryLimit \in Nat \ {0}
ASSUME SentinelAssumption ==
  /\ NoUri \notin Uris
  /\ NoId \notin Ids
ASSUME PatchAssumption == PatchTarget \in [Ids -> Ids \cup {NoId}] /\ Misnamed \subseteq Values
ASSUME InputAssumption ==
  /\ Default \in Values
  /\ Contents \subseteq {s \in Scenes : IsForest(s)}

\* A text is the scene it parses to and its layout: the serializer's own
\* ("canon"), or one a person wrote or a patch left in place ("hand").
Texts == [scene : Scenes, layout : {"hand", "canon"}]
Snapshots == [raw : Texts, sel : Ids \cup {NoId}]

ASSUME AbsentAssumption == NoScene \notin Scenes /\ NoText \notin Texts

VARIABLES
  uri,        \* _uri
  scene,      \* _scene, the entities every panel shares by reference
  raw,        \* _raw (and _hash, always the hash of _raw)
  valid,      \* _validation.ok
  sel,        \* _selectedEntityId
  undo,       \* _undoStack
  redo,       \* _redoStack
  armed,      \* _transformHistoryArmed
  armTimer,   \* _transformHistoryTimer is running
  saveTimer,  \* _saveTimer is running
  outside     \* history variable: the text the file side last gave or received

docVars   == <<uri, scene, raw, valid, outside>>
histVars  == <<undo, redo>>
timerVars == <<armed, armTimer, saveTimer>>
vars == <<uri, scene, raw, valid, sel, undo, redo, armed, armTimer, saveTimer, outside>>

TypeOK ==
  /\ uri \in Uris \cup {NoUri}
  /\ scene \in Scenes \cup {NoScene}
  /\ raw \in Texts \cup {NoText}
  /\ (scene = NoScene) <=> (raw = NoText)
  /\ valid \in BOOLEAN
  /\ sel \in Ids \cup {NoId}
  /\ undo \in Seq(Snapshots)
  /\ redo \in Seq(Snapshots)
  /\ armed \in BOOLEAN
  /\ armTimer \in BOOLEAN
  /\ saveTimer \in BOOLEAN
  /\ outside \in Texts \cup {NoText}

Init ==
  /\ uri = NoUri
  /\ scene = NoScene
  /\ raw = NoText
  /\ valid = TRUE
  /\ sel = NoId
  /\ undo = <<>>
  /\ redo = <<>>
  /\ armed = TRUE
  /\ armTimer = FALSE
  /\ saveTimer = FALSE
  /\ outside = NoText

-----------------------------------------------------------------------------
(* Texts and snapshots *)

Serialize(s) == [scene |-> s, layout |-> "canon"]

Parse(t) == t.scene

\* The regular expressions rewrite the Transform they find, behind the
\* entity's id.  In the serializer's layout that is the entity's own, or none
\* if the entity is Misnamed; in a hand-written one they may find another
\* entity's, or none within their reach.
PatchRawTRS(t, e, d) ==
  LET own == IF t.scene[e].data \in Misnamed THEN NoId ELSE e
      target == IF t.layout = "canon" THEN own ELSE PatchTarget[e]
  IN  [t EXCEPT !.scene = SetData(@, {target}, d)]

Here == [raw |-> raw, sel |-> sel]

\* Appends, and shifts the oldest out beyond the limit.
PushBounded(stack, snapshot) ==
  LET pushed == Append(stack, snapshot)
  IN  IF Len(pushed) > HistoryLimit THEN Tail(pushed) ELSE pushed

\* Faulty: a new edit leaves what could be redone.
PushKeepingRedo == undo' = PushBounded(undo, Here) /\ redo' = redo

PushUndoSnapshot ==
  \/ /\ undo # <<>> /\ Last(undo).raw = raw
     /\ UNCHANGED histVars
  \/ /\ ~ (undo # <<>> /\ Last(undo).raw = raw)
     /\ undo' = PushBounded(undo, Here)
     /\ redo' = <<>>

\* Faulty: the snapshot of a drag is taken inside the window, not at its start.
PushWhileDisarmed ==
  /\ IF armed THEN UNCHANGED histVars ELSE PushUndoSnapshot
  /\ armed' = FALSE
  /\ armTimer' = TRUE

PushTransformUndoSnapshotOnce ==
  /\ IF armed THEN PushUndoSnapshot ELSE UNCHANGED histVars
  /\ armed' = FALSE
  /\ armTimer' = TRUE

-----------------------------------------------------------------------------
(* Loading *)

\* Faulty: the timer is cancelled and the window it would reopen stays closed.
ResetLeavingWindow == undo' = <<>> /\ redo' = <<>> /\ armed' = armed /\ armTimer' = FALSE

ResetHistory == undo' = <<>> /\ redo' = <<>> /\ armed' = TRUE /\ armTimer' = FALSE

\* Faulty: a load cancels the save that was due.
LoadFromTextUnsaved(t, legacy, source) ==
  /\ valid' \in (IF t = NoText THEN {FALSE, valid} ELSE {TRUE})
  /\ sel' = sel
  /\ scene' = (IF t = NoText THEN scene ELSE Parse(t))
  /\ raw' = (IF t = NoText THEN raw ELSE t)
  /\ IF t = NoText THEN UNCHANGED <<histVars, armed, armTimer>> ELSE ResetHistory
  /\ saveTimer' = (t # NoText /\ legacy /\ source # "editor")
  /\ outside' = IF t = NoText THEN outside ELSE t

\* loadFromText: t is the normalised content, NoText when validation
\* rejects it (a blank text is dropped before it is validated); legacy says
\* that normalising migrated it.  A legacy text being typed is migrated in
\* memory and not written back under the cursor: it counts as given.
LoadFromText(t, legacy, source) ==
  /\ valid' \in (IF t = NoText THEN {FALSE, valid} ELSE {TRUE})
  /\ sel' = sel
  /\ \/ /\ t = NoText \/ (scene # NoScene /\ t = raw)
        /\ outside' = IF t = NoText THEN outside ELSE t
        /\ UNCHANGED <<scene, raw, undo, redo, armed, armTimer, saveTimer>>
     \/ /\ t # NoText /\ ~ (scene # NoScene /\ t = raw)
        /\ scene' = Parse(t)
        /\ raw' = t
        /\ ResetHistory
        /\ LET migrate == legacy /\ source \in {"init", "disk"}
           IN  /\ saveTimer' = (saveTimer \/ migrate)
               /\ outside' = IF migrate THEN NoText ELSE t

\* setUri comes first and stays even if the load is refused.  The editor
\* contribution opens a file when the bridge has no entities, but loadScene
\* looks before it awaits the file, and a scene may be open by now.
Open(u, t, legacy) ==
  /\ uri' = u
  /\ LoadFromText(t, legacy, "init")

\* The text model or the file changed under an open scene.
Reload(t, legacy, source) ==
  /\ uri # NoUri
  /\ LoadFromText(t, legacy, source)
  /\ uri' = uri

-----------------------------------------------------------------------------
(* Edits *)

\* The common tail of every edit that rewrites the whole text.
Commit(s) ==
  /\ scene # NoScene
  /\ PushUndoSnapshot
  /\ scene' = s
  /\ raw' = Serialize(s)
  /\ saveTimer' = TRUE
  /\ UNCHANGED <<uri, valid, sel, armed, armTimer, outside>>

\* A drag moves an entity and leaves its name and the other components alone.
Drags(e, d) ==
  scene # NoScene /\ e \in Entities(scene) /\ (d \in Misnamed <=> scene[e].data \in Misnamed)

\* A drag in the 3D viewport: the entity in memory, then the text in place.
UpdateTransform(e, d) ==
  /\ Drags(e, d)
  /\ PushTransformUndoSnapshotOnce
  /\ scene' = SetData(scene, {e}, d)
  /\ raw' = PatchRawTRS(raw, e, d)
  /\ saveTimer' = TRUE
  /\ UNCHANGED <<uri, valid, sel, outside>>

\* A drag in the 2D viewport serializes instead.
UpdateTransform2D(e, d) ==
  /\ Drags(e, d)
  /\ PushTransformUndoSnapshotOnce
  /\ scene' = SetData(scene, {e}, d)
  /\ raw' = Serialize(scene')
  /\ saveTimer' = TRUE
  /\ UNCHANGED <<uri, valid, sel, outside>>

\* The inspector has mutated components of the scene in place (touched is
\* one entity), or components that have since left the scene (touched is
\* empty: a reload, an undo or an apply-to-all replaced the objects it shows).
CommitInspectorEdit(touched, d) ==
  /\ scene # NoScene
  /\ Commit(SetData(scene, touched, d))

\* S are the entities that own a component of the template's type.
ApplyComponentTemplateToAll(S, d) ==
  /\ scene # NoScene /\ S \subseteq Entities(scene) /\ S # {}
  /\ Commit(SetData(scene, S, d))

CreateEntity(e, p) ==
  /\ scene # NoScene /\ e \notin Entities(scene)
  /\ Commit(AddEntity(scene, e, p, Default))

DeleteEntity(e) ==
  /\ scene # NoScene /\ e \in Entities(scene)
  /\ Commit(RemoveEntity(scene, e))

ReparentEntity(e, p) ==
  /\ scene # NoScene /\ e \in Entities(scene)
  /\ Commit(MoveEntity(scene, e, p))

DuplicateEntity(e, fresh) ==
  /\ scene # NoScene /\ e \in Entities(scene)
  /\ fresh \in Injection(Below(scene, e), Ids \ Entities(scene))
  /\ Commit(CloneEntity(scene, e, fresh))

\* toggleEntityVisibility and updateEntityName: one field of one entity.
EditEntity(e, d) ==
  /\ scene # NoScene /\ e \in Entities(scene)
  /\ Commit(SetData(scene, {e}, d))

\* The viewports and the hierarchy pass an id without a look at the scene.
SelectEntity(id) ==
  /\ sel' = id
  /\ UNCHANGED <<docVars, histVars, timerVars>>

-----------------------------------------------------------------------------
(* Undo and redo *)

\* Faulty: the panels get the old scene, the text stays.
RestoreSceneOnly(snapshot) ==
  /\ scene' = Parse(snapshot.raw)
  /\ valid' = TRUE
  /\ sel' = snapshot.sel
  /\ saveTimer' = TRUE
  /\ UNCHANGED <<uri, raw, armed, armTimer, outside>>

\* Faulty: the restored text is not saved.
RestoreUnsaved(snapshot) ==
  /\ scene' = Parse(snapshot.raw)
  /\ raw' = snapshot.raw
  /\ valid' = TRUE
  /\ sel' = snapshot.sel
  /\ UNCHANGED <<uri, armed, armTimer, saveTimer, outside>>

RestoreSnapshot(snapshot) ==
  /\ scene' = Parse(snapshot.raw)
  /\ raw' = snapshot.raw
  /\ valid' = TRUE
  /\ sel' = snapshot.sel
  /\ saveTimer' = TRUE
  /\ UNCHANGED <<uri, armed, armTimer, outside>>

\* Faulty: what undo restores goes on the redo stack, not what it replaces.
UndoKeepingRestored ==
  /\ scene # NoScene /\ undo # <<>>
  /\ undo' = Front(undo)
  /\ redo' = Append(redo, Last(undo))
  /\ RestoreSnapshot(Last(undo))

Undo ==
  /\ scene # NoScene /\ undo # <<>>
  /\ undo' = Front(undo)
  /\ redo' = Append(redo, Here)
  /\ RestoreSnapshot(Last(undo))

Redo ==
  /\ scene # NoScene /\ redo # <<>>
  /\ redo' = Front(redo)
  /\ undo' = Append(undo, Here)
  /\ RestoreSnapshot(Last(redo))

-----------------------------------------------------------------------------
(* Timers *)

\* 280 ms without a transform end a drag.
ArmTimerFires ==
  /\ armTimer
  /\ armed' = TRUE
  /\ armTimer' = FALSE
  /\ UNCHANGED <<docVars, sel, histVars, saveTimer>>

\* 200 ms without an edit: the text as it is now goes to the file as it is
\* now.  The handle is not reset; a spent handle is no timer.
SaveTimerFires ==
  /\ saveTimer
  /\ saveTimer' = FALSE
  /\ outside' = IF uri # NoUri THEN raw ELSE outside
  /\ UNCHANGED <<uri, scene, raw, valid, sel, histVars, armed, armTimer>>

-----------------------------------------------------------------------------
Load ==
  \E s \in Contents, legacy \in BOOLEAN :
    LET t == [scene |-> s, layout |-> "hand"] IN
    \/ \E u \in Uris : Open(u, t, legacy)
    \/ \E source \in {"editor", "disk"} : Reload(t, legacy, source)

RefusedLoad ==
  \/ \E u \in Uris : Open(u, NoText, FALSE)
  \/ \E source \in {"editor", "disk"} : Reload(NoText, FALSE, source)

Drag == \E e \in Ids, d \in Values : UpdateTransform(e, d) \/ UpdateTransform2D(e, d)

TreeEdit ==
  \/ \E e \in Ids, p \in Ids \cup {Root} : CreateEntity(e, p) \/ ReparentEntity(e, p)
  \/ \E e \in Ids : DeleteEntity(e)
  \/ \E e \in Ids : \E fresh \in UNION {Injection(S, Ids \ S) : S \in SUBSET Ids} :
        DuplicateEntity(e, fresh)

ValueEdit ==
  \/ \E e \in Ids, d \in Values : EditEntity(e, d)
  \/ \E touched \in {{e} : e \in Ids} \cup {{}}, d \in Values : CommitInspectorEdit(touched, d)
  \/ \E S \in SUBSET Ids, d \in Values : ApplyComponentTemplateToAll(S, d)

Edit == Drag \/ TreeEdit \/ ValueEdit

History == Undo \/ Redo

Select == \E id \in Ids \cup {NoId} : SelectEntity(id)

Next == Load \/ RefusedLoad \/ Edit \/ History \/ Select \/ ArmTimerFires \/ SaveTimerFires

Spec == Init /\ [][Next]_vars

\* A timer that nobody restarts fires.
FairSpec == Spec /\ WF_vars(SaveTimerFires) /\ WF_vars(ArmTimerFires)

-----------------------------------------------------------------------------
(* Properties *)

KnownTexts ==
  ({raw} \ {NoText}) \cup {undo[i].raw : i \in DOMAIN undo} \cup {redo[i].raw : i \in DOMAIN redo}

\* In the scene in memory, in its text and in every text an undo or a redo
\* can bring back, each entity can be reached from the top-level list: no
\* reparent, delete, create or duplicate cuts a subtree off or ties a cycle.
ScenesAreForests ==
  /\ scene # NoScene => IsForest(scene)
  /\ \A t \in KnownTexts : IsForest(t.scene)

\* The text always has the entities and the tree of the scene in memory,
\* and a text in the serializer's layout has its data too: a save, an undo
\* snapshot and a replicated text describe what the panels show, but for
\* the transforms patchRawTRS does not find, in hand-written text or of a
\* Misnamed entity.
TextDescribesScene ==
  scene # NoScene =>
    /\ Entities(raw.scene) = Entities(scene)
    /\ \A e \in Entities(scene) :
         /\ raw.scene[e].parent = scene[e].parent
         /\ raw.layout = "canon" =>
              \/ raw.scene[e].data = scene[e].data
              \/ {raw.scene[e].data, scene[e].data} \subseteq Misnamed

\* Undo and redo entries together stay within historyLimit, although redo
\* pushes on the undo stack, and undo on the redo stack, with no check.
HistoryBounded == Len(undo) + Len(redo) <= HistoryLimit

\* A closed drag window always has the timer that reopens it: no reload,
\* undo or edit leaves the bridge never recording a drag again.
ClosedWindowHasTimer == ~ armed <=> armTimer

\* When the text differs from what the file side last gave or received, a
\* save is on its way: no handler forgets to schedule one, no load, undo or
\* selection cancels one.
UnsavedHasTimer == scene # NoScene /\ raw # outside => saveTimer

\* voidSceneBridge.ts:5, of a drag: "patches in-memory + raw".  Both end up
\* with the same transforms.
PatchedTextTracksScene == scene # NoScene => raw.scene = scene

\* The texts in the order undo and redo walk through them.
Line ==
  IF scene = NoScene THEN <<>>
  ELSE [i \in DOMAIN undo |-> undo[i].raw] \o <<raw>> \o Reverse([i \in DOMAIN redo |-> redo[i].raw])

Abstract ==
  INSTANCE LinearHistory WITH
    States <- Texts, Limit <- HistoryLimit,
    line <- Line, pos <- (IF scene = NoScene THEN 0 ELSE Len(undo) + 1), gesture <- ~ armed

\* The two stacks implement one line of texts with a cursor: undo and redo
\* never change, drop or reorder what is on it, every edit drops what could
\* be redone, and no text behind the cursor is ever rewritten.  A drag in
\* progress, and an edit right after one that changed nothing, replace the
\* current text instead, and leave what could be redone in place.
ImplementsLinearHistory == Abstract!Spec

Document ==
  INSTANCE TextBridge WITH
    Files <- Uris, NoFile <- NoUri, text <- raw

\* Seen from the files and the editors, the bridge is a text, the file it
\* belongs to and a save that is due: no edit, undo or redo forgets the
\* save, none moves the text to another file, and a load replaces the text
\* as a whole or not at all.
ImplementsTextBridge == Document!Spec

\* An edit that changes the text can be taken back by one undo: the text
\* before it is then on top of the undo stack.  Transforms of a drag under
\* way are the only exception.
EditIsUndoable ==
  [][Edit /\ raw' # raw /\ (armed \/ ~ Drag) => undo' # <<>> /\ Last(undo').raw = raw]_vars

\* Once the user lets the timers run, the file side gets the scene's text.
EventuallySaved ==
  <>[][SaveTimerFires \/ ArmTimerFires]_vars => <>[](scene # NoScene => outside = raw)
=============================================================================
