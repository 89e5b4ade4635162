------------------------------ MODULE SceneSync ------------------------------
(***************************************************************************)
(* How scene text travels between the bridge, the text editors and the     *)
(* disk (voidSceneEditor.contribution.ts): the listener on the text model  *)
(* of a .vecn editor, the file watcher, the save handler with the 300 ms   *)
(* in which it turns both a deaf ear, and the loader that looks for a      *)
(* scene at startup.  The bridge is TextBridge.                            *)
(*                                                                         *)
(* Reads and writes of files are awaited: what a handler has tested before *)
(* an await may no longer hold after it.                                   *)
(***************************************************************************)
EXTENDS Naturals, Sequences, SequencesExt, FiniteSets, Descent

CONSTANTS Files, NoFile, Texts, NoText,
          Home,       \* the file whose scene a text is
          Normal,     \* what the migration makes of a text
          Valid,      \* the texts validation accepts
          Populated,  \* the texts whose scene has entities
          Attempts    \* delays of loadScene, 5 in the code

ASSUME TextAssumption ==
  /\ Home \in [Texts -> Files]
  /\ Normal \in [Texts -> Texts]
  /\ Valid \subseteq Texts /\ Populated \subseteq Valid
  /\ \A t \in Texts :
       /\ Normal[Normal[t]] = Normal[t]
       /\ Home[Normal[t]] = Home[t]
       /\ t \in Valid <=> Normal[t] \in Valid
ASSUME AbsenceAssumption == NoFile \notin Files /\ NoText \notin Texts
ASSUME AttemptsAssumption == Attempts \in Nat
ASSUME FinitelyManyFiles == IsFiniteSet(Files)

VARIABLES
  uri, text, saveTimer,  \* the bridge
  disk,       \* content of each file
  model,      \* content of the text model of each file, NoText when none is open
  dirty,      \* files whose model has changes the user has not saved
  visible,    \* the scene files whose editors are on show, side by side
  front,      \* the first of them, findVecnModel
  listening,  \* modelListener.__uri
  live,       \* the model that is listened to is still open
  watched,    \* the file of fileWatcher
  window,     \* Date.now() < suppressModelUntil
  writes,     \* per file, the contents on their way to the disk, in order
  events,     \* files whose change event is on its way
  reads,      \* reads of the watcher under way; no text yet is NoText
  loader,     \* loadScene
  missed      \* history variable: how content has been passed over

bridgeVars == <<uri, text, saveTimer>>
editorVars == <<model, dirty, visible, front>>
listenVars == <<listening, live, watched>>
diskVars   == <<disk, writes, events>>
vars == <<bridgeVars, editorVars, listenVars, diskVars, window, reads, loader, missed>>

Bridge == INSTANCE TextBridge

Reasons == {"window", "dead", "unheard", "foreign", "moved", "astray", "late", "background",
            "discarded", "conflict", "failed", "unread"}

BridgeTypes ==
  uri \in Files \cup {NoFile} /\ text \in Texts \cup {NoText} /\ saveTimer \in BOOLEAN
EditorTypes ==
  /\ model \in [Files -> Texts \cup {NoText}]
  /\ dirty \subseteq {f \in Files : model[f] # NoText}
  /\ visible \subseteq {f \in Files : model[f] # NoText}
  /\ front \in IF visible = {} THEN {NoFile} ELSE visible
ListenTypes ==
  listening \in Files \cup {NoFile} /\ live \in BOOLEAN /\ watched \in Files \cup {NoFile}
DiskTypes ==
  disk \in [Files -> Texts] /\ writes \in [Files -> Seq(Texts)] /\ events \subseteq Files
ReadTypes ==
  reads \in Seq([file : Files, text : Texts \cup {NoText}])
LoaderTypes ==
  /\ loader \in [pc : {"waiting", "reading", "read"}, file : Files \cup {NoFile},
                 text : Texts \cup {NoText}, left : 0 .. Attempts]
  /\ loader.pc # "waiting" => loader.file # NoFile
  /\ loader.pc = "read" => loader.text # NoText

TypeOK ==
  /\ BridgeTypes /\ EditorTypes /\ ListenTypes /\ DiskTypes /\ ReadTypes /\ LoaderTypes
  /\ saveTimer => text # NoText
  /\ window \in BOOLEAN
  /\ missed \subseteq Reasons

Init ==
  /\ Bridge!Init
  /\ disk \in {d \in [Files -> Texts] : \A f \in Files : Home[d[f]] = f}
  /\ model = [f \in Files |-> NoText]
  /\ dirty = {}
  /\ visible = {} /\ front = NoFile
  /\ listening = NoFile /\ live = FALSE /\ watched = NoFile
  /\ window = FALSE
  /\ writes = [f \in Files |-> <<>>]
  /\ events = {}
  /\ reads = <<>>
  /\ loader = [pc |-> "waiting", file |-> NoFile, text |-> NoText, left |-> Attempts]
  /\ missed = {}

-----------------------------------------------------------------------------
(* What the bridge makes of a content *)

HasScene == text \in Populated

\* The normalised content, or none when validation refuses it.
Accepted(t) == IF t \in Valid THEN Normal[t] ELSE NoText

\* A load of t would replace the text.
Replaces(t) == Accepted(t) \notin {NoText, text}

\* Adds the reasons for which the guard holds to the history.
Miss(guarded) == missed' = missed \cup {r \in DOMAIN guarded : guarded[r]}

\* The bridge is pointed at f and keeps the scene of another file.
KeepsOtherText(f, t) == uri # f /\ text # NoText /\ ~ Replaces(t)

-----------------------------------------------------------------------------
(* The text editors *)

Hears(f) == listening = f /\ live /\ ~ window

\* The listener on the content of a model: what is typed is loaded, and not
\* saved by the bridge.
ContentChanged(f, t) ==
  /\ IF Hears(f) THEN Bridge!Reload(Accepted(t), FALSE) ELSE UNCHANGED bridgeVars
  /\ Miss([window  |-> listening = f /\ live /\ window /\ Replaces(t),
           dead    |-> listening = f /\ ~ live /\ Replaces(t),
           unheard |-> listening # f /\ f \in dirty' /\ (uri = f \/ text = NoText) /\ Replaces(t),
           foreign |-> Hears(f) /\ uri # f /\ Replaces(t)])

TypeText(f, t) ==
  /\ f \in visible /\ Home[t] = f /\ t # model[f]
  /\ model' = [model EXCEPT ![f] = t]
  /\ dirty' = dirty \cup {f}
  /\ ContentChanged(f, t)
  /\ UNCHANGED <<visible, front, listenVars, diskVars, window, reads, loader>>

\* An editor without changes follows the disk.
ModelReloads(f) ==
  /\ model[f] \notin {NoText, disk[f]} /\ f \notin dirty
  /\ model' = [model EXCEPT ![f] = disk[f]]
  /\ dirty' = dirty
  /\ ContentChanged(f, disk[f])
  /\ UNCHANGED <<visible, front, listenVars, diskVars, window, reads, loader>>

\* The user saves an editor.
SaveEditor(f) ==
  /\ f \in dirty
  /\ disk' = [disk EXCEPT ![f] = model[f]]
  /\ dirty' = dirty \ {f}
  /\ events' = events \cup {f}
  /\ UNCHANGED <<bridgeVars, model, visible, front, listenVars, writes, window, reads, loader, missed>>

\* The user takes changes back, or agrees that an editor is closed without them.
DiscardChanges(f) ==
  /\ f \in dirty
  /\ dirty' = dirty \ {f}
  /\ Miss([discarded |-> TRUE])
  /\ UNCHANGED <<bridgeVars, model, visible, front, listenVars, diskVars, window, reads, loader>>

\* attachModelListener.  A file that is already listened to is left alone,
\* though the model may be another by now.
AttachModelListener(f, t) ==
  \/ /\ listening = f
     /\ UNCHANGED <<bridgeVars, listenVars, missed>>
  \/ /\ listening # f
     /\ listening' = f /\ live' = TRUE
     /\ \/ /\ HasScene
           /\ UNCHANGED <<bridgeVars, watched, missed>>
        \/ /\ ~ HasScene
           /\ Bridge!Open(f, Accepted(t), Normal[t] # t)
           /\ watched' = f
           /\ Miss([moved |-> KeepsOtherText(f, t),
                    late  |-> Replaces(t) /\ f \notin dirty /\ t # disk[f]])

\* handleActiveEditorChange attaches to the first scene on show, if any.  What
\* comes and goes beside the active editor does not change it.
ActiveEditorChanges == front' # NoFile /\ AttachModelListener(front', model'[front'])
NothingActivated == UNCHANGED <<bridgeVars, listenVars, missed>>

\* An editor comes on show, beside the others or in the place of some.
ShowEditor(f) ==
  /\ f \notin visible
  /\ \E gone \in SUBSET visible : visible' = (visible \ gone) \cup {f}
  /\ front' \in IF front \in visible' THEN {f, front} ELSE visible'
  /\ model' = [model EXCEPT ![f] = IF @ = NoText THEN disk[f] ELSE @]
  /\ ActiveEditorChanges \/ NothingActivated
  /\ UNCHANGED <<dirty, diskVars, window, reads, loader>>

Leaves(f) ==
  /\ visible' = visible \ {f}
  /\ front' \in IF front \in visible' THEN {front} ELSE IF visible' = {} THEN {NoFile} ELSE visible'

\* An editor makes room for one that is no scene.
HideEditor(f) ==
  /\ f \in visible
  /\ Leaves(f)
  /\ model' = model
  /\ ActiveEditorChanges \/ NothingActivated
  /\ UNCHANGED <<dirty, diskVars, window, reads, loader>>

\* Another of the editors on show becomes the active one.
FocusEditor ==
  /\ UNCHANGED editorVars
  /\ ActiveEditorChanges
  /\ UNCHANGED <<diskVars, window, reads, loader>>

\* The model goes with its last editor.
CloseEditor(f) ==
  /\ model[f] # NoText /\ f \notin dirty
  /\ model' = [model EXCEPT ![f] = NoText]
  /\ Leaves(f)
  /\ \/ f \in visible /\ ActiveEditorChanges
     \/ live' = (live /\ listening # f) /\ UNCHANGED <<bridgeVars, listening, watched, missed>>
  /\ UNCHANGED <<dirty, diskVars, window, reads, loader>>

-----------------------------------------------------------------------------
(* The panels and the save *)

\* The serializer's output is valid and needs no migration.
EditScene(t) ==
  /\ t \in Valid /\ Normal[t] = t
  /\ text # NoText /\ Home[t] = Home[text]
  /\ Bridge!Edit(t)
  /\ UNCHANGED <<editorVars, listenVars, diskVars, window, reads, loader, missed>>

\* Faulty: the editor on show is left to follow the disk.
SaveToDiskOnly(f, t) ==
  /\ window' = TRUE
  /\ writes' = [writes EXCEPT ![f] = Append(@, t)]
  /\ Miss([background |-> front # f /\ f \in dirty /\ model[f] # t])
  /\ UNCHANGED <<model, dirty>>

\* Only the first editor on show gets the text; setValue leaves it dirty.
SaveToDisk(f, t) ==
  /\ window' = TRUE
  /\ model' = IF front = f THEN [model EXCEPT ![f] = t] ELSE model
  /\ dirty' = IF front = f /\ model[f] # t THEN dirty \cup {f} ELSE dirty
  /\ writes' = [writes EXCEPT ![f] = Append(@, t)]
  /\ Miss([background |-> front # f /\ f \in dirty /\ model[f] # t])

\* Faulty: saves to the file on show.
SaveTimerFiresIntoView ==
  /\ Bridge!SaveTimerFires
  /\ uri # NoFile
  /\ SaveToDisk(IF front = NoFile THEN uri ELSE front, text)
  /\ UNCHANGED <<visible, front, listenVars, disk, events, reads, loader>>

SaveTimerFires ==
  /\ Bridge!SaveTimerFires
  /\ uri # NoFile
  /\ SaveToDisk(uri, text)
  /\ UNCHANGED <<visible, front, listenVars, disk, events, reads, loader>>

WriteDone(f) ==
  /\ writes[f] # <<>>
  /\ disk' = [disk EXCEPT ![f] = Head(writes[f])]
  /\ writes' = [writes EXCEPT ![f] = Tail(@)]
  /\ events' = events \cup {f}
  /\ UNCHANGED <<bridgeVars, editorVars, listenVars, window, reads, loader, missed>>

\* Nobody is told and nobody tries again.
WriteFails(f) ==
  /\ writes[f] # <<>>
  /\ writes' = [writes EXCEPT ![f] = Tail(@)]
  /\ Miss([failed |-> TRUE])
  /\ UNCHANGED <<bridgeVars, editorVars, listenVars, disk, events, window, reads, loader>>

WindowCloses ==
  /\ window
  /\ window' = FALSE
  /\ UNCHANGED <<bridgeVars, editorVars, listenVars, diskVars, reads, loader, missed>>

-----------------------------------------------------------------------------
(* The disk and the watcher *)

\* Another program writes the file: git, another editor, the agent.
WriteOutside(f, t) ==
  /\ Home[t] = f /\ t # disk[f]
  /\ disk' = [disk EXCEPT ![f] = t]
  /\ events' = events \cup {f}
  /\ UNCHANGED <<bridgeVars, editorVars, listenVars, writes, window, reads, loader, missed>>

\* onDidFilesChange of the watcher: the window is tested before the read.
FileChanged(f) ==
  /\ f \in events
  /\ events' = events \ {f}
  /\ reads' = IF watched = f /\ ~ window THEN Append(reads, [file |-> f, text |-> NoText]) ELSE reads
  /\ Miss([window |-> /\ watched = f /\ window /\ Replaces(disk[f])
                      /\ ~ saveTimer /\ writes[f] = <<>>])
  /\ UNCHANGED <<bridgeVars, editorVars, listenVars, disk, writes, window, loader>>

ReadFile(i) ==
  /\ i \in DOMAIN reads /\ reads[i].text = NoText
  /\ reads' = [reads EXCEPT ![i].text = disk[reads[i].file]]
  /\ UNCHANGED <<bridgeVars, editorVars, listenVars, diskVars, window, loader, missed>>

\* The file is gone or cannot be read.  The event is spent, nobody tries again.
ReadFails(i) ==
  /\ i \in DOMAIN reads /\ reads[i].text = NoText
  /\ reads' = RemoveAt(reads, i)
  /\ Miss([unread |-> Replaces(disk[reads[i].file])])
  /\ UNCHANGED <<bridgeVars, editorVars, listenVars, diskVars, window, loader>>

\* The continuation loads what was read, whatever has happened since.
ReadDone(i) ==
  /\ i \in DOMAIN reads /\ reads[i].text # NoText
  /\ LET f == reads[i].file
         t == reads[i].text
     IN  /\ Bridge!Reload(Accepted(t), Normal[t] # t)
         /\ Miss([late     |-> Replaces(t) /\ t # disk[f],
                  foreign  |-> Replaces(t) /\ f # uri,
                  conflict |-> Replaces(t) /\ f \in dirty])
  /\ reads' = RemoveAt(reads, i)
  /\ UNCHANGED <<editorVars, listenVars, diskVars, window, loader>>

-----------------------------------------------------------------------------
(* The loader *)

\* Faulty: the scene that was loaded is taken for one still to be loaded.
LoaderEndsRead == loader' = [loader EXCEPT !.text = NoText, !.left = 0]

LoaderEnds == loader' = [pc |-> "waiting", file |-> NoFile, text |-> NoText, left |-> 0]

\* Looks for a scene to load: one on show, else any in the workspace, which
\* it may not find.
LoaderLooks ==
  /\ loader.pc = "waiting" /\ loader.left > 0
  /\ \/ HasScene /\ LoaderEnds
     \/ ~ HasScene /\ \E f \in Files :
          /\ visible # {} => f \in visible
          /\ loader' = [pc |-> "reading", file |-> f, text |-> NoText, left |-> loader.left - 1]
     \/ ~ HasScene /\ visible = {} /\ loader' = [loader EXCEPT !.left = @ - 1]
  /\ UNCHANGED <<bridgeVars, editorVars, listenVars, diskVars, window, reads, missed>>

LoaderReads ==
  /\ loader.pc = "reading"
  /\ loader' = [loader EXCEPT !.pc = "read", !.text = disk[loader.file]]
  /\ UNCHANGED <<bridgeVars, editorVars, listenVars, diskVars, window, reads, missed>>

\* The file cannot be read: this attempt is over.
LoaderFails ==
  /\ loader.pc = "reading"
  /\ loader' = [loader EXCEPT !.pc = "waiting", !.file = NoFile]
  /\ UNCHANGED <<bridgeVars, editorVars, listenVars, diskVars, window, reads, missed>>

\* Whether there is a scene by now is not asked again.
LoaderLoads ==
  /\ loader.pc = "read"
  /\ LET f == loader.file
         t == loader.text
     IN  /\ Bridge!Open(f, Accepted(t), Normal[t] # t)
         /\ Miss([late   |-> Replaces(t) /\ (text # NoText \/ t # disk[f]),
                  moved  |-> KeepsOtherText(f, t),
                  astray |-> ~ Replaces(t) /\ uri \notin {f, NoFile}])
         /\ \/ Replaces(t) /\ watched' = f /\ LoaderEnds
            \/ /\ ~ Replaces(t) /\ watched' = watched
               /\ loader' = [loader EXCEPT !.pc = "waiting", !.file = NoFile, !.text = NoText]
  /\ UNCHANGED <<editorVars, listening, live, diskVars, window, reads>>

-----------------------------------------------------------------------------
User ==
  \/ \E f \in Files : ShowEditor(f) \/ HideEditor(f) \/ CloseEditor(f) \/ SaveEditor(f) \/ DiscardChanges(f)
  \/ \E f \in Files, t \in Texts : TypeText(f, t)
  \/ \E t \in Texts : EditScene(t)
  \/ FocusEditor

Outside ==
  \/ \E f \in Files : WriteFails(f) \/ \E t \in Texts : WriteOutside(f, t)
  \/ \E i \in DOMAIN reads : ReadFails(i)
  \/ LoaderFails

System ==
  \/ SaveTimerFires
  \/ WindowCloses
  \/ \E f \in Files : WriteDone(f) \/ FileChanged(f) \/ ModelReloads(f)
  \/ \E i \in DOMAIN reads : ReadFile(i) \/ ReadDone(i)
  \/ LoaderLooks \/ LoaderReads \/ LoaderLoads

Next == User \/ Outside \/ System

Spec == Init /\ [][Next]_vars

-----------------------------------------------------------------------------
(* Properties *)

\* Something that is under way will still bring text, editor and file of f
\* together, or change one of them.
UnderWay(f) ==
  \/ saveTimer
  \/ writes[f] # <<>>
  \/ f \in events
  \/ \E i \in DOMAIN reads : reads[i].file = f
  \/ model[f] \notin {NoText, disk[f]} /\ f \notin dirty

\* The text of the bridge is that of its file, or of the editor if the user
\* has not saved it, unless something is under way or content was passed
\* over in one of the ways the history names.
InSync ==
  missed = {} /\ text # NoText /\ ~ UnderWay(uri) =>
    /\ model[uri] # NoText => Accepted(model[uri]) \in {NoText, text}
    /\ uri \notin dirty => Accepted(disk[uri]) \in {NoText, text}

\* No file ever holds the scene of another file, late saves and late reads
\* included, unless the text of a file that is not the bridge's was loaded into
\* it, or the bridge was pointed at a file whose load was then refused.
FilesKeepTheirScenes ==
  {"foreign", "moved"} \cap missed = {} => \A f \in Files : Home[disk[f]] = f

\* A valid text typed into the first editor on show, if that is of the bridge's
\* own file, is the bridge's text at once.
TypingReachesBridge ==
  [][\A f \in Files :
       /\ uri = f /\ front = f /\ f \in dirty'
       /\ model'[f] \in Valid \ {model[f]}
       => text' = Normal[model'[f]]]_vars

\* Nothing is left to be done without the user.
Quiet ==
  /\ ~ window
  /\ loader.pc = "waiting" /\ loader.left = 0
  /\ \A f \in Files : ~ UnderWay(f)

\* What the system still has to do.  Only content that migration changes makes
\* a read ask for a save, and no save of the bridge leaves such content; a save
\* makes an event, an event a read, and an editor follows what is then there.
LoaderWork == 3 * loader.left + [waiting |-> 0, read |-> 1, reading |-> 2][loader.pc]
Outdated(t) == Normal[t] # t
OutdatedEvents == {f \in events : Outdated(disk[f])}
Unread == {i \in DOMAIN reads : reads[i].text = NoText}
OutdatedUnread == {i \in Unread : Outdated(disk[reads[i].file])}
OutdatedReads == {i \in DOMAIN reads \ Unread : Outdated(reads[i].text)}
Queued == UNION {{f} \X DOMAIN writes[f] : f \in Files}
Following == {f \in Files : model[f] \notin {NoText, disk[f]} /\ f \notin dirty}

Work ==
  <<LoaderWork, Cardinality(OutdatedEvents), Cardinality(OutdatedUnread), Cardinality(OutdatedReads),
    Indicator(saveTimer), Cardinality(Queued), Cardinality(events), Cardinality(Unread), Len(reads),
    Cardinality(Following), Indicator(window)>>

\* Saves, file events, reads, reloads and editors that follow the disk answer
\* one another, and never in a circle: whichever of them comes next, there is
\* less work left after it.
WorkRunsOut == [][System => Descends(Work', Work)]_vars

\* Left alone, all of this comes to an end, with nothing left undone.
Settles == <>[][System]_vars => <>[]Quiet
=============================================================================
