# Verification of the Void engine editor

Void is a fork of VS Code with a scene editor for the Bevy game engine built in: `.vecn` scenes are
edited as text, in 3D and 2D viewports, in an inspector and in a hierarchy, and the game is built and
run with cargo from the workbench. What the fork adds lives under `src/src/vs/workbench/contrib/void*`,
`src/src/vs/code/electron-main/{cargoIpc,qwenIpc,gameRunner}.ts` and
`src/src/vs/workbench/contrib/chat`; the rest of the tree is upstream VS Code and is not a subject here.
Paths below are relative to `src/src/vs/`.

## 1. Inventory

Each component with its state, its operations, whom it talks to, what is hard about it, and what
makes it correct.

| component | state | operations | interacts with | what is hard |
|---|---|---|---|---|
| **Scene bridge** `workbench/contrib/voidSceneEditor/common/voidSceneBridge.ts` | the parsed scene and its text side by side, file uri, validation, selection, undo and redo stacks of texts, drag window, save timer | load, 11 kinds of edit, select, undo, redo, two timers | every view shares its scene objects by reference; fires change and save events | two representations edited by different code (objects, regular expressions, serializer); history kept as texts; three timers racing edits and loads |
| **Entity tree** (inside the bridge) | `entities` and their `children` | find, create, delete, reparent, duplicate | the bridge's edits | order of lookup and removal; dropping an entity on its own descendant |
| **Scene editor contribution** `voidSceneEditor/browser/voidSceneEditor.contribution.ts` | visible editor, model listener, file watcher, time of last save | load a scene, follow the text model, watch the file, save, replicate | bridge, text model, disk, runtime service | asynchronous reads between a test and its use, and reads and writes whose failure is swallowed; file events caused by its own saves; several editors on show and one listener |
| **Views** `files/browser/views/sceneHierarchyView.ts`, `inspectorView.ts`, `viewport2D/3D.ts` | component objects kept between renders | call the bridge | bridge | stale objects after a load, an undo or an apply-to-all |
| **Parser, validation, migration, diff** `vecnParser.ts`, `vecnValidation.ts`, `vecnMigration.ts`, `vecnDiff.ts` | none | text to scene and back, repair, three-way merge | bridge | round trip; duplicate ids in the merge |
| **Cargo IPC** `code/electron-main/cargoIpc.ts` | one process per window, hash of the last build per workspace | run, build, stop, cleanup; output, close and error events | game runner over IPC, cargo, the operating system | late close events; a kill that reaches the shell alone; a hash taken at another time than the build; requests that wait for a process |
| **Game runner** `voidGameRunner/` | guard of F5, build window | F5, F6, close the window | Cargo IPC, runtime service | overlapping calls that resume and find another call's state; reloads |
| **Runtime service** `voidRuntime/browser/voidRuntimeService.ts` | engine state, log ring, crash reports, network figures | transition, log, publish, watchdog | everything above | one state moved by four components; ring and timers |
| **Chat pane** `chat/browser/widgetHosts/viewPane/chatViewPane.ts` | messages on show, context segments for the agent, conversations and the one that is open, attached files, rows that say the agent is thinking | send, handle events and answers, create, open, remove, pin and rename conversations, attach files | chat service, local storage | a message is shown, its files are read, and only then is the guard looked at; four copies of one conversation; events that name no request |
| **Chat service and IPC** `qwenChatService.ts`, `code/electron-main/qwenIpc.ts` | one guard per window, one agent process per request | send, one retry | pane, agent process | refusals, retries, processes that outlive their page; no timeout, and the abort that exists has no caller |
| **Chat history** `chatHistoryModel.ts`, `chatHistoryUiStore.ts` | the list under one key of local storage | load, sort, limit, save | every window of the editor | each window saves its own whole list |
| **Game viewport window** `code/electron-main/gameRunner.ts` | one window per game | open, close | electron | not reached from F5 |
| **Monitor, welcome, shell, menu, loader** | – | user interface | – | – |
| **Rust scene loader** `src/engine/void-scene-loader` | – | loads a `.vecn` into Bevy | the file | – |

What makes each correct:

* bridge: the text describes the scene; undo and redo are a linear history; every edit can be undone;
  every change reaches the file; drags are always recorded again after a pause;
* tree: every entity stays reachable, in the scene and in every text that undo may bring back;
* contribution: no edit is replaced by older content, and content goes to the file it came from;
* cargo IPC: a request is answered once its process has closed; the table names the process that runs; what is started was
  built from what is in the workspace;
* game runner: F5 is refused only while a run will release it; the engine is shown as running only
  while it is; an answer goes to the call that asked;
* runtime service: the log stays bounded, a crash is reported once;
* chat: what is on show is what is saved and the end of it is what the agent is given; a request
  carries the conversation it was asked in; the guard is set exactly while a request is in flight and
  is always released; events belong to that request; conversations survive a restart.

## 2. Plan

In order of how much depends on it. 1 to 5 are done; what is left has little that a model checker or
a prover could add to a test (section 6).

| | modules | question |
|---|---|---|
| 1 | `SceneTree`, `SceneBridge`, `LinearHistory`; `SceneBridge_proofs` | scene, text, history, saves |
| 2 | `CargoIpc`, `GameRunner` (composes it); `GameRunner_proofs` | processes, requests, overlapping calls |
| 3 | `TextBridge`, `SceneSync` (a bridge reduced to its text, the editors, the disk, the watcher and the 300 ms after a save; two files), `Descent`; `SceneSync_proofs`, `Descent_proofs` | is an edit lost, does a file get another's content, do saves and file events feed one another for ever |
| 4 | `Conversations`, `ChatHistory`, `ChatPane` (uses it); `ChatPane_proofs`, `ChatHistory_proofs`, `ChatPaneHistory_proofs` | overlapping requests, retries, reloads, what is saved, does a request wait for nothing |
| 5 | `RunUndo`; `RunUndo_proofs` | does the undo of an agent's run restore what was there |
| 6 | the log ring, the watchdog and the crash reports of the runtime service | a crash is reported once |
| 7 | stale objects of the inspector, script links | edits through stale objects |

Every safety property that a passing run checks is also a theorem (section 5). What is left to TLC
alone is liveness, and of two liveness properties the part that no step of the system makes work without
end is proved as well.

Modules are written to be proved about: parameters are constants with named assumptions, one action
per operation, invariants are conjunctions, no recursive operator.

## 3. Modules and code

### SceneTree

A scene is a function from ids to nodes; a node has a parent (`Root` at the top level) and one datum
for all else it carries. `Below(s, n)` is what the recursive walks of `findEntity` and `collectIds`
meet, defined as the least closed set, so that theorems need no recursion. `AddEntity`,
`RemoveEntity`, `MoveEntity`, `CloneEntity` and `SetData` are the bodies of create, delete, reparent,
duplicate and of the edits of fields. `MoveEntity` keeps the code's order: removal, then the lookup of
the new parent in what is left.

Left out: the order of siblings. Assumed: ids are unique (a scene with a duplicate id is refused).

### SceneBridge

Variables are the private fields of the class (`uri`, `scene`, `raw`, `valid`, `sel`, `undo`, `redo`,
`armed`, the two timers), plus one history variable `outside`, the text the file side last gave or
received. JavaScript runs a handler to its end, so a handler is one action; interleavings are those of
handlers and timers. A text is the scene it parses to and its layout: the serializer's (`canon`) or
another (`hand`). `PatchTarget` is the environment's choice of which `Transform(` the regular
expressions of `patchRawTRS` find in a hand-written text: the entity's own, another's, or none. In the
serializer's layout they find the entity's own, except where its name reads like a component
(`Transform (copy)`) or more than 2000 characters stand before it: data of such entities are `Misnamed`,
and a patch leaves their text as it was. A drag changes neither the name nor what is before the
transform (`Drags`), so whether an entity is Misnamed is the same in the text and in memory.

Each action has the name of its method. `Commit` is the tail shared by the edits that serialize.
`LoadFromText` keeps all branches: blank text, unchanged text, refused text, legacy text by source.

Left out: 32-bit collisions of the text hash, `toFixed` rounding in patched transforms,
`mergeFromContent` (no caller), the component templates of `createEntity` (data).

### LinearHistory

What an editor promises of undo and redo: a line of states and a cursor; undo and redo move the cursor
by one and leave the line alone, an edit drops what lies ahead. Two exceptions the code makes are part
of it by name: within a gesture, and behind a duplicate, an edit replaces the state under the cursor.
`SceneBridge` implements it under `line <- undo texts, raw, reversed redo texts`.

### TextBridge

What the files and the editors see of a bridge: its uri, its text and the save timer. A load replaces
the text, leaves it (blank, refused or unchanged content), or replaces it and asks for a save (an older
version was migrated); an edit of the panels, an undo or a redo gives another text and asks for a save;
the timer fires. `SceneBridge` implements it with all else hidden, so `SceneSync` may use the small one
in its place.

### SceneSync

`disk`, `model`, `dirty`, `visible` and `front` are VS Code's side: the content of each file, its text
model if an editor has it open, the models with changes the user has not saved, the scene editors on show,
side by side, and the one of them `findVecnModel` comes to first. `handleActiveEditorChange` attaches the
one listener to `front` (`ActiveEditorChanges`) and runs when the active editor is another
(`ShowEditor`, `FocusEditor`) or its place is empty (`HideEditor`, `CloseEditor`); editors that come and go beside
it leave it alone (`NothingActivated`). The fields of the contribution are `listening` (`modelListener.__uri`), `watched` (`fileWatcher`) and
`window` (`Date.now() < suppressModelUntil`); `live` tells whether the model that was listened to still
exists. Every `await` ends an action: `writes` are saves on their way to the disk, in order per file,
`events` the change events on theirs, `reads` the reads of the watcher, `loader` the one of `loadScene`.

What the code does with a content is decided when it arrives: `ContentChanged` is the model listener,
`AttachModelListener` the choice to load or not to load the editor that comes on show, `FileChanged`
tests the window and `ReadDone` loads what was read, `SaveToDisk` writes the file and, if its editor is
the first on show, the model, which stays dirty. Reads and writes may fail: `ReadFails` spends the event,
`LoaderFails` one attempt of the loader (so does a blank file), `WriteFails` drops the text, and in each case the catch of
the code tells nobody. A text is data with four properties: the file whose scene it is
(`Home`), what migration makes of it (`Normal`), whether validation accepts it, whether it has entities
(`HasScene` counts only those).

`missed` is a history variable: the ways in which content was passed over or overwritten so far. Each
is a guard at the step where it happens:

| reason | step | the code |
|---|---|---|
| `window` | typing, `FileChanged` | within 300 ms after a save both are ignored |
| `dead` | typing | a reopened editor has another model, its file still counts as attached |
| `unheard` | typing | an editor of the bridge's file is on show beside the one that is listened to |
| `foreign` | typing, `ReadDone` | the text of one file is loaded while the bridge is at another |
| `moved` | attach, `LoaderLoads` | `setUri` before a load that is refused |
| `astray` | `LoaderLoads` | the same before there is a text: the watcher stays with the other file |
| `late` | attach, `ReadDone`, `LoaderLoads` | what was read is not what the file has by now |
| `background` | `SaveToDisk` | the file is written, a hidden editor with changes is not |
| `discarded` | `DiscardChanges` | the user takes changes back, or closes without saving |
| `conflict` | `ReadDone` | the file's content is loaded while its editor has unsaved changes |
| `failed` | `WriteFails` | the error of the write is swallowed (line 1689), nobody tries again |
| `unread` | `ReadFails` | the error of the watcher's read is swallowed (line 1673), its event is spent |

The list is complete in the sense of `InSync`: as long as none of these has happened, bridge, editor
and file agree whenever nothing is on its way. Each of them is the code's behaviour and none is
excluded from the model. A read of the loader that fails gives no reason: until a scene is loaded there is no text that
could differ.

`Work` is what the system has left to do, and `WorkRunsOut` says that each of its own steps descends in it
(see `Descent`). In this order it counts: the loader's attempts and reads; events, reads to be made and
reads made of content that migration changes; the save timer; queued writes; events; reads to be made;
reads; models that have to follow the disk; the window of 300 ms. A read or a write that fails only
shortens it, but is not a step of the system (`Outside`). The order is that of what leads to what:
a save makes a write, a write an event, an event a read, and a finished write may leave models behind
the disk. The one way back is a read of an older version, which is migrated and asks for a save again: such
reads, and the events they come from, therefore count more than the save timer, and no save adds to them
because what the bridge saves is never of an older version. A model that follows its file asks for no save.
Finitely many files are assumed (`FinitelyManyFiles`).

Left out: the picker and template commands, editors of other kinds, several groups
that show one file, renaming of files. A file that is deleted is one whose reads fail.
External: text models, file service and file events of VS Code.

### Descent

Work left to be done as a tuple of numbers of which the first counts most; `Descends` compares two of them.
`SceneSync` and `ChatPane` state with it that their steps cannot go round in a circle, which is a property
of single steps and therefore within reach of a proof, unlike the liveness that rests on it.

### CargoIpc

`procs` is every process ever spawned, named by its index; `table` is `gameProcesses`; `cache` is
`lastBuildHashes`; `sources` and `binary` are the workspace: a version stands for the content the
project hash covers. The handlers `cargo-run-release` (its two branches `RunCached` and `RunCargo`),
`cargo-build` with its alias `cargo-watch`, `cargo-stop` and `cargo-cleanup` are actions; so are the
events of a process: `Compile`, `FinishedOutput`, `Close`, `SpawnFails`. A killed process is `dying`
until its close event. `held` is what the shell has started: cargo, or the game. A kill signals the shell alone
(`shell: true`), so a killed process may still compile and hold its output open; `ChildEnds` is the end of that, by itself or because
the signal was passed on, and only then can `Close` come.

Left out: progress messages and the probes of the preflight, which keep no state. Assumed: a window
has a workspace of its own, and the executable is named after the folder, as the code takes it to be
(where it is missing, the code runs cargo, which is `binary = None`). External: node's child processes,
cargo, the user's edits.

### GameRunner

Each press of F5 or F6 is an element of `calls` with its own program counter, `preflight`, `requested`
(on its way in `wire`), `waiting` for process `proc`, `done`, or `lost` when the renderer was
reloaded. `isRunning`, `gameWindow` and `status` are fields of the contribution and of the runtime
service, per workbench window. An `await` ends an action and its continuation is the next; what the
continuation finds is the state then. Messages of one renderer arrive in order; answers in any.
`OtherTransition` stands for the scene editor, the chat and the runtime contribution, which move the
same engine state.

### ChatHistory

One value for what a window holds in memory and what it writes to the store: the sessions in the order
of `historySessions`, which are pinned, their order by `updatedAt`, their messages, and which is on
show. Operators have the methods' order of steps: `Record` creates a session if none is on show, adds
the message, touches, sorts and cuts off what exceeds the limit; `Discard` opens the first session left.
`Filter` selects elements by their positions (`At`) and not by `SelectSeq`, whose definition is recursive:
facts about positions can be proved without an induction. `RecordAll` says what a step records in the
order it does; no step records more than two messages. Assumed: `None`, for no session, is not a number.

Left out: titles, times, the clipping of long texts. The stored records are valid, as only this code
writes them.

### ChatPane

Each message is an element of `asks`: `reading` its attachments, `sent`, then `answered`, `failed` or
`refused`; `lost` when its page was reloaded. Two handlers of the code meet in `SendMessage`: without
a file to read, `chatViewPane.sendMessage` runs to the service's guard without yielding (its awaits
end at once), so showing, recording and `Submit` are one action; with one, `AttachmentsRead` is the
continuation. `Submit` is the guard of `QwenChatService.sendMessage`. `down` is what is on its way
from the main process to a window, events and answers in the order they were sent: both travel over
one connection. An answer (`HandleAnswer`) ends the request, or starts the second attempt when its
text says the process exited with code 1. `AgentExits` sends an answer only to the page that asked; events go
to whatever page is there, so a reload leaves an agent whose events are shown in the next page.
`Reload` is the end of a page and the `loadHistorySessions` of the next.

`RequestsWillEnd` says that a request in flight never waits for nothing: its agent runs, or the answer is in
`down`. `WorkRunsOut` is the descent of the page and of the agents that end; `Work` counts, in this order,
the messages whose attachments are being read, the attempts the asks have left, the agents that run, what
is in `down`, and the inline files being read. An attachment that was read may start an agent, an answer
may start another but uses up an attempt, an agent that ends sends one answer. Events of a running agent
are not among these steps: what an agent does is its own affair. Finitely many windows and inline files
are assumed (`FinitelyMany`).

`store` is the key in local storage all windows share. Left out: the summary that replaces compacted
context, tool cards and the run summary (`RunUndo`), the abort that has no caller, and a store that is full.
A message and its attachments count as one.

### Conversations

What the chat promises of its saved conversations, without requests, agents or the order of lists: each
window has pages of messages, one of them open, and all share the copy that was saved last. Messages are
only added to the open page, the oldest go only when it is full, and a page goes only when it is removed,
makes room for a new one, or a restart takes another window's copy. `ChatPane` implements it under
`pages <- messages`, `open <- active`, `saved <-` the same of `store` (`ImplementsConversations`).

### RunUndo

What the pane does with the files an agent's run touches. `file` is the disk, `agents` the agents at work,
each with the files of announced calls it has yet to work on, `down` the events on their way. `touched`,
`snapshots`, `rendered` and `container` are the pane's fields; they belong to no run. `captures` are the
calls of `captureRunFileSnapshots` under way and `summaries` those of `addRunSummaryCard`: each awaits
one file after another, and `CaptureFrom` is the loop up to the next await. `cards` are the cards with
their Undo button. `Clear` is the common part of sending a message and opening a session.

The pane keeps text: `Decoded` is what `tryDecodeUtf8` makes of a file's bytes, and several contents may have
one text (a byte order mark is stripped, what is no UTF-8 is replaced). A read of a file that is there may fail
(`CaptureFails`, and `SummaryReads` with `Absent`), and the code then takes it for one that is not. `OpenSession`
captures the files of every recorded call at once (`Recaptured`), as they are now. `Reload` does the same in a new
page: what the old one awaited is gone, its agents run on, and their calls and results reach the new page,
where they count for whatever run it has; the answer goes only to the page that asked.

Two history variables: `runs` holds the files at the start of each run and the first way in which it was
disturbed, `stray` tells that the next run starts among leftovers. A run is disturbed when the agent
works on a file before it was read (`raced`: nothing holds it back), two captures read the same file
(`twice`), the result arrives before the captures have ended (`late`), a file that is there cannot be read
(`unread`), a message, a session or a reload clears what belongs to it (`cleared`), somebody else writes a file
(`elsewhere`), another run begins before its card is made, or another run or an undo writes a file
(`overtaken`), or the agent or an undo fails (`failed`). A run that begins while an agent of an earlier page is at
work starts among leftovers. `UndoRestoresRun` and `ChangedRunHasCard` are
about all runs that none of this happened to, whatever happened to those before them. The first says that
every file has the text it had at the start: byte for byte where the run left the text alone, else as
that text is written. Bytes of which only a part is text come back as that part, which is what the code
does. The second asks for a card when a file's text is another.

Left out: the request that compacts the context, rows of text, calls announced twice (dropped by id),
the second attempt of an agent that failed (its run counts as failed), files that commands change without naming them.

Definitions whose comment begins with "Faulty" are not part of any specification: each is a plausible
mistake in the definition after it, used to see that the properties would notice.

## 4. What the runs check

| run | instance | shows |
|---|---|---|
| `bridge_history` | 1 entity, 4 values of which 2 Misnamed, history limit 3, 5 user steps, fairness of both timers | text describes scene, stacks bounded, drag window reopens, unsaved text has a timer and is saved in the end, implements `LinearHistory` and `TextBridge`, edits undoable |
| `bridge_tree` | 4 ids, 2 files, empty scene and chain of two, limit 1, 4 user steps | types; every scene and stacked text is a forest |
| `bridge_patch` | as `bridge_history` | **violation**: a drag over hand-written text moves the scene and not the text |
| `scene_sync` | 2 files, also side by side; one with texts that are valid, broken, old or empty, the other without empty ones; 1 attempt of the loader, 3 steps of the user or of other programs, failed reads and writes among them, fairness of the rest | bridge, editor and file agree once nothing is on its way; no file gets another's scene; saves and events come to an end, and every step towards it leaves less to do |
| `scene_typing` | the same, 2 kinds for the other file | **violation**: text typed right after a save is not loaded |
| `game_runner` | 1 window, 2 versions, 2 calls, 1 reload, fairness | guard, build window and engine state agree with the runs in flight; the table is right; builds end, and runs whose cargo and game have ended |
| `game_one_live` | 2 calls | **violation**: two live processes for one window |
| `game_cached` | 2 versions, 3 calls | **violation**: a cached run of an executable older than the sources |
| `chat_pane` | 1 window, 1 file by path and 2 without, 1 attached at most, 2 sessions of 3 messages, 4 user steps of which 2 messages, 2 events | what is shown, recorded and given to the agent agree; implements `Conversations`; guard, stream and rows belong to requests; a request in flight has an agent at work or an answer on its way; attachments are limited |
| `chat_ends` | as `chat_pane`, 3 user steps, 1 event, 1 file without path, fairness | every message comes to an end, and every step towards it leaves less to do |
| `chat_store` | 2 windows | **violation**: a conversation is gone from the store |
| `run_undo` | 2 runs, 2 files of which one exists and is only partly text, 2 announced paths, a session of 2 calls, 3 steps of the user and faults | the undo of an undisturbed run restores the text of its files; one that changed a text gets a card |

Bounds. `MaxEdits` counts what the user does; undo, redo and timers are free. Three undo levels and
five steps fill the stack, overflow it, go back and branch off: the cases in the stack code are empty,
below the limit, at it, and equal top. Four ids are the least for reparenting a chain and
duplicating it. Two calls are enough for an answer of one to meet the state of the other, and for a
late close event to meet a successor; the proofs cover any number of calls, windows and processes.
In the chat, two messages are enough for a refusal, for an answer to arrive in another conversation, and
for the next page to meet an agent of the last; a session of three messages overflows within one
exchange, two sessions are one less than the user can create in four steps, and one attached file is
the least limit two dropped files can exceed. `ConversationsAreStored` takes two windows, and is refuted in `chat_store`.
Two files are what a scene needs to reach the wrong one, and three steps of the user or of another
program, each followed by any order of timers, writes, events and reads, give every reason of `missed`, typing in the
second of two editors on show and a read that fails among them; `AlwaysInSync` covers any number. Two runs are what the leftovers of one need to meet the next; two
announced paths give a file in two calls, two files in one, and a file that does not exist (calls name
either file or both). Three steps are shared by the user's messages, sessions, reloads, undos and writes and by whatever fails: a
failed read, write or agent is one of them. Sessions that are opened or
shown by a reload replay two calls or none; the proofs cover any. `run_undo`
has a constraint, `Alive`: it does not go on from states in which every run is disturbed and none can
start any more, of which the properties say nothing.
Deadlock is not checked: a user may stop, and a bounded instance ends.

Fairness. `bridge_history`: a timer that nobody restarts fires. `scene_sync`: timers fire, file
operations end and events arrive (`System`); `Settles` asks for an end only once the user and other
programs have stopped. `game_runner`: the renderer and the main
process handle what has arrived, a preflight ends (each probe is a command with an exit), a build
ends, and a process whose children have ended closes. Nothing is assumed of a game that runs, nor of one whose
shell was killed, so a stop does not guarantee that the request of F5 ends: `CallsEnd` promises it of
builds, and of a run once what it started has ended.
`chat_ends`: the page handles what has arrived, files can be read, and an agent's process ends. The
last is an assumption about the agent: the code has no timeout, and without it nothing follows.

### Findings

* `PatchedTextTracksScene`. The header of voidSceneBridge.ts (line 5) says a gizmo edit "patches
  in-memory + raw". Where no `Transform(` is within reach, the text stays as it was; the old transform
  is what is saved, replicated and restored by undo.
* `TypingReachesBridge`. The header of voidSceneBridge.ts (line 7) says that typing in the text editor
  is loaded. The listener ignores it within 300 ms after a save of the bridge and nobody looks again:
  the next edit of a panel writes the old scene over what was typed. The same follows for good after an
  editor was closed and opened again (contribution, line 1619: its file still counts as attached).
* `OneLiveProcess`. "Stop any existing process for this window" is not done by the branch that
  starts the executable of the last build.
* `CachedRunIsCurrent`. "No changes detected, skipping rebuild" follows from a hash of the sources as
  they are when cargo prints `Finished`, not as they were compiled; also an F6 build replaces the
  executable and stores no hash.
* `ConversationsAreStored`. DOCS.md:85 lists persistent conversations as done. Each window writes its own
  whole list under one key, so the last of two windows to save erases the other's conversations.

## 5. What is proved

For every value of the constants, any number of entities, files, windows, processes, messages and runs, under the `ASSUME`s of the modules (a positive history limit, `Root`,
`None` and the other sentinels outside the sets they extend, contents that parse to forests, and finitely many files and
windows where the work left is counted).

**SceneBridge_proofs.** The first section is about `SceneTree`: what each tree operation returns: a scene, the right entities, and a forest if
the old one was. The forest property is used through one rule (`ForestRule`): a scene is a forest if
every set of entities that holds all top-level ones and is closed under children holds all. Reparenting onto a
descendant is safe because the lookup comes after the removal; `MoveBeforeRemoval` is the variant in
which it is not.

The second section sorts the steps of the bridge into kinds (load, commit, drag, undo or redo, the rest), then
one lemma per invariant goes through the kinds. `TypeOK`, `HistoryBounded` and `ClosedWindowHasTimer`
are inductive given `TypeOK`; `HistoryBounded` because undo and redo only move an entry from one stack
to the other. `ScenesAreForests` includes the stacked texts, without which undo could not be shown to
restore a forest. `TextDescribesScene` is inductive because every path to the scene also goes through
the text or a patch that keeps the tree; that a patch which finds nothing leaves old data of a Misnamed
entity beside new data of one needs `Drags`. `UnsavedHasTimer` needs the strengthening `SceneHasFile`: a
scene belongs to a file, else a save that fires would be dropped. `EditIsUndoable` is an action
property, from `TypeOK`. `BridgeImplementsText`: every step is a step of `TextBridge` or leaves its three
variables alone, kind by kind. `BridgeImplementsHistory` first gives the line by positions (`LineOf`):
undo, redo, push and replacement are then four facts about it (`UndoLine` and `RedoLine` are both
`ShiftLine`, one text going from one stack to the other). A step is matched with the help of `TypeOK`
and of `ClosedWindowHasTimer`, by which the timer that opens the window ends a gesture.

**SceneSync_proofs.** `TypeCorrect` needs facts about the queues of writes and reads: an element that is
taken out leaves all others, one that is filled keeps its file. `FilesAlwaysKeepTheirScenes` is a
statement about the disk; the invariant behind it, `Homes`, is about every place a text can be (disk, write queues,
models, reads, loader, bridge), as each feeds the next. It holds until a text is heard from another
file or the uri moves without its load, the two reasons the property names.
`AlwaysInSync` compares three places that are equal almost never, so its invariant says for each
difference what is still on its way to remove it: what the disk has the bridge has, or there is a save
timer, a queued write, an event, or a read that is not older than the disk (`DiskAgrees`); what the
user has not saved the bridge has, or will write over (`EditorAgrees`). Two parts say who listens:
without a text the watcher is where the listener is, with one it is at the uri (`Attached`), and no
unsaved model is valid before there is a text (`NothingUnsaved`). Each step that takes something off
the way either delivers it or is one of the reasons of `missed`. The reason `astray` was found by this
proof: with the bounds of `scene_sync` it has no consequence. A failed read and an editor nobody listens to
are cases of the same argument: what was on its way is gone, and `unread` or `unheard` is noted unless it would
have changed nothing.
`WorkAlwaysRunsOut` needs that neither the bridge nor a queued write has a text that a migration would
change (`UpToDate`, an invariant): else a finished write would make an outdated event, and the circle of
event, read and save would be closed. Each step then has a lemma that names the first of the eleven numbers
it makes less and shows that none before it grows.

**Descent_proofs.** `DescentEnds`: there is no endless sequence of tuples of a given length of which each descends
from the one before. The numbers are well-founded, so their lexicographic product is. With it, `WorkAlwaysRunsOut`
of `SceneSync` and of `ChatPane` says that these systems cannot be busy for ever without the user, an agent's events or
another program. The other lemmas are about counting: tuples are compared place by place (`LessSomewhere`), a finite
family of finite sets is finite (`FamilyIsFinite`), a part has fewer elements (`PartIsLess`), also where the elements
are positions of a list from which one was taken (`PositionsLeft`).

**GameRunner_proofs.** First `CargoIpc` alone: every handler either appends one process and makes it the
entry of its window, or keeps the list's length and clears an entry. From this `TrackedIsNewest` (a late
close event can clear the entry of a successor but never install a wrong one)
is inductive. Every step of the whole is a step of the main process or none (`MainStep`), which
carries it over. `RefusalHasRun` and `RunningIsShown` are inductive given `TypeOK`: a step either
changes the flag itself or keeps the run that justifies it going. `CallsHaveOneProcess` needs the
strengthening `WireOwn`: a wire carries only calls of its own window, else a process could be spawned
for another window than its call's.

**ChatPane_proofs.** The request side of the chat reads and writes three variables, `asks`,
`processing` and `down`; every other action leaves them alone (`RequestInvStutter`). `GuardHasRequest`
and `StreamIsCurrent` are not inductive on their own: that an answer finds a request to end needs
`AnswersAreAwaited` (a reload takes the answers on their way with it), and that an event belongs to a
request in flight needs `AgentsHaveAsks` (an agent runs only for a request in flight or cut off). What
asks say of sessions and contexts is left open (`AskOf`), so the proof does not depend on the history.
An answer is the last of its request because its agent has ended, and a stream keeps its order. `AttachmentsAreLimited` is
inductive once the set is known to be finite. `RowsAlwaysHaveAsks` counts: a step that adds a row adds a
silent ask of that window, one that makes an ask speak or end takes a row if there is one, and the
cardinality of the set of silent asks changes by at most the element that enters or leaves.
`RequestsAlwaysWillEnd` is inductive given `RequestInv`: an agent that ends leaves its answer in `down` behind all
its events, an event taken from `down` leaves the answer there, and the answer that is taken ends the very request
it belongs to or starts its next agent, because no second request of the window is in flight. A reload, which
throws `down` away, also takes every request of the window out of flight. `WorkAlwaysRunsOut` needs `RequestInv` for the
same reason (an answer that starts an agent uses up an attempt of its own request) and `ReadingInv`, by which only
inline files are being read.

**ChatHistory_proofs, ChatPaneHistory_proofs.** A position in a filtered list is the number of positions kept up to
it. From this follow, without induction, what the chat needs of filtering: the result has the right elements, in their
order, none twice if none was (`Filtered`). Each operator is then shown to take a history to a history
(`IsHistory`: no session twice, `list` and `recent` of the same sessions, messages of these alone) and, for
`Kept`, within the limits. A session just touched may be sorted last, behind as many pinned sessions as are
kept; it is never cut off, because between steps the list is never longer than the limit, and a list grows only
where a session is created, in front. `PaneInv` says of every window that its history is kept, its active messages are the last of
`surface`, and `context` is a suffix of what replaying them would give (`Fits`); suffixes are carried over appending,
over the cut to the limit and over compaction by four lemmas. `ShownAlwaysRecorded`,
`ContextAlwaysTail` and the history's part of `TypeCorrect` follow for any number of windows.
`AlwaysAskedInItsConversation` relates an ask to an earlier state: a step either keeps the messages of
a session and may add some, or the session ends up full or gone (`Continues`), so a context that was part of it still is.
It is about asks in flight, for which no page has ended since, and so holds in any number of windows, though
they write one store. `PaneImplementsConversations` (any number of windows) gives for each
operator of `ChatHistory` the action of `Conversations` it is: recording continues the open page or begins one
(`Recorded`, `Created`), every other operator leaves the messages of what stays. The restart takes `store`, and
`saved` is `store` in the terms of pages.

**RunUndo_proofs.** `UndoAlwaysRestores` and `ChangesAlwaysHaveCard` compare files with what they were at the
start of a run, while the pane's fields belong to no run and agents of earlier pages may be at work. The
invariant therefore says, for every run that is undisturbed, where its old contents are at each stage, and each
part hands over to the next: `Stream` (the run that holds the guard is the only one not done, and the one answer on its
way is its own), `Alone` (beside the newest run, if it is undisturbed, no other agent is at work, and its result is
the last thing but the answer), `Fresh` (a run that does not start among leftovers finds every field empty and no
agent), `Work` (what the agent has changed was read before; two captures
read different files; a file that was read is in `snapshots` or its capture is under way), `Summing` (every
file that differs is among those the summary has still to read, or in its changes), `Carded` (a card has
every change of its run; an undo under way has still before it what is not restored) and `HasCard`. `LeftIsChanged`
is the part about the cards alone. Files are compared by their text throughout (`Different`); `Unrestored` is
weaker than that, since a text written back need not be read as itself when the decoding is not the identity on it.
`TypeCorrect` carries the ranges of the queues, for which the one fact
about sequences is `TakenGoesOn`: what is after the head of a queue was in it. That an open run counts as
overtaken as soon as the next one begins, and not only when that one writes, was found while this
proof was planned: the next run's `Clear` takes the fields from under it.

**Only model-checked.** Liveness (`EventuallySaved`, `Settles`, `CallsEnd`, `AsksEnd`), which is out of
the prover's reach: that something comes to an end needs fairness, `ENABLED` and an induction along the behaviour. For
`Settles` and `AsksEnd` the part that does not is proved (`WorkRunsOut`, `DescentEnds`, and for the chat
`RequestsWillEnd`); what only TLC checks is that the steps left are taken. The findings are counterexamples and need no proof.

## 6. Not modelled

The views, viewports, gizmos, toolbar, menu, welcome page, theme and monitor: user interface, whose
edits are the bridge's operations. Of the inspector this leaves out the component objects it keeps
between renders: they can be stale after an undo, which is a question of its widgets. The parser and
serializer are one operator each (`Parse`, `Serialize`); their round trip is a matter of formats, the
32-bit hash by which a reload is skipped is taken to be free of collisions, and the three-way merge has
no caller. Of the runtime service the states are modelled and the log ring,
the watchdog and the network figures are not: bounded lists and timers that nothing else depends on.
The links of scenes to scripts are registries in local storage without a protocol. The Electron
viewport window is never opened by F5 or F6; the Rust loader shares only the file with the editor, and
upstream VS Code is outside.
