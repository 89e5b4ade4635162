------------------------------- MODULE CargoIpc -------------------------------
(***************************************************************************)
(* The cargo handlers of the main process (cargoIpc.ts): they spawn        *)
(* `cargo run`, `cargo build` or the executable of the last build for a    *)
(* workbench window, keep one process per window in a table, and answer    *)
(* the window's request when the process closes.  A process is a shell     *)
(* (shell: true) and a kill signals that shell alone: cargo and the game   *)
(* it runs may go on, compile and hold the output open, and the close      *)
(* event comes only when they have let go of it, which may be long after   *)
(* the next process of the window was spawned.                             *)
(*                                                                         *)
(* A window has its own workspace, so what the code keeps per workspace is *)
(* indexed by window.  A version stands for the content the project hash   *)
(* covers (Cargo.toml and src/**.rs); equal versions have equal hashes.    *)
(* Progress messages are left out.                                         *)
(***************************************************************************)
EXTENDS Naturals, Sequences

CONSTANTS Windows,
          Versions,  \* contents of a workspace's sources
          None       \* no hash stored, no executable built

ASSUME NoneAssumption == None \notin Versions

VARIABLES
  procs,    \* every process spawned so far; a process is named by its index
  table,    \* gameProcesses: the index of a window's process, 0 for no entry
  cache,    \* lastBuildHashes
  sources,  \* what is in the workspace
  binary    \* the version the executable in target/debug was built from

cargoVars == <<procs, table, cache, sources, binary>>

\* A process is live until it is killed or fails to start, and dying until
\* its close event.  built: cargo has written the executable.  held: what the
\* shell started, cargo or the game, still runs and has its output open.
Process ==
  [window : Windows, kind : {"run", "build", "game"}, built : BOOLEAN, held : BOOLEAN,
   state : {"live", "dying", "closed"}, answer : {"none", "ok", "failed"}]

CargoTypeOK ==
  /\ procs \in Seq(Process)
  /\ table \in [Windows -> 0 .. Len(procs)]
  /\ cache \in [Windows -> Versions \cup {None}]
  /\ sources \in [Windows -> Versions]
  /\ binary \in [Windows -> Versions \cup {None}]

CargoInit ==
  /\ procs = <<>>
  /\ table = [w \in Windows |-> 0]
  /\ cache = [w \in Windows |-> None]
  /\ sources \in [Windows -> Versions]
  /\ binary \in [Windows -> Versions \cup {None}]

-----------------------------------------------------------------------------
(* Requests *)

NeedsRebuild(w) == cache[w] = None \/ cache[w] # sources[w] \/ binary[w] = None

\* kill and delete, where the table has an entry.  The signal goes to the shell.
KillTracked(w) ==
  IF table[w] = 0 THEN procs ELSE [procs EXCEPT ![table[w]].state = "dying"]

\* The new process is appended to before and becomes the window's entry.
Spawn(w, kind, before) ==
  /\ procs' = Append(before, [window |-> w, kind |-> kind, built |-> kind = "game",
                              held |-> TRUE, state |-> "live", answer |-> IF kind = "game" THEN "ok" ELSE "none"])
  /\ table' = [table EXCEPT ![w] = Len(before) + 1]
  /\ UNCHANGED <<cache, sources, binary>>

\* cargo-run-release, nothing changed: the executable is started and the
\* request answered at once.  The window's process, if any, is left alone.
RunCached(w) == ~ NeedsRebuild(w) /\ Spawn(w, "game", procs)

RunCargo(w) == NeedsRebuild(w) /\ Spawn(w, "run", KillTracked(w))

\* cargo-build, and its alias cargo-watch.
BuildCargo(w) == Spawn(w, "build", KillTracked(w))

\* cargo-stop and cargo-cleanup.
Stop(w) ==
  /\ procs' = KillTracked(w)
  /\ table' = [table EXCEPT ![w] = 0]
  /\ UNCHANGED <<cache, sources, binary>>

-----------------------------------------------------------------------------
(* Processes *)

\* cargo compiles the sources as they are and writes the executable, also
\* after its shell was killed.
Compile(i) ==
  LET w == procs[i].window
  IN  /\ procs[i].held /\ ~ procs[i].built
      /\ procs' = [procs EXCEPT ![i].built = TRUE]
      /\ binary' = [binary EXCEPT ![w] = sources[w]]
      /\ UNCHANGED <<table, cache, sources>>

\* cargo is done or gives up, the game is closed, or a kill has reached them.
ChildEnds(i) ==
  /\ procs[i].held
  /\ procs' = [procs EXCEPT ![i].held = FALSE]
  /\ UNCHANGED <<table, cache, sources, binary>>

\* A line with the word Finished, cargo's own or the running game's: the
\* hash of the sources as they are now is stored.  Only `cargo run` does so.
FinishedOutput(i) ==
  LET w == procs[i].window
  IN  /\ procs[i].kind = "run" /\ procs[i].built /\ procs[i].state # "closed"
      /\ cache' = [cache EXCEPT ![w] = sources[w]]
      /\ UNCHANGED <<procs, table, sources, binary>>

Answered(p, ok) == IF p.answer = "none" THEN (IF ok THEN "ok" ELSE "failed") ELSE p.answer

\* Faulty: a process that is no longer in the table is not answered for.
CloseIfTracked(i, ok) ==
  LET w == procs[i].window
  IN  /\ procs[i].state # "closed" /\ ~ procs[i].held
      /\ ok => procs[i].built
      /\ procs' = [procs EXCEPT ![i].state = "closed",
                                ![i].answer = IF table[w] = i THEN Answered(procs[i], ok) ELSE @]
      /\ table' = [table EXCEPT ![w] = 0]
      /\ UNCHANGED <<cache, sources, binary>>

\* The close event: the shell is gone and its output closed.  The window's entry goes, whichever process it names.
Close(i, ok) ==
  LET w == procs[i].window
  IN  /\ procs[i].state # "closed" /\ ~ procs[i].held
      /\ ok => procs[i].built
      /\ procs' = [procs EXCEPT ![i].state = "closed", ![i].answer = Answered(procs[i], ok)]
      /\ table' = [table EXCEPT ![w] = 0]
      /\ UNCHANGED <<cache, sources, binary>>

\* Faulty: the error handler leaves the entry to the close event.
SpawnFailsKeepingEntry(i) ==
  /\ procs[i].state = "live" /\ procs[i].held /\ ~ procs[i].built
  /\ procs' = [procs EXCEPT ![i].state = "dying", ![i].held = FALSE, ![i].answer = "failed"]
  /\ UNCHANGED <<table, cache, sources, binary>>

\* The error event: cargo could not be started.  A close event follows.
SpawnFails(i) ==
  LET w == procs[i].window
  IN  /\ procs[i].state = "live" /\ procs[i].held /\ ~ procs[i].built
      /\ procs' = [procs EXCEPT ![i].state = "dying", ![i].held = FALSE, ![i].answer = "failed"]
      /\ table' = [table EXCEPT ![w] = 0]
      /\ UNCHANGED <<cache, sources, binary>>

ProcessStep(i) ==
  \/ Compile(i) \/ ChildEnds(i) \/ FinishedOutput(i) \/ SpawnFails(i)
  \/ \E ok \in BOOLEAN : Close(i, ok)

\* The user edits the sources, or removes the target directory.
Workspace(w) ==
  /\ \/ \E v \in Versions \ {sources[w]} : sources' = [sources EXCEPT ![w] = v] /\ binary' = binary
     \/ binary' = [binary EXCEPT ![w] = None] /\ sources' = sources
  /\ UNCHANGED <<procs, table, cache>>

-----------------------------------------------------------------------------
(* Properties *)

\* A window's entry is always the last process spawned for it, and one that
\* was neither killed nor closed: a kill never goes to a process that is
\* gone, although late close events clear entries that are not theirs.
TrackedIsNewest ==
  \A w \in Windows : table[w] # 0 =>
    /\ table[w] \in DOMAIN procs
    /\ procs[table[w]].window = w /\ procs[table[w]].state = "live"
    /\ \A j \in DOMAIN procs : procs[j].window = w => j <= table[w]

\* cargoIpc.ts:258 and :374, before each spawn: "Stop any existing process
\* for this window".  A window never has two processes that nobody stopped.
OneLiveProcess ==
  \A i, j \in DOMAIN procs :
    procs[i].window = procs[j].window /\ procs[i].state = "live" /\ procs[j].state = "live" => i = j

\* cargoIpc.ts:148, before the executable of the last build is started:
\* "No changes detected, skipping rebuild".  It was built from the sources.
CachedRunIsCurrent ==
  [][\A w \in Windows : RunCached(w) => binary[w] = sources[w]]_cargoVars
=============================================================================
