-------------------------- MODULE GameRunner_proofs --------------------------
(***************************************************************************)
(* The invariants of GameRunner for any windows, any versions and any      *)
(* number of calls and processes.  First the main process on its own: how  *)
(* each of its handlers changes the list of processes and the table; then  *)
(* the renderer's steps, each of which leaves the main process alone, or   *)
(* is a message the main process handles.                                  *)
(***************************************************************************)
EXTENDS GameRunner, TLAPS

ProcSteps == \E i \in DOMAIN procs : ProcessStep(i)

Handlers == \E w \in Windows : RunCached(w) \/ RunCargo(w) \/ BuildCargo(w) \/ Stop(w)

CargoStep == ProcSteps \/ Handlers \/ (\E w \in Windows : Workspace(w))

\* Killing a window's process changes the state of that process only.
LEMMA KillFacts ==
  ASSUME CargoTypeOK, NEW w \in Windows, NEW killed, killed = KillTracked(w)
  PROVE  /\ killed \in Seq(Process) /\ Len(killed) = Len(procs)
         /\ \A i \in DOMAIN procs :
              /\ killed[i].window = procs[i].window /\ killed[i].kind = procs[i].kind
              /\ i # table[w] => killed[i] = procs[i]
              /\ killed[i].state = "closed" => procs[i].state = "closed"
<1>1. CASE table[w] = 0
  BY <1>1 DEF CargoTypeOK, KillTracked
<1>2. CASE table[w] # 0
  <2>1. table[w] \in 1 .. Len(procs) /\ DOMAIN procs = 1 .. Len(procs) /\ Len(procs) \in Nat
    BY <1>2 DEF CargoTypeOK
  <2>2. killed = [procs EXCEPT ![table[w]].state = "dying"]
    BY <1>2 DEF KillTracked
  <2>3. procs[table[w]] \in Process
    BY <2>1 DEF CargoTypeOK
  <2>4. [procs[table[w]] EXCEPT !.state = "dying"] \in Process
    BY <2>3 DEF Process
  <2>5. killed \in Seq(Process) /\ Len(killed) = Len(procs)
    BY <2>1, <2>2, <2>4 DEF CargoTypeOK
  <2>6. \A i \in DOMAIN procs : i # table[w] => killed[i] = procs[i]
    BY <2>1, <2>2
  <2>7. killed[table[w]] = [procs[table[w]] EXCEPT !.state = "dying"]
    BY <2>1, <2>2
  <2>8. QED
    BY <2>3, <2>5, <2>6, <2>7 DEF Process
<1>3. QED
  BY <1>1, <1>2

\* The list of processes only grows, and a process keeps its window and kind.
ProcsKept ==
  /\ Len(procs') \in Nat /\ Len(procs) \in Nat /\ Len(procs) <= Len(procs')
  /\ DOMAIN procs = 1 .. Len(procs) /\ DOMAIN procs' = 1 .. Len(procs')
  /\ \A i \in DOMAIN procs :
       procs'[i].window = procs[i].window /\ procs'[i].kind = procs[i].kind

\* A new process is put behind all others and becomes the window's entry.
LEMMA SpawnFacts ==
  ASSUME CargoTypeOK, NEW w \in Windows, NEW kind \in {"run", "build", "game"},
         NEW before, before \in {procs, KillTracked(w)}, Spawn(w, kind, before)
  PROVE  /\ CargoTypeOK' /\ ProcsKept
         /\ Len(procs') = Len(procs) + 1
         /\ table' = [table EXCEPT ![w] = Len(procs')]
         /\ \A i \in DOMAIN procs : procs'[i] = before[i]
         /\ procs'[Len(procs')].window = w /\ procs'[Len(procs')].kind = kind
         /\ procs'[Len(procs')].state = "live"
<1>1. before \in Seq(Process) /\ Len(before) = Len(procs) /\ Len(procs) \in Nat
      /\ DOMAIN procs = 1 .. Len(procs)
      /\ \A i \in DOMAIN procs : before[i].window = procs[i].window /\ before[i].kind = procs[i].kind
  BY KillFacts DEF CargoTypeOK
<1> DEFINE p == [window |-> w, kind |-> kind, built |-> kind = "game", held |-> TRUE,
                 state |-> "live", answer |-> IF kind = "game" THEN "ok" ELSE "none"]
<1>2. p \in Process /\ p.window = w /\ p.kind = kind /\ p.state = "live"
  BY DEF Process
<1>3. procs' = Append(before, p) /\ table' = [table EXCEPT ![w] = Len(before) + 1]
      /\ UNCHANGED <<cache, sources, binary>>
  BY DEF Spawn
<1> HIDE DEF p
<1>4. /\ procs' \in Seq(Process) /\ Len(procs') = Len(procs) + 1
      /\ DOMAIN procs' = 1 .. Len(procs')
      /\ \A i \in 1 .. Len(procs) : procs'[i] = before[i]
      /\ procs'[Len(procs) + 1] = p
  BY <1>1, <1>2, <1>3
<1>5. table' \in [Windows -> 0 .. Len(procs')]
  BY <1>1, <1>3, <1>4 DEF CargoTypeOK
<1>6. CargoTypeOK'
  BY <1>3, <1>4, <1>5 DEF CargoTypeOK
<1>7. ProcsKept
  BY <1>1, <1>4 DEF ProcsKept
<1>8. QED
  BY <1>1, <1>2, <1>3, <1>4, <1>6, <1>7

\* A stop kills the window's entry and clears it.
LEMMA StopFacts ==
  ASSUME CargoTypeOK, NEW w \in Windows, Stop(w)
  PROVE  /\ CargoTypeOK' /\ ProcsKept
         /\ Len(procs') = Len(procs)
         /\ procs' = KillTracked(w)
         /\ table' = [table EXCEPT ![w] = 0]
<1>1. /\ procs' \in Seq(Process) /\ Len(procs') = Len(procs)
      /\ \A i \in DOMAIN procs : procs'[i].window = procs[i].window /\ procs'[i].kind = procs[i].kind
  BY KillFacts DEF Stop
<1>2. Len(procs) \in Nat /\ DOMAIN procs = 1 .. Len(procs) /\ DOMAIN procs' = 1 .. Len(procs')
  BY <1>1 DEF CargoTypeOK
<1>3. table' \in [Windows -> 0 .. Len(procs')]
  BY <1>1, <1>2 DEF CargoTypeOK, Stop
<1>4. CargoTypeOK'
  BY <1>1, <1>3 DEF CargoTypeOK, Stop
<1>5. QED
  BY <1>1, <1>2, <1>4 DEF Stop, ProcsKept

\* What happens to a process changes that process, and the entry of its
\* window is left alone or cleared.
LEMMA ProcessFacts ==
  ASSUME CargoTypeOK, NEW i \in DOMAIN procs, ProcessStep(i)
  PROVE  /\ CargoTypeOK' /\ ProcsKept
         /\ Len(procs') = Len(procs)
         /\ \A j \in DOMAIN procs : j # i => procs'[j] = procs[j]
         /\ \/ table' = table /\ procs'[i].state = procs[i].state
            \/ table' = [table EXCEPT ![procs[i].window] = 0]
<1>1. /\ Len(procs) \in Nat /\ DOMAIN procs = 1 .. Len(procs)
      /\ procs[i] \in Process /\ procs[i].window \in Windows
  <2>1. Len(procs) \in Nat /\ DOMAIN procs = 1 .. Len(procs) /\ procs[i] \in Process
    BY DEF CargoTypeOK
  <2>2. QED
    BY <2>1 DEF Process
<1> DEFINE Changed(p) ==
      /\ p \in Process /\ p.window = procs[i].window /\ p.kind = procs[i].kind
      /\ procs' = [procs EXCEPT ![i] = p]
<1>2. ASSUME NEW p, Changed(p)
      PROVE  /\ procs' \in Seq(Process) /\ Len(procs') = Len(procs) /\ ProcsKept
             /\ procs'[i] = p /\ \A j \in DOMAIN procs : j # i => procs'[j] = procs[j]
  <2>1. /\ procs' \in Seq(Process) /\ Len(procs') = Len(procs) /\ DOMAIN procs' = 1 .. Len(procs')
        /\ procs'[i] = p /\ \A j \in DOMAIN procs : j # i => procs'[j] = procs[j]
    BY <1>1, <1>2 DEF CargoTypeOK
  <2>2. QED
    BY <1>1, <1>2, <2>1 DEF ProcsKept
<1>3. CASE Compile(i)
  <2>1. Changed([procs[i] EXCEPT !.built = TRUE])
    BY <1>1, <1>3 DEF Compile, Process
  <2>2. binary' \in [Windows -> Versions \cup {None}]
    BY <1>1, <1>3 DEF Compile, CargoTypeOK
  <2>3. CargoTypeOK'
    BY <1>2, <1>3, <2>1, <2>2 DEF Compile, CargoTypeOK
  <2>4. procs'[i] = [procs[i] EXCEPT !.built = TRUE]
    BY <1>2, <2>1
  <2>5. QED
    BY <1>1, <1>2, <1>3, <2>1, <2>3, <2>4 DEF Compile, Process
<1>4. CASE FinishedOutput(i)
  <2>1. CargoTypeOK'
    BY <1>1, <1>4 DEF FinishedOutput, CargoTypeOK
  <2>2. QED
    BY <1>1, <1>4, <2>1 DEF FinishedOutput, ProcsKept
<1>5. CASE ChildEnds(i)
  <2>1. Changed([procs[i] EXCEPT !.held = FALSE])
    BY <1>1, <1>5 DEF ChildEnds, Process
  <2>2. CargoTypeOK'
    BY <1>2, <1>5, <2>1 DEF ChildEnds, CargoTypeOK
  <2>3. procs'[i] = [procs[i] EXCEPT !.held = FALSE]
    BY <1>2, <2>1
  <2>4. QED
    BY <1>1, <1>2, <1>5, <2>1, <2>2, <2>3 DEF ChildEnds, Process
<1> DEFINE Ended(p) ==
      /\ Changed(p)
      /\ table' = [table EXCEPT ![procs[i].window] = 0]
      /\ UNCHANGED <<cache, sources, binary>>
<1>6. ASSUME NEW p, Ended(p)
      PROVE  CargoTypeOK'
  <2>1. table' \in [Windows -> 0 .. Len(procs')]
    BY <1>1, <1>2, <1>6 DEF CargoTypeOK
  <2>2. QED
    BY <1>2, <1>6, <2>1 DEF CargoTypeOK
<1>7. ASSUME NEW ok \in BOOLEAN, Close(i, ok)
      PROVE  Ended([procs[i] EXCEPT !.state = "closed", !.answer = Answered(procs[i], ok)])
  <2>1. Answered(procs[i], ok) \in {"ok", "failed"}
    BY <1>1 DEF Answered, Process
  <2>2. [procs[i] EXCEPT !.state = "closed", !.answer = Answered(procs[i], ok)] \in Process
    BY <1>1, <2>1 DEF Process
  <2>3. QED
    BY <1>1, <1>7, <2>1, <2>2 DEF Close, Process
<1>8. CASE SpawnFails(i)
  <2>1. [procs[i] EXCEPT !.state = "dying", !.held = FALSE, !.answer = "failed"] \in Process
    BY <1>1 DEF Process
  <2>2. Ended([procs[i] EXCEPT !.state = "dying", !.held = FALSE, !.answer = "failed"])
    BY <1>1, <1>8, <2>1 DEF SpawnFails, Process
  <2>3. QED
    BY <1>2, <1>6, <2>2
<1>9. CASE \E ok \in BOOLEAN : Close(i, ok)
  BY <1>2, <1>6, <1>7, <1>9
<1>10. QED
  BY <1>3, <1>4, <1>8, <1>9, <1>5 DEF ProcessStep

-----------------------------------------------------------------------------
(* The main process *)

\* Users of the workspace touch neither processes nor table.
LEMMA WorkspaceFacts ==
  ASSUME CargoTypeOK, NEW w \in Windows, Workspace(w)
  PROVE  CargoTypeOK' /\ ProcsKept /\ procs' = procs /\ table' = table
<1>1. procs' = procs /\ table' = table /\ cache' = cache
  BY DEF Workspace
<1>2. sources' \in [Windows -> Versions] /\ binary' \in [Windows -> Versions \cup {None}]
  BY DEF Workspace, CargoTypeOK
<1>3. Len(procs) \in Nat /\ DOMAIN procs = 1 .. Len(procs)
  BY DEF CargoTypeOK
<1>4. CargoTypeOK'
  BY <1>1, <1>2 DEF CargoTypeOK
<1>5. ProcsKept
  BY <1>1, <1>3 DEF ProcsKept
<1>6. QED
  BY <1>1, <1>4, <1>5

\* The request handlers are spawns, over a list in which at most the
\* window's own entry was killed.
LEMMA RequestIsSpawn ==
  ASSUME NEW w \in Windows, RunCached(w) \/ RunCargo(w) \/ BuildCargo(w)
  PROVE  \E kind \in {"run", "build", "game"}, before \in {procs, KillTracked(w)} :
           /\ Spawn(w, kind, before)
           /\ BuildCargo(w) => kind = "build"
           /\ ~ BuildCargo(w) => kind # "build"
<1>1. CASE BuildCargo(w)
  BY <1>1 DEF BuildCargo
<1>2. CASE ~ BuildCargo(w)
  BY <1>2 DEF RunCached, RunCargo
<1>3. QED
  BY <1>1, <1>2

\* Every step of the main process keeps its types and its processes.
LEMMA CargoKept ==
  ASSUME CargoTypeOK, CargoStep
  PROVE  CargoTypeOK' /\ ProcsKept
<1>1. CASE ProcSteps
  BY <1>1, ProcessFacts DEF ProcSteps
<1>2. ASSUME NEW w \in Windows, RunCached(w) \/ RunCargo(w) \/ BuildCargo(w)
      PROVE  CargoTypeOK' /\ ProcsKept
  <2>1. PICK kind \in {"run", "build", "game"}, before \in {procs, KillTracked(w)} :
          Spawn(w, kind, before)
    BY <1>2, RequestIsSpawn
  <2>2. QED
    BY <2>1, SpawnFacts
<1>3. QED
  BY <1>1, <1>2, StopFacts, WorkspaceFacts DEF CargoStep, Handlers

\* A spawn makes its process the newest of the window, and another window's
\* entry is a process of that window, which the spawn leaves alone.
LEMMA SpawnTracked ==
  ASSUME CargoTypeOK, TrackedIsNewest, NEW w \in Windows,
         NEW kind \in {"run", "build", "game"},
         NEW before \in {procs, KillTracked(w)}, Spawn(w, kind, before)
  PROVE  TrackedIsNewest'
<1>1. /\ ProcsKept /\ Len(procs') = Len(procs) + 1
      /\ table' = [table EXCEPT ![w] = Len(procs')]
      /\ \A i \in DOMAIN procs : procs'[i] = before[i]
      /\ procs'[Len(procs')].window = w /\ procs'[Len(procs')].state = "live"
  BY SpawnFacts
<1>2. DOMAIN procs = 1 .. Len(procs) /\ DOMAIN procs' = 1 .. Len(procs) + 1 /\ Len(procs) \in Nat
  BY <1>1 DEF ProcsKept
<1>3. \A i \in DOMAIN procs : i # table[w] => procs'[i] = procs[i]
  BY <1>1, KillFacts
<1> SUFFICES ASSUME NEW v \in Windows, table'[v] # 0
             PROVE  /\ table'[v] \in DOMAIN procs'
                    /\ procs'[table'[v]].window = v /\ procs'[table'[v]].state = "live"
                    /\ \A j \in DOMAIN procs' : procs'[j].window = v => j <= table'[v]
  BY DEF TrackedIsNewest
<1>4. CASE v = w
  BY <1>1, <1>2, <1>4 DEF CargoTypeOK
<1>5. CASE v # w
  <2>1. table'[v] = table[v]
    BY <1>1, <1>5 DEF CargoTypeOK
  <2>2. /\ table[v] \in DOMAIN procs /\ procs[table[v]].window = v /\ procs[table[v]].state = "live"
        /\ \A j \in DOMAIN procs : procs[j].window = v => j <= table[v]
    BY <2>1 DEF TrackedIsNewest
  <2>3. table[v] # table[w]
    BY <1>5, <2>1, <2>2 DEF TrackedIsNewest
  <2>4. procs'[table[v]] = procs[table[v]]
    BY <1>3, <2>2, <2>3
  <2>5. \A j \in DOMAIN procs' : procs'[j].window = v => j \in DOMAIN procs /\ procs[j].window = v
    BY <1>1, <1>2, <1>5 DEF ProcsKept
  <2>6. QED
    BY <1>2, <2>1, <2>2, <2>4, <2>5
<1>6. QED
  BY <1>4, <1>5

\* Clearing an entry while at most processes of that window change.
LEMMA ClearTracked ==
  ASSUME CargoTypeOK, TrackedIsNewest, NEW w \in Windows, ProcsKept, Len(procs') = Len(procs),
         table' = [table EXCEPT ![w] = 0],
         \A j \in DOMAIN procs : procs[j].window # w => procs'[j] = procs[j]
  PROVE  TrackedIsNewest'
<1> SUFFICES ASSUME NEW v \in Windows, table'[v] # 0
             PROVE  /\ table'[v] \in DOMAIN procs'
                    /\ procs'[table'[v]].window = v /\ procs'[table'[v]].state = "live"
                    /\ \A j \in DOMAIN procs' : procs'[j].window = v => j <= table'[v]
  BY DEF TrackedIsNewest
<1>1. v # w /\ table'[v] = table[v]
  BY DEF CargoTypeOK
<1>2. DOMAIN procs' = DOMAIN procs
  BY DEF ProcsKept
<1>3. /\ table[v] \in DOMAIN procs /\ procs[table[v]].window = v /\ procs[table[v]].state = "live"
      /\ \A j \in DOMAIN procs : procs[j].window = v => j <= table[v]
  BY <1>1 DEF TrackedIsNewest
<1>4. QED
  BY <1>1, <1>2, <1>3 DEF ProcsKept

\* Every step of the main process preserves TrackedIsNewest.
LEMMA TrackedStep ==
  ASSUME CargoTypeOK, TrackedIsNewest, CargoStep
  PROVE  TrackedIsNewest'
<1>1. ASSUME NEW i \in DOMAIN procs, ProcessStep(i)
      PROVE  TrackedIsNewest'
  <2>1. /\ ProcsKept /\ Len(procs') = Len(procs)
        /\ \A j \in DOMAIN procs : j # i => procs'[j] = procs[j]
        /\ \/ table' = table /\ procs'[i].state = procs[i].state
           \/ table' = [table EXCEPT ![procs[i].window] = 0]
    BY <1>1, ProcessFacts
  <2>2. procs[i] \in Process
    BY DEF CargoTypeOK
  <2>3. procs[i].window \in Windows
    BY <2>2 DEF Process
  <2>4. CASE table' = table /\ procs'[i].state = procs[i].state
    <3>1. \A j \in DOMAIN procs : procs'[j].state = procs[j].state /\ procs'[j].window = procs[j].window
      BY <2>1, <2>4 DEF ProcsKept
    <3>2. DOMAIN procs' = DOMAIN procs
      BY <2>1 DEF ProcsKept
    <3>3. QED
      BY <2>4, <3>1, <3>2 DEF TrackedIsNewest
  <2>5. CASE table' = [table EXCEPT ![procs[i].window] = 0]
    BY <2>1, <2>3, <2>5, ClearTracked
  <2>6. QED
    BY <2>1, <2>4, <2>5
<1>2. ASSUME NEW w \in Windows, RunCached(w) \/ RunCargo(w) \/ BuildCargo(w)
      PROVE  TrackedIsNewest'
  <2>1. PICK kind \in {"run", "build", "game"}, before \in {procs, KillTracked(w)} :
          Spawn(w, kind, before)
    BY <1>2, RequestIsSpawn
  <2>2. QED
    BY <2>1, SpawnTracked
<1>3. ASSUME NEW w \in Windows, Stop(w)
      PROVE  TrackedIsNewest'
  <2>1. \A j \in DOMAIN procs : procs[j].window # w => procs'[j] = procs[j]
    <3>1. \A j \in DOMAIN procs : procs[j].window # w => j # table[w]
      BY DEF TrackedIsNewest, CargoTypeOK
    <3>2. QED
      BY <1>3, <3>1, StopFacts, KillFacts
  <2>2. QED
    BY <1>3, <2>1, StopFacts, ClearTracked
<1>4. ASSUME NEW w \in Windows, Workspace(w)
      PROVE  TrackedIsNewest'
  BY <1>4, WorkspaceFacts DEF TrackedIsNewest
<1>5. QED
  BY <1>1, <1>2, <1>3, <1>4 DEF CargoStep, ProcSteps, Handlers

-----------------------------------------------------------------------------
(* The renderer *)

\* A sequence over a set is one over a larger set.
LEMMA SeqWider ==
  ASSUME NEW S, NEW T, S \subseteq T, NEW s \in Seq(S)
  PROVE  s \in Seq(T)
OBVIOUS

\* The calls keep their types, windows and kinds, and only grow.
CallsKept ==
  /\ calls' \in Seq(Call)' /\ Len(calls) \in Nat /\ Len(calls') \in Nat /\ Len(calls) <= Len(calls')
  /\ DOMAIN calls = 1 .. Len(calls) /\ DOMAIN calls' = 1 .. Len(calls')
  /\ \A c \in DOMAIN calls :
       calls'[c].window = calls[c].window /\ calls'[c].kind = calls[c].kind

\* A new call is put behind all others.
LEMMA NewCallKept ==
  ASSUME TypeOK, NEW w \in Windows, NEW kind \in {"run", "build"},
         calls' = NewCall(w, kind), procs' = procs
  PROVE  /\ CallsKept /\ Len(calls') = Len(calls) + 1
         /\ \A c \in DOMAIN calls : calls'[c] = calls[c]
         /\ calls'[Len(calls')] = [window |-> w, kind |-> kind, proc |-> 0, pc |-> "preflight"]
<1> DEFINE new == [window |-> w, kind |-> kind, proc |-> 0, pc |-> "preflight"]
<1>1. new \in Call /\ Call' = Call
  BY DEF TypeOK, CargoTypeOK, Call
<1>2. calls \in Seq(Call) /\ calls' = Append(calls, new)
  BY DEF TypeOK, NewCall
<1> HIDE DEF new
<1>3. /\ calls' \in Seq(Call) /\ Len(calls') = Len(calls) + 1 /\ Len(calls) \in Nat
      /\ DOMAIN calls = 1 .. Len(calls) /\ DOMAIN calls' = 1 .. Len(calls')
      /\ \A c \in DOMAIN calls : calls'[c] = calls[c]
      /\ calls'[Len(calls')] = new
  BY <1>1, <1>2
<1>4. QED
  BY <1>1, <1>3 DEF CallsKept, new

\* A step of one call changes its pc only.
LEMMA MovedCallKept ==
  ASSUME TypeOK, NEW c \in DOMAIN calls, NEW pc \in {"requested", "waiting", "done"},
         calls' = [calls EXCEPT ![c].pc = pc], procs' = procs
  PROVE  /\ CallsKept /\ Len(calls') = Len(calls)
         /\ \A d \in DOMAIN calls : d # c => calls'[d] = calls[d]
         /\ calls'[c] = [calls[c] EXCEPT !.pc = pc]
<1>1. calls[c] \in Call /\ Call' = Call /\ calls \in Seq(Call)
  <2>1. calls \in Seq(Call) /\ calls[c] \in Call
    BY DEF TypeOK
  <2>2. Call' = Call
    BY DEF Call
  <2>3. QED
    BY <2>1, <2>2
<1>2. [calls[c] EXCEPT !.pc = pc] \in Call
  BY <1>1 DEF Call
<1>3. /\ calls' \in Seq(Call) /\ Len(calls') = Len(calls) /\ Len(calls) \in Nat
      /\ DOMAIN calls = 1 .. Len(calls) /\ DOMAIN calls' = 1 .. Len(calls')
      /\ \A d \in DOMAIN calls : d # c => calls'[d] = calls[d]
      /\ calls'[c] = [calls[c] EXCEPT !.pc = pc]
  BY <1>1, <1>2
<1>4. calls'[c].window = calls[c].window /\ calls'[c].kind = calls[c].kind
  BY <1>1, <1>3 DEF Call
<1>5. QED
  BY <1>1, <1>3, <1>4 DEF CallsKept

\* A reload marks the calls of its window as lost, unless they are done.
LEMMA LostCallsKept ==
  ASSUME TypeOK, NEW w \in Windows, ReloadWorkbench(w)
  PROVE  /\ CallsKept /\ Len(calls') = Len(calls)
         /\ \A c \in DOMAIN calls :
              /\ calls[c].window # w => calls'[c] = calls[c]
              /\ calls'[c].proc = calls[c].proc
              /\ calls[c].window = w => calls'[c].pc \in {"done", "lost"}
              /\ calls'[c].pc \in {calls[c].pc, "lost"}
<1>1. Call' = Call /\ calls \in Seq(Call) /\ Len(calls) \in Nat /\ DOMAIN calls = 1 .. Len(calls)
  BY DEF TypeOK, Call, ReloadWorkbench, cargoVars
<1>2. ASSUME NEW c \in DOMAIN calls
      PROVE  /\ [calls[c] EXCEPT !.pc = "lost"] \in Call /\ calls[c] \in Call
             /\ [calls[c] EXCEPT !.pc = "lost"].window = calls[c].window
             /\ [calls[c] EXCEPT !.pc = "lost"].kind = calls[c].kind
             /\ [calls[c] EXCEPT !.pc = "lost"].proc = calls[c].proc
             /\ [calls[c] EXCEPT !.pc = "lost"].pc = "lost"
  <2>1. calls[c] \in Call
    BY <1>1
  <2>2. QED
    BY <2>1 DEF Call
<1>3. calls' = [c \in 1 .. Len(calls) |->
                 IF calls[c].window = w /\ calls[c].pc # "done"
                 THEN [calls[c] EXCEPT !.pc = "lost"] ELSE calls[c]]
  BY <1>1 DEF ReloadWorkbench
<1>4. calls' \in Seq(Call) /\ Len(calls') = Len(calls) /\ DOMAIN calls' = 1 .. Len(calls)
  BY <1>1, <1>2, <1>3
<1>5. QED
  BY <1>1, <1>2, <1>3, <1>4 DEF CallsKept

\* What the main process does with a message: a stop starts nothing, and any
\* other message gives its call a new process of the call's kind.
Started(w, c) ==
  /\ c \in DOMAIN calls
  /\ Len(procs') = Len(procs) + 1
  /\ procs'[Len(procs')].window = w
  /\ procs'[Len(procs')].kind = "build" <=> calls[c].kind = "build"
  /\ CallsKept /\ Len(calls') = Len(calls)
  /\ \A d \in DOMAIN calls : d # c => calls'[d] = calls[d]
  /\ calls'[c].proc = Len(procs')
  /\ calls'[c].pc = IF calls[c].pc = "lost" THEN "lost" ELSE "waiting"

\* A message leaves the wire and is a stop or is started.
LEMMA MessageFacts ==
  ASSUME TypeOK, NEW w \in Windows, HandleMessage(w)
  PROVE  /\ CargoStep /\ CargoTypeOK' /\ ProcsKept /\ CallsKept /\ Len(calls') = Len(calls)
         /\ wire[w] # <<>> /\ wire' = [wire EXCEPT ![w] = Tail(@)]
         /\ UNCHANGED <<isRunning, gameWindow, status>>
         /\ \/ Head(wire[w]) = 0 /\ calls' = calls
            \/ Started(w, Head(wire[w]))
<1>1. /\ calls \in Seq(Call) /\ Len(calls) \in Nat /\ DOMAIN calls = 1 .. Len(calls)
      /\ wire[w] \in Seq(0 .. Len(calls)) /\ CargoTypeOK
  BY DEF TypeOK
<1>2. Head(wire[w]) \in 0 .. Len(calls) /\ wire[w] # <<>>
  BY <1>1 DEF HandleMessage
<1>3. CASE Head(wire[w]) = 0
  <2>1. Stop(w) /\ calls' = calls
    BY <1>3 DEF HandleMessage
  <2>2. CargoTypeOK' /\ ProcsKept /\ Len(procs') = Len(procs)
    BY <1>1, <2>1, StopFacts
  <2>3. CallsKept
    <3>1. Call' = Call
      BY <2>2 DEF Call
    <3>2. QED
      BY <1>1, <2>1, <3>1 DEF CallsKept
  <2>4. CargoStep
    BY <2>1 DEF CargoStep, Handlers
  <2>5. QED
    BY <1>2, <1>3, <2>1, <2>2, <2>3, <2>4 DEF HandleMessage
<1>4. CASE Head(wire[w]) # 0
  <2> DEFINE c == Head(wire[w])
  <2>1. c \in DOMAIN calls /\ calls[c] \in Call
    BY <1>1, <1>2, <1>4
  <2>2. /\ IF calls[c].kind = "run" THEN RunCached(w) \/ RunCargo(w) ELSE BuildCargo(w)
        /\ calls' = [calls EXCEPT ![c].proc = Len(procs'),
                                  ![c].pc = IF @ = "lost" THEN @ ELSE "waiting"]
    BY <1>4 DEF HandleMessage
  <2> HIDE DEF c
  <2>3. PICK kind \in {"run", "build", "game"}, before \in {procs, KillTracked(w)} :
          Spawn(w, kind, before) /\ (kind = "build" <=> calls[c].kind = "build")
    <3>1. CASE calls[c].kind = "run"
      BY <2>2, <3>1 DEF RunCached, RunCargo
    <3>2. CASE calls[c].kind = "build"
      BY <2>2, <3>2 DEF BuildCargo
    <3>3. QED
      BY <2>1, <3>1, <3>2 DEF Call
  <2>4. /\ CargoTypeOK' /\ ProcsKept /\ Len(procs') = Len(procs) + 1
        /\ procs'[Len(procs')].window = w /\ procs'[Len(procs')].kind = kind
    BY <1>1, <2>3, SpawnFacts
  <2>5. Len(procs) \in Nat /\ Len(procs') = Len(procs) + 1
    BY <2>4 DEF ProcsKept
  <2> DEFINE pc == IF calls[c].pc = "lost" THEN "lost" ELSE "waiting"
             moved == [calls[c] EXCEPT !.proc = Len(procs'), !.pc = pc]
  <2>6. /\ moved \in Call' /\ moved.proc = Len(procs')
        /\ moved.window = calls[c].window /\ moved.kind = calls[c].kind
        /\ moved.pc = IF calls[c].pc = "lost" THEN "lost" ELSE "waiting"
    <3>1. DOMAIN calls[c] = {"window", "kind", "proc", "pc"}
      BY <2>1 DEF Call
    <3>2. /\ moved.proc = Len(procs') /\ moved.window = calls[c].window /\ moved.kind = calls[c].kind
          /\ moved.pc = IF calls[c].pc = "lost" THEN "lost" ELSE "waiting"
      BY <3>1
    <3>3. moved \in [window : Windows, kind : {"run", "build"}, proc : 0 .. Len(procs'),
                     pc : {"preflight", "requested", "waiting", "done", "lost"}]
      <4>1. Len(procs') \in 0 .. Len(procs') /\ pc \in {"waiting", "lost"}
        BY <2>5
      <4> HIDE DEF pc
      <4>2. QED
        BY <2>1, <4>1 DEF Call
    <3>4. QED
      BY <3>2, <3>3 DEF Call
  <2>7. calls' = [calls EXCEPT ![c] = moved]
    BY <2>1, <2>2
  <2> HIDE DEF moved
  <2>8. calls \in Seq(Call')
    <3>1. Call \subseteq Call'
      BY <2>5 DEF Call
    <3>2. QED
      BY <1>1, <3>1, SeqWider
  <2>9. /\ calls' \in Seq(Call)' /\ Len(calls') = Len(calls) /\ DOMAIN calls' = 1 .. Len(calls')
        /\ calls'[c] = moved /\ \A d \in DOMAIN calls : d # c => calls'[d] = calls[d]
    BY <2>1, <2>6, <2>7, <2>8
  <2>10. CallsKept
    BY <1>1, <2>6, <2>9 DEF CallsKept
  <2>11. Started(w, c)
    BY <2>1, <2>3, <2>4, <2>6, <2>9, <2>10 DEF Started
  <2>12. CargoStep
    BY <2>2 DEF CargoStep, Handlers
  <2>13. QED
    BY <1>2, <2>4, <2>9, <2>10, <2>11, <2>12 DEF HandleMessage, c
<1>5. QED
  BY <1>3, <1>4

\* A step that leaves calls and processes alone keeps the calls.
LEMMA SameCallsKept ==
  ASSUME TypeOK, calls' = calls, procs' = procs
  PROVE  CallsKept /\ Len(calls') = Len(calls)
<1>1. Call' = Call
  BY DEF Call
<1>2. calls \in Seq(Call) /\ Len(calls) \in Nat /\ DOMAIN calls = 1 .. Len(calls)
  BY DEF TypeOK
<1>3. QED
  BY <1>1, <1>2 DEF CallsKept

\* The wire is left alone, takes a message at the end or gives its first one.
LEMMA WireKept ==
  ASSUME TypeOK, CallsKept,
         \/ wire' = wire
         \/ \E w \in Windows, c \in 0 .. Len(calls') : wire' = [wire EXCEPT ![w] = Append(@, c)]
         \/ \E w \in Windows : wire[w] # <<>> /\ wire' = [wire EXCEPT ![w] = Tail(@)]
  PROVE  wire' \in [Windows -> Seq(0 .. Len(calls'))]
<1>1. 0 .. Len(calls) \subseteq 0 .. Len(calls')
  BY DEF CallsKept
<1>2. \A w \in Windows : wire[w] \in Seq(0 .. Len(calls'))
  BY <1>1, SeqWider DEF TypeOK
<1>3. wire \in [Windows -> Seq(0 .. Len(calls'))]
  BY <1>2 DEF TypeOK
<1>4. CASE \E w \in Windows, c \in 0 .. Len(calls') : wire' = [wire EXCEPT ![w] = Append(@, c)]
  BY <1>2, <1>3, <1>4
<1>5. CASE \E w \in Windows : wire[w] # <<>> /\ wire' = [wire EXCEPT ![w] = Tail(@)]
  BY <1>2, <1>3, <1>5
<1>6. QED
  BY <1>3, <1>4, <1>5

\* Every step keeps the calls; all but the messages and the outside leave
\* the main process alone.
LEMMA UserFacts ==
  ASSUME TypeOK, NEW w \in Windows,
         BuildAndRun(w) \/ BuildProject(w) \/ CloseGameWindow(w) \/ ReloadWorkbench(w) \/ OtherTransition(w)
  PROVE  TypeOK' /\ CallsKept /\ UNCHANGED cargoVars
<1>1. UNCHANGED cargoVars
  BY DEF BuildAndRun, BuildProject, CloseGameWindow, ReloadWorkbench, OtherTransition
<1>2. procs' = procs /\ CargoTypeOK'
  BY <1>1 DEF TypeOK, CargoTypeOK, cargoVars
<1>3. CallsKept
  <2>1. CASE BuildAndRun(w)
    BY <1>2, <2>1, NewCallKept DEF BuildAndRun
  <2>2. CASE BuildProject(w)
    BY <1>2, <2>2, NewCallKept DEF BuildProject
  <2>3. CASE ReloadWorkbench(w)
    BY <2>3, LostCallsKept
  <2>4. CASE CloseGameWindow(w) \/ OtherTransition(w)
    BY <1>2, <2>4, SameCallsKept DEF CloseGameWindow, OtherTransition
  <2>5. QED
    BY <2>1, <2>2, <2>3, <2>4
<1>4. \/ wire' = wire
      \/ \E v \in Windows, c \in 0 .. Len(calls') : wire' = [wire EXCEPT ![v] = Append(@, c)]
  <2>1. 0 \in 0 .. Len(calls')
    BY <1>3 DEF CallsKept
  <2>2. QED
    BY <2>1 DEF BuildAndRun, BuildProject, CloseGameWindow, ReloadWorkbench, OtherTransition
<1>5. wire' \in [Windows -> Seq(0 .. Len(calls'))]
  BY <1>3, <1>4, WireKept
<1>6. isRunning' \in [Windows -> BOOLEAN] /\ gameWindow' \in [Windows -> BOOLEAN]
  BY DEF TypeOK, BuildAndRun, BuildProject, CloseGameWindow, ReloadWorkbench, OtherTransition
<1>7. status' \in [Windows -> Statuses]
  BY DEF TypeOK, Statuses, BuildAndRun, BuildProject, CloseGameWindow, ReloadWorkbench, OtherTransition
<1>8. QED
  BY <1>1, <1>2, <1>3, <1>5, <1>6, <1>7 DEF TypeOK, CallsKept

\* What a continuation does to its call.
Moved(c, pc) ==
  /\ CallsKept /\ Len(calls') = Len(calls)
  /\ \A d \in DOMAIN calls : d # c => calls'[d] = calls[d]
  /\ calls'[c] = [calls[c] EXCEPT !.pc = pc]
  /\ calls[c] \in Call /\ calls[c].window \in Windows
  /\ calls'[c].pc = pc /\ calls'[c].proc = calls[c].proc

\* The continuations of a call: the request is sent, or the call is done.
LEMMA ResumeFacts ==
  ASSUME TypeOK, NEW c \in DOMAIN calls,
         PreflightPasses(c) \/ PreflightFails(c) \/ AnswerArrives(c)
  PROVE  /\ TypeOK' /\ UNCHANGED cargoVars
         /\ \/ PreflightPasses(c) /\ calls[c].pc = "preflight" /\ Moved(c, "requested")
            \/ (Fail(c) \/ Succeed(c)) /\ Moved(c, "done")
<1>1. UNCHANGED cargoVars
  BY DEF PreflightPasses, PreflightFails, AnswerArrives, Fail, Succeed
<1>2. procs' = procs /\ CargoTypeOK'
  BY <1>1 DEF TypeOK, CargoTypeOK, cargoVars
<1>3. calls[c] \in Call /\ Len(calls) \in Nat /\ DOMAIN calls = 1 .. Len(calls)
  BY DEF TypeOK
<1>4. calls[c].window \in Windows /\ calls[c].kind \in {"run", "build"}
  BY <1>3 DEF Call
<1>5. ASSUME NEW pc \in {"requested", "done"}, calls' = [calls EXCEPT ![c].pc = pc]
      PROVE  Moved(c, pc)
  <2>1. /\ CallsKept /\ Len(calls') = Len(calls)
        /\ \A d \in DOMAIN calls : d # c => calls'[d] = calls[d]
        /\ calls'[c] = [calls[c] EXCEPT !.pc = pc]
    BY <1>2, <1>5, MovedCallKept
  <2>2. calls'[c].pc = pc /\ calls'[c].proc = calls[c].proc
    BY <1>3, <2>1 DEF Call
  <2>3. QED
    BY <1>3, <1>4, <2>1, <2>2 DEF Moved
<1>6. \/ PreflightPasses(c) /\ calls[c].pc = "preflight" /\ Moved(c, "requested")
      \/ (Fail(c) \/ Succeed(c)) /\ Moved(c, "done")
  BY <1>5 DEF PreflightPasses, PreflightFails, AnswerArrives, Fail, Succeed
<1>7. CallsKept
  BY <1>6 DEF Moved
<1>8. \/ wire' = wire
      \/ \E v \in Windows, d \in 0 .. Len(calls') : wire' = [wire EXCEPT ![v] = Append(@, d)]
  <2>1. c \in 0 .. Len(calls')
    BY <1>3, <1>7 DEF CallsKept
  <2>2. QED
    BY <1>4, <2>1 DEF PreflightPasses, PreflightFails, AnswerArrives, Fail, Succeed
<1>9. wire' \in [Windows -> Seq(0 .. Len(calls'))]
  BY <1>7, <1>8, WireKept
<1>10. isRunning' \in [Windows -> BOOLEAN] /\ gameWindow' \in [Windows -> BOOLEAN]
  BY <1>4, <1>6 DEF TypeOK, PreflightPasses, Fail, Succeed
<1>11. status' \in [Windows -> Statuses]
  BY <1>4, <1>6 DEF TypeOK, Statuses, PreflightPasses, Fail, Succeed
<1>12. QED
  BY <1>1, <1>2, <1>6, <1>7, <1>9, <1>10, <1>11 DEF TypeOK, CallsKept

\* A process or the workspace moves, the renderer does not.
LEMMA OutsideFacts ==
  ASSUME TypeOK, Outside
  PROVE  /\ TypeOK' /\ CallsKept /\ ProcsKept /\ CargoStep
         /\ UNCHANGED <<isRunning, gameWindow, status, calls, wire>>
<1>1. UNCHANGED <<isRunning, gameWindow, status, calls, wire>> /\ CargoStep
  BY DEF Outside, runnerVars, CargoStep, ProcSteps
<1>2. CargoTypeOK' /\ ProcsKept
  BY <1>1, CargoKept DEF TypeOK
<1>3. Len(procs') = Len(procs)
  <2>1. CASE \E i \in DOMAIN procs : ProcessStep(i)
    BY <2>1, ProcessFacts DEF TypeOK
  <2>2. CASE \E w \in Windows : Workspace(w)
    BY <2>2 DEF Workspace
  <2>3. QED
    BY <2>1, <2>2 DEF Outside
<1>4. Call' = Call
  BY <1>3 DEF Call
<1>5. QED
  BY <1>1, <1>2, <1>4 DEF TypeOK, CallsKept

-----------------------------------------------------------------------------
(* Type correctness, and the invariants of the main process *)

\* Nothing moves when no variable of the specification does.
LEMMA Stutter == ASSUME UNCHANGED vars
                 PROVE  UNCHANGED cargoVars /\ UNCHANGED runnerVars
BY DEF vars, cargoVars, runnerVars

\* A message keeps every type.
LEMMA MessageTypes ==
  ASSUME TypeOK, NEW w \in Windows, HandleMessage(w)
  PROVE  TypeOK'
<1>1. /\ CargoTypeOK' /\ CallsKept /\ wire[w] # <<>> /\ wire' = [wire EXCEPT ![w] = Tail(@)]
      /\ UNCHANGED <<isRunning, gameWindow, status>>
  BY MessageFacts
<1>2. wire' \in [Windows -> Seq(0 .. Len(calls'))]
  BY <1>1, WireKept
<1>3. QED
  BY <1>1, <1>2 DEF TypeOK, CallsKept

\* Every variable keeps its type: calls name processes that exist, and the
\* wires carry calls that exist.
THEOREM TypeCorrect == Spec => []TypeOK
<1>1. Init => TypeOK
  <2> SUFFICES ASSUME Init PROVE TypeOK
    OBVIOUS
  <2>1. CargoTypeOK
    BY DEF Init, CargoInit, CargoTypeOK
  <2>2. QED
    BY <2>1 DEF Init, TypeOK, Statuses
<1>2. TypeOK /\ [Next]_vars => TypeOK'
  <2> SUFFICES ASSUME TypeOK, [Next]_vars PROVE TypeOK'
    OBVIOUS
  <2>1. CASE User
    BY <2>1, UserFacts DEF User
  <2>2. CASE Resume
    BY <2>2, ResumeFacts DEF Resume
  <2>3. CASE Main
    BY <2>3, MessageTypes DEF Main
  <2>4. CASE Outside
    BY <2>4, OutsideFacts
  <2>5. CASE UNCHANGED vars
    BY <2>5 DEF vars, TypeOK, CargoTypeOK, Call
  <2>6. QED
    BY <2>1, <2>2, <2>3, <2>4, <2>5 DEF Next
<1>3. QED
  BY <1>1, <1>2, PTL DEF Spec

\* The main process sees of a step of the whole a step of its own, or none.
LEMMA MainStep ==
  ASSUME TypeOK, [Next]_vars
  PROVE  CargoStep \/ UNCHANGED cargoVars
<1>1. CASE User
  BY <1>1, UserFacts DEF User
<1>2. CASE Resume
  BY <1>2, ResumeFacts DEF Resume
<1>3. CASE Main
  BY <1>3, MessageFacts DEF Main
<1>4. CASE Outside
  BY <1>4, OutsideFacts
<1>5. QED
  BY <1>1, <1>2, <1>3, <1>4, Stutter DEF Next

\* The entry of a window is always its newest process, neither killed nor
\* closed, whatever late close events do to the table.
THEOREM TrackedIsAlwaysNewest == Spec => []TrackedIsNewest
<1>1. Init => TrackedIsNewest
  BY DEF Init, CargoInit, TrackedIsNewest
<1>2. TypeOK /\ TrackedIsNewest /\ [Next]_vars => TrackedIsNewest'
  <2> SUFFICES ASSUME TypeOK, TrackedIsNewest, [Next]_vars PROVE TrackedIsNewest'
    OBVIOUS
  <2>1. CASE CargoStep
    BY <2>1, TrackedStep DEF TypeOK
  <2>2. CASE UNCHANGED cargoVars
    BY <2>2 DEF cargoVars, TrackedIsNewest
  <2>3. QED
    BY <2>1, <2>2, MainStep
<1>3. QED
  BY <1>1, <1>2, TypeCorrect, PTL DEF Spec

-----------------------------------------------------------------------------
(* The invariants of the runner *)

\* A run in flight stays in flight while its call is left alone or goes on.
LEMMA InFlightKept ==
  ASSUME TypeOK, CallsKept, NEW w \in Windows, NEW c \in DOMAIN calls, InFlight(w, c),
         calls'[c].pc \in {"preflight", "requested", "waiting"}
  PROVE  c \in DOMAIN calls' /\ InFlight(w, c)'
BY DEF CallsKept, InFlight

\* Every step preserves RefusalHasRun.
LEMMA RefusalStep ==
  ASSUME TypeOK, RefusalHasRun, [Next]_vars
  PROVE  RefusalHasRun'
<1> SUFFICES ASSUME NEW v \in Windows, isRunning'[v]
             PROVE  \E c \in DOMAIN calls' : InFlight(v, c)'
  BY DEF RefusalHasRun
\* What is needed of a step that keeps the guard: it keeps the run going.
<1>1. ASSUME CallsKept, isRunning[v],
             \A c \in DOMAIN calls : InFlight(v, c) =>
               calls'[c].pc \in {"preflight", "requested", "waiting"}
      PROVE  \E c \in DOMAIN calls' : InFlight(v, c)'
  BY <1>1, InFlightKept DEF RefusalHasRun
<1>2. ASSUME NEW w \in Windows, BuildAndRun(w)
      PROVE  \E c \in DOMAIN calls' : InFlight(v, c)'
  <2>1. /\ CallsKept /\ Len(calls') = Len(calls) + 1
        /\ \A c \in DOMAIN calls : calls'[c] = calls[c]
        /\ calls'[Len(calls')] = [window |-> w, kind |-> "run", proc |-> 0, pc |-> "preflight"]
    BY <1>2, NewCallKept DEF BuildAndRun, cargoVars
  <2>2. CASE v = w
    <3>1. Len(calls') \in DOMAIN calls'
      BY <2>1 DEF CallsKept
    <3>2. QED
      BY <2>1, <2>2, <3>1 DEF InFlight
  <2>3. CASE v # w
    <3>1. isRunning[v]
      BY <1>2, <2>3 DEF BuildAndRun, TypeOK
    <3>2. QED
      BY <1>1, <2>1, <3>1 DEF InFlight
  <2>4. QED
    BY <2>2, <2>3
<1>3. ASSUME NEW w \in Windows, BuildProject(w)
      PROVE  \E c \in DOMAIN calls' : InFlight(v, c)'
  <2>1. CallsKept /\ \A c \in DOMAIN calls : calls'[c] = calls[c]
    BY <1>3, NewCallKept DEF BuildProject, cargoVars
  <2>2. isRunning[v]
    BY <1>3 DEF BuildProject
  <2>3. QED
    BY <1>1, <2>1, <2>2 DEF InFlight
<1>4. ASSUME NEW w \in Windows, CloseGameWindow(w) \/ OtherTransition(w)
      PROVE  \E c \in DOMAIN calls' : InFlight(v, c)'
  <2>1. calls' = calls /\ procs' = procs
    BY <1>4 DEF CloseGameWindow, OtherTransition, cargoVars
  <2>2. isRunning[v]
    BY <1>4 DEF CloseGameWindow, OtherTransition, TypeOK
  <2>3. QED
    BY <1>1, <2>1, <2>2, SameCallsKept DEF InFlight
<1>5. ASSUME NEW w \in Windows, ReloadWorkbench(w)
      PROVE  \E c \in DOMAIN calls' : InFlight(v, c)'
  <2>1. v # w /\ isRunning[v]
    BY <1>5 DEF ReloadWorkbench, TypeOK
  <2>2. CallsKept /\ \A c \in DOMAIN calls : calls[c].window # w => calls'[c] = calls[c]
    BY <1>5, LostCallsKept
  <2>3. QED
    BY <1>1, <2>1, <2>2 DEF InFlight
<1>6. ASSUME NEW c \in DOMAIN calls, PreflightPasses(c), Moved(c, "requested")
      PROVE  \E d \in DOMAIN calls' : InFlight(v, d)'
  <2>1. isRunning[v]
    BY <1>6 DEF PreflightPasses
  <2>2. QED
    BY <1>1, <1>6, <2>1 DEF InFlight, Moved
<1>7. ASSUME NEW c \in DOMAIN calls, Fail(c) \/ Succeed(c), Moved(c, "done")
      PROVE  \E d \in DOMAIN calls' : InFlight(v, d)'
  <2>1. isRunning[v] /\ ~ InFlight(v, c)
    BY <1>7 DEF Fail, Succeed, TypeOK, InFlight, Moved
  <2>2. QED
    BY <1>1, <1>7, <2>1 DEF InFlight, Moved
<1>8. ASSUME NEW w \in Windows, HandleMessage(w)
      PROVE  \E d \in DOMAIN calls' : InFlight(v, d)'
  <2>1. CallsKept /\ isRunning[v]
    BY <1>8, MessageFacts
  <2>2. \A d \in DOMAIN calls : InFlight(v, d) =>
          calls'[d].pc \in {"preflight", "requested", "waiting"}
    BY <1>8, MessageFacts DEF InFlight, Started
  <2>3. QED
    BY <1>1, <2>1, <2>2
<1>9. CASE Outside
  <2>1. CallsKept /\ isRunning[v] /\ calls' = calls
    BY <1>9, OutsideFacts
  <2>2. QED
    BY <1>1, <2>1 DEF InFlight
<1>10. CASE UNCHANGED vars
  BY <1>10 DEF vars, RefusalHasRun, InFlight
<1>11. CASE Resume
  <2>1. PICK c \in DOMAIN calls : PreflightPasses(c) \/ PreflightFails(c) \/ AnswerArrives(c)
    BY <1>11 DEF Resume
  <2>2. QED
    BY <1>6, <1>7, <2>1, ResumeFacts
<1>12. QED
  BY <1>2, <1>3, <1>4, <1>5, <1>8, <1>9, <1>10, <1>11 DEF Next, User, Main

\* F5 is refused only while a run is in flight that will release it.
THEOREM RefusalAlwaysHasRun == Spec => []RefusalHasRun
<1>1. Init => RefusalHasRun
  BY DEF Init, RefusalHasRun
<1>2. TypeOK /\ RefusalHasRun /\ [Next]_vars => RefusalHasRun'
  BY RefusalStep
<1>3. QED
  BY <1>1, <1>2, TypeCorrect, PTL DEF Spec

\* A run of w that is past its preflight.
Going(w, c) == InFlight(w, c) /\ calls[c].pc # "preflight"

\* Every step preserves RunningIsShown.
LEMMA RunningStep ==
  ASSUME TypeOK, RunningIsShown, [Next]_vars
  PROVE  RunningIsShown'
<1> SUFFICES ASSUME NEW v \in Windows, status'[v] = "running"
             PROVE  gameWindow'[v] /\ \E c \in DOMAIN calls' : Going(v, c)'
  BY DEF RunningIsShown, Going
\* What is needed of a step that leaves the engine running: it keeps the
\* build window and keeps the run going.
<1>1. ASSUME CallsKept, status[v] = "running", gameWindow[v] => gameWindow'[v],
             \A c \in DOMAIN calls : Going(v, c) =>
               calls'[c].pc \in {"requested", "waiting"}
      PROVE  gameWindow'[v] /\ \E c \in DOMAIN calls' : Going(v, c)'
  <2>1. gameWindow[v] /\ \E c \in DOMAIN calls : Going(v, c)
    BY <1>1 DEF RunningIsShown, Going
  <2>2. PICK c \in DOMAIN calls : Going(v, c)
    BY <2>1
  <2>3. c \in DOMAIN calls' /\ InFlight(v, c)'
    BY <1>1, <2>2, InFlightKept DEF Going
  <2>4. calls'[c].pc # "preflight"
    BY <1>1, <2>2
  <2>5. QED
    BY <1>1, <2>1, <2>3, <2>4 DEF Going
<1>2. ASSUME NEW w \in Windows, NEW kind \in {"run", "build"},
             BuildAndRun(w) \/ BuildProject(w), calls' = NewCall(w, kind)
      PROVE  gameWindow'[v] /\ \E c \in DOMAIN calls' : Going(v, c)'
  <2>1. CallsKept /\ \A c \in DOMAIN calls : calls'[c] = calls[c]
    BY <1>2, NewCallKept DEF BuildAndRun, BuildProject, cargoVars
  <2>2. status[v] = "running" /\ gameWindow' = gameWindow
    BY <1>2 DEF BuildAndRun, BuildProject, TypeOK
  <2>3. QED
    BY <1>1, <2>1, <2>2 DEF InFlight, Going
<1>3. ASSUME NEW w \in Windows, CloseGameWindow(w) \/ OtherTransition(w)
      PROVE  gameWindow'[v] /\ \E c \in DOMAIN calls' : Going(v, c)'
  <2>1. calls' = calls /\ procs' = procs
    BY <1>3 DEF CloseGameWindow, OtherTransition, cargoVars
  <2>2. v # w /\ status[v] = "running" /\ gameWindow'[v] = gameWindow[v]
    BY <1>3 DEF CloseGameWindow, OtherTransition, TypeOK
  <2>3. QED
    BY <1>1, <2>1, <2>2, SameCallsKept DEF InFlight, Going
<1>4. ASSUME NEW w \in Windows, ReloadWorkbench(w)
      PROVE  gameWindow'[v] /\ \E c \in DOMAIN calls' : Going(v, c)'
  <2>1. v # w /\ status[v] = "running" /\ gameWindow'[v] = gameWindow[v]
    BY <1>4 DEF ReloadWorkbench, TypeOK
  <2>2. CallsKept /\ \A c \in DOMAIN calls : calls[c].window # w => calls'[c] = calls[c]
    BY <1>4, LostCallsKept
  <2>3. QED
    BY <1>1, <2>1, <2>2 DEF InFlight, Going
<1>5. ASSUME NEW c \in DOMAIN calls, PreflightPasses(c), Moved(c, "requested")
      PROVE  gameWindow'[v] /\ \E d \in DOMAIN calls' : Going(v, d)'
  <2>1. CASE calls[c].kind = "run" /\ v = calls[c].window
    <3>1. gameWindow'[v]
      BY <1>5, <2>1 DEF PreflightPasses, TypeOK
    <3>2. c \in DOMAIN calls' /\ Going(v, c)'
      BY <1>5, <2>1 DEF Moved, Going, InFlight, CallsKept
    <3>3. QED
      BY <3>1, <3>2
  <2>2. CASE ~ (calls[c].kind = "run" /\ v = calls[c].window)
    <3>1. status[v] = "running" /\ gameWindow'[v] = gameWindow[v]
      BY <1>5, <2>2 DEF PreflightPasses, TypeOK, Moved
    <3>2. QED
      BY <1>1, <1>5, <3>1 DEF Moved, Going, InFlight, PreflightPasses
  <2>3. QED
    BY <2>1, <2>2
<1>6. ASSUME NEW c \in DOMAIN calls, Fail(c) \/ Succeed(c), Moved(c, "done")
      PROVE  gameWindow'[v] /\ \E d \in DOMAIN calls' : Going(v, d)'
  <2>1. calls[c].window # v \/ calls[c].kind # "run"
    BY <1>6 DEF Fail, Succeed, TypeOK, Moved, RunningIsShown
  <2>2. status[v] = "running" /\ gameWindow'[v] = gameWindow[v]
    BY <1>6, <2>1 DEF Fail, Succeed, TypeOK, Moved
  <2>3. \A d \in DOMAIN calls : Going(v, d) => d # c
    BY <2>1 DEF Going, InFlight
  <2>4. QED
    BY <1>1, <1>6, <2>2, <2>3 DEF Moved, Going, InFlight
<1>7. ASSUME NEW w \in Windows, HandleMessage(w)
      PROVE  gameWindow'[v] /\ \E d \in DOMAIN calls' : Going(v, d)'
  <2>1. CallsKept /\ status[v] = "running" /\ gameWindow' = gameWindow
    BY <1>7, MessageFacts
  <2>2. \A d \in DOMAIN calls : Going(v, d) => calls'[d].pc \in {"requested", "waiting"}
    BY <1>7, MessageFacts DEF Going, InFlight, Started
  <2>3. QED
    BY <1>1, <2>1, <2>2
<1>8. CASE Outside
  <2>1. CallsKept /\ status[v] = "running" /\ gameWindow' = gameWindow /\ calls' = calls
    BY <1>8, OutsideFacts
  <2>2. QED
    BY <1>1, <2>1 DEF Going, InFlight
<1>9. CASE UNCHANGED vars
  BY <1>9 DEF vars, RunningIsShown, InFlight, Going
<1>10. CASE Resume
  <2>1. PICK c \in DOMAIN calls : PreflightPasses(c) \/ PreflightFails(c) \/ AnswerArrives(c)
    BY <1>10 DEF Resume
  <2>2. QED
    BY <1>5, <1>6, <2>1, ResumeFacts
<1>11. CASE User
  BY <1>2, <1>3, <1>4, <1>11 DEF User, BuildAndRun, BuildProject
<1>12. QED
  BY <1>7, <1>8, <1>9, <1>10, <1>11 DEF Next, Main

\* The engine runs only while its build window is shown and a run goes on.
THEOREM RunningIsAlwaysShown == Spec => []RunningIsShown
<1>1. Init => RunningIsShown
  BY DEF Init, RunningIsShown
<1>2. TypeOK /\ RunningIsShown /\ [Next]_vars => RunningIsShown'
  BY RunningStep
<1>3. QED
  BY <1>1, <1>2, TypeCorrect, PTL DEF Spec

-----------------------------------------------------------------------------
(* Which answer goes to which call *)

\* The strengthening: a wire carries only calls of its own window.
WireOwn == \A w \in Windows : \A k \in DOMAIN wire[w] :
             wire[w][k] # 0 => calls[wire[w][k]].window = w

CallsInv == CallsHaveOneProcess /\ WireOwn

\* What is on a wire is a stop or a call.
LEMMA WireNames ==
  ASSUME TypeOK, NEW w \in Windows, NEW k \in DOMAIN wire[w]
  PROVE  wire[w][k] \in 0 .. Len(calls) /\ (wire[w][k] # 0 => wire[w][k] \in DOMAIN calls)
<1>1. wire[w] \in Seq(0 .. Len(calls)) /\ DOMAIN calls = 1 .. Len(calls) /\ Len(calls) \in Nat
  BY DEF TypeOK
<1>2. wire[w][k] \in 0 .. Len(calls)
  BY <1>1
<1>3. QED
  BY <1>1, <1>2

\* Every step preserves WireOwn.
LEMMA WireOwnStep ==
  ASSUME TypeOK, WireOwn, [Next]_vars
  PROVE  WireOwn'
<1> DEFINE Good(e, w) == e # 0 => calls'[e].window = w
\* A step that keeps the calls and their wire, or adds to one end what belongs there.
<1>1. ASSUME CallsKept, wire' = wire
      PROVE  WireOwn'
  BY <1>1, WireNames DEF WireOwn, CallsKept
<1>2. ASSUME CallsKept, NEW w \in Windows, NEW c \in 0 .. Len(calls'), Good(c, w),
             wire' = [wire EXCEPT ![w] = Append(@, c)]
      PROVE  WireOwn'
  <2> SUFFICES ASSUME NEW v \in Windows, NEW k \in DOMAIN wire'[v], wire'[v][k] # 0
               PROVE  calls'[wire'[v][k]].window = v
    BY DEF WireOwn
  <2>1. \/ v = w /\ wire'[v][k] = c
        \/ k \in DOMAIN wire[v] /\ wire'[v][k] = wire[v][k]
    BY <1>2 DEF TypeOK
  <2>2. CASE v = w /\ wire'[v][k] = c
    BY <1>2, <2>2
  <2>3. CASE k \in DOMAIN wire[v] /\ wire'[v][k] = wire[v][k]
    <3>1. wire[v][k] \in DOMAIN calls /\ calls[wire[v][k]].window = v
      BY <2>3, WireNames DEF WireOwn
    <3>2. QED
      BY <1>2, <2>3, <3>1 DEF CallsKept
  <2>4. QED
    BY <2>1, <2>2, <2>3
<1>3. CASE User
  <2>1. PICK w \in Windows :
          BuildAndRun(w) \/ BuildProject(w) \/ CloseGameWindow(w) \/ ReloadWorkbench(w) \/ OtherTransition(w)
    BY <1>3 DEF User
  <2>2. CallsKept
    BY <2>1, UserFacts
  <2>3. wire' = wire \/ wire' = [wire EXCEPT ![w] = Append(@, 0)]
    BY <2>1 DEF BuildAndRun, BuildProject, CloseGameWindow, ReloadWorkbench, OtherTransition
  <2>4. 0 \in 0 .. Len(calls') /\ Good(0, w)
    BY <2>2 DEF CallsKept
  <2>5. QED
    BY <1>1, <1>2, <2>2, <2>3, <2>4
<1>4. CASE Resume
  <2>1. PICK c \in DOMAIN calls : PreflightPasses(c) \/ PreflightFails(c) \/ AnswerArrives(c)
    BY <1>4 DEF Resume
  <2>2. CASE PreflightPasses(c) /\ Moved(c, "requested")
    <3>1. wire' = [wire EXCEPT ![calls[c].window] = Append(@, c)]
      BY <2>2 DEF PreflightPasses
    <3>2. CallsKept /\ calls[c].window \in Windows /\ c \in 0 .. Len(calls') /\ Good(c, calls[c].window)
      BY <2>2 DEF Moved, CallsKept
    <3>3. QED
      BY <1>2, <3>1, <3>2
  <2>3. CASE (Fail(c) \/ Succeed(c)) /\ Moved(c, "done")
    BY <1>1, <2>3 DEF Fail, Succeed, Moved
  <2>4. QED
    BY <2>1, <2>2, <2>3, ResumeFacts
<1>5. CASE Main
  <2>1. PICK w \in Windows : HandleMessage(w)
    BY <1>5 DEF Main
  <2>2. CallsKept /\ wire[w] # <<>> /\ wire' = [wire EXCEPT ![w] = Tail(@)]
    BY <2>1, MessageFacts
  <2> SUFFICES ASSUME NEW v \in Windows, NEW k \in DOMAIN wire'[v], wire'[v][k] # 0
               PROVE  calls'[wire'[v][k]].window = v
    BY DEF WireOwn
  <2>3. \E j \in DOMAIN wire[v] : wire'[v][k] = wire[v][j]
    <3>1. CASE v = w
      <4>1. wire[w] \in Seq(0 .. Len(calls)) /\ wire[w] # <<>> /\ wire'[w] = Tail(wire[w])
        BY <2>2 DEF TypeOK
      <4>2. k + 1 \in DOMAIN wire[w] /\ wire'[w][k] = wire[w][k + 1]
        BY <3>1, <4>1
      <4>3. QED
        BY <3>1, <4>2
    <3>2. CASE v # w
      BY <2>2, <3>2 DEF TypeOK
    <3>3. QED
      BY <3>1, <3>2
  <2>4. QED
    BY <2>2, <2>3, WireNames DEF WireOwn, CallsKept
<1>6. CASE Outside
  BY <1>1, <1>6, OutsideFacts
<1>7. CASE UNCHANGED vars
  BY <1>7 DEF vars, WireOwn
<1>8. QED
  BY <1>3, <1>4, <1>5, <1>6, <1>7 DEF Next

\* A step that gives no call a process keeps the processes of the calls.
LEMMA NothingStarted ==
  ASSUME TypeOK, WaitingIsServed, ProcessIsOwn, CallsKept, ProcsKept,
         \A c \in DOMAIN calls' :
           \/ c \in DOMAIN calls /\ calls'[c].proc = calls[c].proc
              /\ (calls'[c].pc = "waiting" => calls[c].pc = "waiting")
           \/ calls'[c].proc = 0 /\ calls'[c].pc = "preflight"
  PROVE  WaitingIsServed' /\ ProcessIsOwn'
<1>1. WaitingIsServed'
  BY DEF WaitingIsServed, CallsKept, ProcsKept
<1>2. ProcessIsOwn'
  BY DEF ProcessIsOwn
<1>3. QED
  BY <1>1, <1>2

\* A step that sends no call and takes no message keeps what was sent.
LEMMA NothingSent ==
  ASSUME TypeOK, RequestedIsSent, CallsKept,
         \A c \in DOMAIN calls' : calls'[c].pc = "requested" => c \in DOMAIN calls /\ calls[c].pc = "requested",
         \/ wire' = wire
         \/ \E w \in Windows, e \in 0 .. Len(calls') : wire' = [wire EXCEPT ![w] = Append(@, e)]
  PROVE  RequestedIsSent'
<1> SUFFICES ASSUME NEW c \in DOMAIN calls', calls'[c].pc = "requested"
             PROVE  \E k \in DOMAIN wire'[calls'[c].window] : wire'[calls'[c].window][k] = c
  BY DEF RequestedIsSent
<1>1. c \in DOMAIN calls /\ calls[c].pc = "requested" /\ calls'[c].window = calls[c].window
  BY DEF CallsKept
<1>2. PICK k \in DOMAIN wire[calls[c].window] : wire[calls[c].window][k] = c
  BY <1>1 DEF RequestedIsSent
<1>3. calls[c] \in Call
  BY <1>1 DEF TypeOK
<1>4. calls[c].window \in Windows
  BY <1>3 DEF Call
<1>5. CASE \E w \in Windows, e \in 0 .. Len(calls') : wire' = [wire EXCEPT ![w] = Append(@, e)]
  <2>1. PICK w \in Windows, e \in 0 .. Len(calls') : wire' = [wire EXCEPT ![w] = Append(@, e)]
    BY <1>5
  <2>2. k \in DOMAIN wire'[calls[c].window] /\ wire'[calls[c].window][k] = c
    BY <1>2, <1>4, <2>1 DEF TypeOK
  <2>3. QED
    BY <1>1, <2>2
<1>6. QED
  BY <1>1, <1>2, <1>5

\* Every step preserves the strengthened invariant.
LEMMA CallsStep ==
  ASSUME TypeOK, CallsInv, [Next]_vars
  PROVE  CallsHaveOneProcess'
<1> USE DEF CallsInv, CallsHaveOneProcess
<1>1. CASE User
  <2>1. PICK w \in Windows :
          BuildAndRun(w) \/ BuildProject(w) \/ CloseGameWindow(w) \/ ReloadWorkbench(w) \/ OtherTransition(w)
    BY <1>1 DEF User
  <2>2. CallsKept /\ procs' = procs
    BY <2>1, UserFacts DEF cargoVars
  <2>3. ProcsKept
    BY <2>2 DEF TypeOK, CargoTypeOK, ProcsKept
  <2>4. wire' = wire \/ \E v \in Windows, e \in 0 .. Len(calls') : wire' = [wire EXCEPT ![v] = Append(@, e)]
    <3>1. 0 \in 0 .. Len(calls')
      BY <2>2 DEF CallsKept
    <3>2. QED
      BY <2>1, <3>1 DEF BuildAndRun, BuildProject, CloseGameWindow, ReloadWorkbench, OtherTransition
  <2>5. \A c \in DOMAIN calls' :
          \/ c \in DOMAIN calls /\ calls'[c].proc = calls[c].proc /\ calls'[c].pc \in {calls[c].pc, "lost"}
          \/ calls'[c].proc = 0 /\ calls'[c].pc = "preflight"
    <3>1. CASE \E kind \in {"run", "build"} : calls' = NewCall(w, kind)
      <4>1. PICK kind \in {"run", "build"} : calls' = NewCall(w, kind)
        BY <3>1
      <4>2. /\ Len(calls') = Len(calls) + 1 /\ \A c \in DOMAIN calls : calls'[c] = calls[c]
            /\ calls'[Len(calls')] = [window |-> w, kind |-> kind, proc |-> 0, pc |-> "preflight"]
        BY <2>2, <4>1, NewCallKept
      <4>3. calls'[Len(calls')].proc = 0 /\ calls'[Len(calls')].pc = "preflight"
        BY <4>2
      <4>4. \A c \in DOMAIN calls' : c \in DOMAIN calls \/ c = Len(calls')
        BY <2>2, <4>2 DEF CallsKept
      <4>5. QED
        BY <4>2, <4>3, <4>4
    <3>2. CASE ReloadWorkbench(w)
      BY <2>2, <3>2, LostCallsKept DEF CallsKept
    <3>3. CASE calls' = calls
      BY <3>3
    <3>4. QED
      BY <2>1, <3>1, <3>2, <3>3 DEF BuildAndRun, BuildProject, CloseGameWindow, OtherTransition
  <2>6. QED
    BY <2>2, <2>3, <2>4, <2>5, NothingStarted, NothingSent
<1>2. ASSUME NEW c \in DOMAIN calls, PreflightPasses(c), Moved(c, "requested"), UNCHANGED cargoVars
      PROVE  CallsHaveOneProcess'
  <2>1. CallsKept /\ ProcsKept
    BY <1>2 DEF Moved, TypeOK, CargoTypeOK, ProcsKept, cargoVars
  <2>2. WaitingIsServed' /\ ProcessIsOwn'
    BY <1>2, <2>1, NothingStarted DEF Moved, CallsKept
  <2>3. wire' = [wire EXCEPT ![calls[c].window] = Append(@, c)]
    BY <1>2 DEF PreflightPasses
  <2>4. RequestedIsSent'
    <3> SUFFICES ASSUME NEW d \in DOMAIN calls', calls'[d].pc = "requested"
                 PROVE  \E k \in DOMAIN wire'[calls'[d].window] : wire'[calls'[d].window][k] = d
      BY DEF RequestedIsSent
    <3>1. d \in DOMAIN calls /\ calls'[d].window = calls[d].window
      BY <1>2 DEF Moved, CallsKept
    <3>2. CASE d = c
      <4>1. /\ Len(wire[calls[c].window]) + 1 \in DOMAIN wire'[calls[c].window]
            /\ wire'[calls[c].window][Len(wire[calls[c].window]) + 1] = c
        BY <1>2, <2>3 DEF Moved, TypeOK
      <4>2. QED
        BY <3>1, <3>2, <4>1
    <3>3. CASE d # c
      <4>1. PICK k \in DOMAIN wire[calls[d].window] : wire[calls[d].window][k] = d
        BY <1>2, <3>1, <3>3 DEF Moved, RequestedIsSent
      <4>2. calls[d] \in Call
        BY <3>1 DEF TypeOK
      <4>3. calls[d].window \in Windows
        BY <4>2 DEF Call
      <4>4. k \in DOMAIN wire'[calls[d].window] /\ wire'[calls[d].window][k] = d
        BY <1>2, <2>3, <4>1, <4>3 DEF Moved, TypeOK
      <4>5. QED
        BY <3>1, <4>4
    <3>4. QED
      BY <3>2, <3>3
  <2>5. QED
    BY <2>2, <2>4
<1>3. ASSUME NEW c \in DOMAIN calls, Fail(c) \/ Succeed(c), Moved(c, "done"), UNCHANGED cargoVars
      PROVE  CallsHaveOneProcess'
  <2>1. CallsKept /\ ProcsKept /\ wire' = wire
    BY <1>3 DEF Moved, TypeOK, CargoTypeOK, ProcsKept, cargoVars, Fail, Succeed
  <2>2. \A d \in DOMAIN calls' :
          /\ d \in DOMAIN calls /\ calls'[d].proc = calls[d].proc
          /\ calls'[d].pc \in {calls[d].pc, "done"}
    BY <1>3 DEF Moved, CallsKept
  <2>3. QED
    BY <2>1, <2>2, NothingStarted, NothingSent
<1>4. CASE Resume
  <2>1. PICK c \in DOMAIN calls : PreflightPasses(c) \/ PreflightFails(c) \/ AnswerArrives(c)
    BY <1>4 DEF Resume
  <2>2. QED
    BY <1>2, <1>3, <2>1, ResumeFacts
<1>5. ASSUME NEW w \in Windows, HandleMessage(w)
      PROVE  CallsHaveOneProcess'
  <2> DEFINE c == Head(wire[w])
  <2>1. /\ ProcsKept /\ CallsKept /\ Len(calls') = Len(calls)
        /\ wire[w] # <<>> /\ wire' = [wire EXCEPT ![w] = Tail(@)]
        /\ (c = 0 /\ calls' = calls) \/ Started(w, c)
    BY <1>5, MessageFacts
  <2>2. wire[w] \in Seq(0 .. Len(calls)) /\ c = wire[w][1] /\ 1 \in DOMAIN wire[w]
    BY <2>1 DEF TypeOK
  <2>3. c # 0 => calls[c].window = w
    BY <2>2 DEF WireOwn
  <2> HIDE DEF c
  <2>4. WaitingIsServed' /\ ProcessIsOwn'
    <3>1. CASE calls' = calls
      BY <2>1, <3>1, NothingStarted
    <3>2. CASE Started(w, c)
      <4>1. c # 0 /\ c \in DOMAIN calls /\ DOMAIN calls' = DOMAIN calls
        BY <3>2, <2>1 DEF Started, CallsKept
      <4>2. \A d \in DOMAIN calls : calls[d].proc \in 0 .. Len(procs)
        <5>1. \A d \in DOMAIN calls : calls[d] \in Call
          BY DEF TypeOK
        <5>2. QED
          BY <5>1 DEF Call
      <4>3. Len(procs') = Len(procs) + 1 /\ Len(procs) \in Nat /\ Len(procs') \in DOMAIN procs'
        BY <2>1, <3>2 DEF Started, ProcsKept
      <4>4. ProcessIsOwn'
        BY <3>2, <4>1, <4>2, <4>3 DEF ProcessIsOwn, Started
      <4>5. ASSUME NEW d \in DOMAIN calls', calls'[d].pc = "waiting"
            PROVE  /\ calls'[d].proc \in DOMAIN procs'
                   /\ procs'[calls'[d].proc].window = calls'[d].window
                   /\ procs'[calls'[d].proc].kind = "build" <=> calls'[d].kind = "build"
        <5>1. CASE d = c
          BY <2>1, <2>3, <3>2, <4>1, <4>3, <5>1 DEF Started, CallsKept
        <5>2. CASE d # c
          BY <2>1, <3>2, <4>1, <4>5, <5>2 DEF Started, WaitingIsServed, ProcsKept
        <5>3. QED
          BY <5>1, <5>2
      <4>6. QED
        BY <4>4, <4>5 DEF WaitingIsServed
    <3>3. QED
      BY <2>1, <3>1, <3>2
  <2>5. RequestedIsSent'
    <3> SUFFICES ASSUME NEW d \in DOMAIN calls', calls'[d].pc = "requested"
                 PROVE  \E k \in DOMAIN wire'[calls'[d].window] : wire'[calls'[d].window][k] = d
      BY DEF RequestedIsSent
    <3>1. d \in DOMAIN calls /\ calls[d].pc = "requested" /\ d # c /\ calls'[d].window = calls[d].window
      <4>1. d \in DOMAIN calls
        BY <2>1 DEF CallsKept
      <4>2. d # c
        BY <2>1, <4>1 DEF Started, CallsKept
      <4>3. QED
        BY <2>1, <4>1, <4>2 DEF Started, CallsKept
    <3>2. PICK k \in DOMAIN wire[calls[d].window] : wire[calls[d].window][k] = d
      BY <3>1 DEF RequestedIsSent
    <3>3. CASE calls[d].window = w
      <4>1. k # 1
        BY <2>2, <3>1, <3>2, <3>3
      <4>2. k - 1 \in DOMAIN Tail(wire[w]) /\ Tail(wire[w])[k - 1] = d
        BY <2>1, <2>2, <3>2, <3>3, <4>1
      <4>3. wire'[w] = Tail(wire[w])
        BY <2>1 DEF TypeOK
      <4>4. QED
        BY <3>1, <3>3, <4>2, <4>3
    <3>4. CASE calls[d].window # w
      BY <2>1, <3>1, <3>2, <3>4 DEF TypeOK
    <3>5. QED
      BY <3>3, <3>4
  <2>6. QED
    BY <2>4, <2>5
<1>6. CASE Outside
  <2>1. CallsKept /\ ProcsKept /\ calls' = calls /\ wire' = wire
    BY <1>6, OutsideFacts
  <2>2. QED
    BY <2>1, NothingStarted, NothingSent
<1>7. CASE UNCHANGED vars
  BY <1>7 DEF vars, WaitingIsServed, ProcessIsOwn, RequestedIsSent
<1>8. QED
  BY <1>1, <1>4, <1>5, <1>6, <1>7 DEF Next, Main

\* A waiting call has a process of its own, of its window and kind.
THEOREM CallsAlwaysHaveOneProcess == Spec => []CallsHaveOneProcess
<1>1. Init => CallsInv
  BY DEF Init, CallsInv, CallsHaveOneProcess, WaitingIsServed, ProcessIsOwn, RequestedIsSent, WireOwn
<1>2. TypeOK /\ CallsInv /\ [Next]_vars => CallsInv'
  BY CallsStep, WireOwnStep DEF CallsInv
<1>3. CallsInv => CallsHaveOneProcess
  BY DEF CallsInv
<1>4. QED
  BY <1>1, <1>2, <1>3, TypeCorrect, PTL DEF Spec
=============================================================================
