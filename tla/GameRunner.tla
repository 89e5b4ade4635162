------------------------------ MODULE GameRunner ------------------------------
(***************************************************************************)
(* Build and run from the workbench (voidGameRunner.contribution.ts, over  *)
(* cargoService.ts and voidGameWindow.ts), composed with the main process  *)
(* of CargoIpc.  Each press of F5 or F6 is a call that goes through a      *)
(* preflight and a request to the main process, and resumes with its       *)
(* answer; several can be in flight, and what a call finds when it resumes *)
(* may belong to a later one.                                              *)
(*                                                                         *)
(* A workbench window has one engine state (voidRuntimeService.ts), which  *)
(* the runner, the scene editor and the chat all move.                     *)
(***************************************************************************)
EXTENDS CargoIpc

VARIABLES
  isRunning,   \* the guard of F5
  gameWindow,  \* the build window is shown
  status,      \* status of the engine state
  calls,       \* every call so far, by index
  wire         \* per window: calls on their way to the main process, 0 for a stop

runnerVars == <<isRunning, gameWindow, status, calls, wire>>
vars == <<procs, table, cache, sources, binary, isRunning, gameWindow, status, calls, wire>>

\* lost: the renderer that made the call was unloaded.
Call ==
  [window : Windows, kind : {"run", "build"}, proc : 0 .. Len(procs),
   pc : {"preflight", "requested", "waiting", "done", "lost"}]

Statuses == {"cold", "loading", "ready", "running", "failed"}

TypeOK ==
  /\ CargoTypeOK
  /\ isRunning \in [Windows -> BOOLEAN]
  /\ gameWindow \in [Windows -> BOOLEAN]
  /\ status \in [Windows -> Statuses]
  /\ calls \in Seq(Call)
  /\ wire \in [Windows -> Seq(0 .. Len(calls))]

Init ==
  /\ CargoInit
  /\ isRunning = [w \in Windows |-> FALSE]
  /\ gameWindow = [w \in Windows |-> FALSE]
  /\ status = [w \in Windows |-> "cold"]
  /\ calls = <<>>
  /\ wire = [w \in Windows |-> <<>>]

-----------------------------------------------------------------------------
(* The user *)

NewCall(w, kind) == Append(calls, [window |-> w, kind |-> kind, proc |-> 0, pc |-> "preflight"])

BuildAndRun(w) ==
  /\ ~ isRunning[w]
  /\ isRunning' = [isRunning EXCEPT ![w] = TRUE]
  /\ status' = [status EXCEPT ![w] = "ready"]
  /\ calls' = NewCall(w, "run")
  /\ UNCHANGED <<cargoVars, gameWindow, wire>>

\* Also what startWatch comes to after a preflight of its own.
BuildProject(w) ==
  /\ status' = [status EXCEPT ![w] = "loading"]
  /\ calls' = NewCall(w, "build")
  /\ UNCHANGED <<cargoVars, isRunning, gameWindow, wire>>

\* onDidClose of the build window, fired by its dispose.  Nothing is stopped.
CloseGameWindow(w) ==
  /\ gameWindow[w]
  /\ gameWindow' = [gameWindow EXCEPT ![w] = FALSE]
  /\ isRunning' = [isRunning EXCEPT ![w] = FALSE]
  /\ status' = [status EXCEPT ![w] = "ready"]
  /\ UNCHANGED <<cargoVars, calls, wire>>

\* Faulty: the calls of the reloaded window are forgotten, their messages are not.
ReloadForgetting(w) ==
  /\ isRunning' = [isRunning EXCEPT ![w] = FALSE]
  /\ gameWindow' = [gameWindow EXCEPT ![w] = FALSE]
  /\ status' = [status EXCEPT ![w] = "cold"]
  /\ calls' = SelectSeq(calls, LAMBDA c : c.window # w)
  /\ UNCHANGED <<cargoVars, wire>>

\* The workbench is reloaded.  If its services are disposed, the cargo
\* service sends a stop (and a cleanup, which finds nothing left to do).
ReloadWorkbench(w) ==
  /\ isRunning' = [isRunning EXCEPT ![w] = FALSE]
  /\ gameWindow' = [gameWindow EXCEPT ![w] = FALSE]
  /\ status' = [status EXCEPT ![w] = "cold"]
  /\ calls' = [c \in DOMAIN calls |->
                 IF calls[c].window = w /\ calls[c].pc # "done"
                 THEN [calls[c] EXCEPT !.pc = "lost"] ELSE calls[c]]
  /\ wire' \in {wire, [wire EXCEPT ![w] = Append(@, 0)]}
  /\ UNCHANGED cargoVars

\* The scene editor, the chat and the runtime contribution announce that a
\* folder was opened or a scene loaded.
OtherTransition(w) ==
  /\ \E s \in {"loading", "ready"} : status' = [status EXCEPT ![w] = s]
  /\ UNCHANGED <<cargoVars, isRunning, gameWindow, calls, wire>>

-----------------------------------------------------------------------------
(* The continuations of a call *)

\* A run shows the build window, unless one is left from a failed run.
PreflightPasses(c) ==
  LET w == calls[c].window
  IN  /\ calls[c].pc = "preflight"
      /\ calls' = [calls EXCEPT ![c].pc = "requested"]
      /\ wire' = [wire EXCEPT ![w] = Append(@, c)]
      /\ IF calls[c].kind = "run"
         THEN /\ gameWindow' = [gameWindow EXCEPT ![w] = TRUE]
              /\ status' = [status EXCEPT ![w] = "running"]
         ELSE UNCHANGED <<gameWindow, status>>
      /\ UNCHANGED <<cargoVars, isRunning>>

\* Faulty: the failed preflight of a run leaves the guard set.
FailKeepingGuard(c) ==
  /\ status' = [status EXCEPT ![calls[c].window] = "failed"]
  /\ calls' = [calls EXCEPT ![c].pc = "done"]
  /\ UNCHANGED <<cargoVars, isRunning, gameWindow, wire>>

\* transition fail, and the guard is released if the call is a run; the
\* build window stays and shows the error.
Fail(c) ==
  LET w == calls[c].window
  IN  /\ status' = [status EXCEPT ![w] = "failed"]
      /\ isRunning' = [isRunning EXCEPT ![w] = @ /\ calls[c].kind # "run"]
      /\ calls' = [calls EXCEPT ![c].pc = "done"]
      /\ UNCHANGED <<cargoVars, gameWindow, wire>>

PreflightFails(c) == calls[c].pc = "preflight" /\ Fail(c)

Answer(c) == IF calls[c].pc = "waiting" THEN procs[calls[c].proc].answer ELSE "none"

\* Faulty: the build window goes without its onDidClose.
SucceedQuietly(c) ==
  LET w == calls[c].window
  IN  /\ calls' = [calls EXCEPT ![c].pc = "done"]
      /\ IF calls[c].kind = "run"
         THEN /\ gameWindow' = [gameWindow EXCEPT ![w] = FALSE]
              /\ isRunning' = [isRunning EXCEPT ![w] = FALSE]
              /\ status' = status
         ELSE /\ status' = [status EXCEPT ![w] = "ready"]
              /\ UNCHANGED <<isRunning, gameWindow>>
      /\ UNCHANGED <<cargoVars, wire>>

\* A run disposes the build window that is there, whichever run it was
\* opened for; its onDidClose moves the engine to ready.
Succeed(c) ==
  LET w == calls[c].window
  IN  /\ calls' = [calls EXCEPT ![c].pc = "done"]
      /\ IF calls[c].kind = "run"
         THEN /\ gameWindow' = [gameWindow EXCEPT ![w] = FALSE]
              /\ isRunning' = [isRunning EXCEPT ![w] = FALSE]
              /\ status' = [status EXCEPT ![w] = IF gameWindow[w] THEN "ready" ELSE @]
         ELSE /\ status' = [status EXCEPT ![w] = "ready"]
              /\ UNCHANGED <<isRunning, gameWindow>>
      /\ UNCHANGED <<cargoVars, wire>>

AnswerArrives(c) == (Answer(c) = "ok" /\ Succeed(c)) \/ (Answer(c) = "failed" /\ Fail(c))

-----------------------------------------------------------------------------
(* The main process takes the next message of a window *)

\* Faulty: the process is taken for that of the latest call.
HandleForLatest(w) ==
  /\ wire[w] # <<>>
  /\ wire' = [wire EXCEPT ![w] = Tail(@)]
  /\ LET c == Head(wire[w]) IN
     IF c = 0
     THEN Stop(w) /\ calls' = calls
     ELSE /\ IF calls[c].kind = "run" THEN RunCached(w) \/ RunCargo(w) ELSE BuildCargo(w)
          /\ calls' = [calls EXCEPT ![Len(calls)].proc = Len(procs'), ![Len(calls)].pc = "waiting"]
  /\ UNCHANGED <<isRunning, gameWindow, status>>

HandleMessage(w) ==
  /\ wire[w] # <<>>
  /\ wire' = [wire EXCEPT ![w] = Tail(@)]
  /\ LET c == Head(wire[w]) IN
     IF c = 0
     THEN Stop(w) /\ calls' = calls
     ELSE /\ IF calls[c].kind = "run" THEN RunCached(w) \/ RunCargo(w) ELSE BuildCargo(w)
          /\ calls' = [calls EXCEPT ![c].proc = Len(procs'),
                                    ![c].pc = IF @ = "lost" THEN @ ELSE "waiting"]
  /\ UNCHANGED <<isRunning, gameWindow, status>>

-----------------------------------------------------------------------------
User == \E w \in Windows :
  BuildAndRun(w) \/ BuildProject(w) \/ CloseGameWindow(w) \/ ReloadWorkbench(w) \/ OtherTransition(w)

Resume == \E c \in DOMAIN calls : PreflightPasses(c) \/ PreflightFails(c) \/ AnswerArrives(c)

Main == \E w \in Windows : HandleMessage(w)

Outside ==
  /\ (\E i \in DOMAIN procs : ProcessStep(i)) \/ (\E w \in Windows : Workspace(w))
  /\ UNCHANGED runnerVars

Next == User \/ Resume \/ Main \/ Outside

Spec == Init /\ [][Next]_vars

-----------------------------------------------------------------------------
(* Properties *)

InFlight(w, c) ==
  calls[c].window = w /\ calls[c].kind = "run" /\ calls[c].pc \in {"preflight", "requested", "waiting"}

\* While F5 is refused, a run is in flight that will release it: no closed
\* window, reload, failed preflight or overlapping build leaves the command
\* saying "Already running" for good.
RefusalHasRun == \A w \in Windows : isRunning[w] => \E c \in DOMAIN calls : InFlight(w, c)

\* The engine is said to run only while the build window is shown and a run
\* past its preflight is in flight, though answers of older runs, builds and
\* other parts of the workbench move the same state.
RunningIsShown ==
  \A w \in Windows : status[w] = "running" =>
    gameWindow[w] /\ \E c \in DOMAIN calls : InFlight(w, c) /\ calls[c].pc # "preflight"

WaitingIsServed ==
  \A c \in DOMAIN calls : calls[c].pc = "waiting" =>
    /\ calls[c].proc \in DOMAIN procs
    /\ procs[calls[c].proc].window = calls[c].window
    /\ procs[calls[c].proc].kind = "build" <=> calls[c].kind = "build"

ProcessIsOwn ==
  \A c, d \in DOMAIN calls : calls[c].proc = calls[d].proc /\ calls[c].proc # 0 => c = d

RequestedIsSent ==
  \A c \in DOMAIN calls : calls[c].pc = "requested" =>
    \E k \in DOMAIN wire[calls[c].window] : wire[calls[c].window][k] = c

\* A call that waits for an answer has a process of its own, spawned for its
\* window and for its kind, and a call on its way is on the wire: no answer
\* goes to another call, however F5 and F6 overlap.
CallsHaveOneProcess == WaitingIsServed /\ ProcessIsOwn /\ RequestedIsSent
=============================================================================
