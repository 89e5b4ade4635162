---------------------------- MODULE MCGameRunner ----------------------------
(***************************************************************************)
(* Small instances of GameRunner: at most MaxCalls presses of F5 and F6    *)
(* and MaxReloads reloads of the workbench.                                *)
(***************************************************************************)
EXTENDS GameRunner

CONSTANTS MaxCalls, MaxReloads

VARIABLE reloads

mcvars == <<vars, reloads>>

MCInit == Init /\ reloads = 0

MCNext ==
  \/ /\ Len(calls) < MaxCalls
     /\ \E w \in Windows : BuildAndRun(w) \/ BuildProject(w)
     /\ reloads' = reloads
  \/ /\ reloads < MaxReloads
     /\ \E w \in Windows : ReloadWorkbench(w)
     /\ reloads' = reloads + 1
  \/ /\ \E w \in Windows : CloseGameWindow(w) \/ OtherTransition(w)
     /\ reloads' = reloads
  \/ Resume /\ reloads' = reloads
  \/ Main /\ reloads' = reloads
  \/ Outside /\ reloads' = reloads

MCSpec == MCInit /\ [][MCNext]_mcvars

\* The renderer and the main process handle what has arrived, a preflight
\* ends, cargo build ends, and a shell whose children have ended closes.  A
\* game may run for ever, also one whose shell was killed.
MCFairSpec ==
  /\ MCSpec
  /\ \A c \in 1 .. MaxCalls :
       /\ WF_mcvars(c \in DOMAIN calls /\ (PreflightPasses(c) \/ PreflightFails(c)) /\ reloads' = reloads)
       /\ WF_mcvars(c \in DOMAIN calls /\ AnswerArrives(c) /\ reloads' = reloads)
  /\ \A w \in Windows : WF_mcvars(HandleMessage(w) /\ reloads' = reloads)
  /\ \A i \in 1 .. MaxCalls :
       /\ WF_mcvars(/\ i \in DOMAIN procs /\ procs[i].kind = "build" /\ ChildEnds(i)
                    /\ UNCHANGED <<runnerVars, reloads>>)
       /\ WF_mcvars(/\ i \in DOMAIN procs /\ \E ok \in BOOLEAN : Close(i, ok)
                    /\ UNCHANGED <<runnerVars, reloads>>)

\* Every press of F6 ends, and every press of F5 ends after its cargo and its
\* game have: no order of kills, late close events, failed starts and reloads
\* leaves a call waiting for nothing.
CallsEnd ==
  \A c \in 1 .. MaxCalls :
    /\ c \in DOMAIN calls
    /\ \/ calls[c].kind = "build"
       \/ calls[c].pc = "waiting" /\ ~ procs[calls[c].proc].held
    ~> c \in DOMAIN calls /\ calls[c].pc \in {"done", "lost"}
=============================================================================
