------------------------------ MODULE MCRunUndo ------------------------------
EXTENDS RunUndo

CONSTANTS present, missing, MaxRuns, MaxSteps, MaxPaths

VARIABLES steps, announced

mcvars == <<vars, steps, announced>>

MCCalls == {<<present>>, <<missing>>, <<present, missing>>}

\* Of some bytes only a part is text.
MCDecoded == [c \in Contents |-> IF c = "bytes" THEN "text" ELSE c]

\* What is written: the text of the bytes that were there, in both files, or
\* the file is deleted.
Written == {"text", Absent}

\* One file is there and one is not.
MCInit ==
  /\ Init /\ file = (present :> "bytes" @@ missing :> Absent)
  /\ steps = 0 /\ announced = 0

\* What goes wrong counts as a step too.
Fault ==
  \/ \E r \in DOMAIN agents : AgentEnds(r, FALSE)
  \/ \E i \in DOMAIN captures : CaptureFails(i)
  \/ \E i \in DOMAIN summaries :
       LET there == AsText(file[summaries[i].path]) IN there # Absent /\ SummaryReads(i, Absent)
  \/ \E i \in DOMAIN cards : \E p \in cards[i].left : UndoFails(i, p)

\* Messages that can start a run, and refused ones during the first.
MCUser ==
  \/ Len(runs) + sending < MaxRuns /\ SendMessage
  \/ OpenSession(<<<<present>>, <<missing>>>>, TRUE)
  \/ Reload(<<>>, FALSE)
  \/ WriteElsewhere(present, "text")
  \/ \E i \in DOMAIN cards : PressUndo(i)

MCNext ==
  \/ steps < MaxSteps /\ MCUser /\ steps' = steps + 1 /\ announced' = announced
  \/ /\ steps' = steps
     /\ \E r \in DOMAIN agents, paths \in Calls :
          announced' = announced + Len(paths) /\ announced' <= MaxPaths /\ Announce(r, paths)
  \/ /\ \/ \E r \in DOMAIN agents :
             (\E c \in Written : CarryOut(r, c)) \/ (\E well \in BOOLEAN : AgentEnds(r, well))
        \/ Pane
     /\ Len(runs') <= MaxRuns
     /\ steps' = IF Fault THEN steps + 1 ELSE steps
     /\ steps' <= MaxSteps
     /\ announced' = announced

\* Nothing is left to see when every run was disturbed and none can start.
Alive ==
  \/ \E r \in DOMAIN runs : runs[r].spoilt = "no"
  \/ Len(runs) < MaxRuns /\ (sending > 0 \/ steps < MaxSteps)

MCSpec == MCInit /\ [][MCNext]_mcvars
=============================================================================
