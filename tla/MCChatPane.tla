------------------------------ MODULE MCChatPane ------------------------------
(***************************************************************************)
(* Small instances of ChatPane: at most MaxSteps things the user does, of  *)
(* which MaxAsks are messages, and MaxEmits events of the agents.          *)
(***************************************************************************)
EXTENDS ChatPane

CONSTANTS MaxSteps, MaxAsks, MaxEmits

VARIABLES steps, emits

mcvars == <<vars, steps, emits>>

MCInit == Init /\ steps = 0 /\ emits = 0

MCNext ==
  \/ steps < MaxSteps /\ User /\ Len(asks') <= MaxAsks /\ steps' = steps + 1 /\ UNCHANGED emits
  \/ Pane /\ UNCHANGED <<steps, emits>>
  \/ /\ emits < MaxEmits /\ emits' = emits + 1
     /\ \E a \in DOMAIN asks : \E kind \in Events : Emit(a, kind)
     /\ UNCHANGED steps
  \/ AgentEnds /\ UNCHANGED <<steps, emits>>

MCSpec == MCInit /\ [][MCNext]_mcvars

\* What has arrived is handled, files can be read, and the process of an
\* agent ends: as long as one of these can happen, one of them does.
MCFairSpec ==
  /\ MCSpec
  /\ WF_mcvars((Pane \/ AgentEnds) /\ UNCHANGED <<steps, emits>>)

\* Every message the user sends is answered, refused, or fails, and so the
\* guard is released: no order of retries, refusals, switches and reloads
\* leaves the chat unusable.
AsksEnd ==
  \A a \in 1 .. MaxAsks :
    a \in DOMAIN asks /\ asks[a].pc \in {"reading", "sent"}
      ~> a \in DOMAIN asks /\ asks[a].pc \notin {"reading", "sent"}
=============================================================================
