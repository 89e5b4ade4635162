---------------------------- MODULE LinearHistory ----------------------------
(***************************************************************************)
(* What the editor promises of undo and redo: the states of a document     *)
(* form one line with a cursor.  Undo and redo move the cursor by one and  *)
(* leave the line alone.  An edit cuts off what lies ahead of the cursor   *)
(* and adds the new state after it; the oldest state goes when more than   *)
(* Limit lie behind.  Only while a gesture is in progress, or when the     *)
(* state behind the cursor is a copy of the one under it, may an edit      *)
(* replace the state under the cursor.                                     *)
(***************************************************************************)
EXTENDS Sequences, Naturals

CONSTANTS States, Limit

VARIABLES line, pos, gesture

hvars == <<line, pos, gesture>>

Init == line = <<>> /\ pos = 0 /\ gesture = FALSE

\* A document is opened or reloaded: its history starts over.
Restart(t) ==
  /\ line' = <<t>>
  /\ pos' = 1
  /\ gesture' = FALSE

Extend(t) ==
  LET past == SubSeq(line, 1, pos)
      kept == IF pos > Limit THEN Tail(past) ELSE past
  IN  /\ pos > 0
      /\ line' = Append(kept, t)
      /\ pos' = Len(kept) + 1

Replace(t) ==
  /\ pos > 0
  /\ gesture \/ (pos > 1 /\ line[pos - 1] = line[pos])
  /\ line' = [line EXCEPT ![pos] = t]
  /\ pos' = pos

\* An edit on its own, or one that starts or continues a gesture.
Edit == \E t \in States : (Extend(t) \/ Replace(t)) /\ gesture' \in {gesture, TRUE}

GestureEnds == gesture /\ gesture' = FALSE /\ UNCHANGED <<line, pos>>

Move ==
  /\ pos' \in {pos - 1, pos + 1} \cap (1 .. Len(line))
  /\ UNCHANGED <<line, gesture>>

Next == (\E t \in States : Restart(t)) \/ Edit \/ GestureEnds \/ Move

Spec == Init /\ [][Next]_hvars
=============================================================================
