---------------------------- MODULE Conversations ----------------------------
(***************************************************************************)
(* What the chat promises of its saved conversations.  Each window has its *)
(* own copy of them, one of which is open; all windows share one saved     *)
(* copy, which is whatever window saved last.  A conversation is a page of *)
(* messages.  Messages are only ever added to the open page, and a page    *)
(* loses its oldest ones only when it is full.  A page goes only when it   *)
(* is removed, when a new one is begun and there are as many as are kept,  *)
(* and when a restart takes another window's copy.                         *)
(***************************************************************************)
EXTENDS Naturals, Sequences, FiniteSets

CONSTANTS Windows, None, MaxSessions, MaxMessages

VARIABLES
  pages,  \* per window: the messages of its conversations, by their names
  open,   \* per window: the conversation on show, or None
  saved   \* the pages and the open conversation that were saved last

pagesVars == <<pages, open, saved>>

Init ==
  /\ pages = [w \in Windows |-> <<>>]
  /\ open = [w \in Windows |-> None]
  /\ saved = [pages |-> <<>>, open |-> None]

\* new is the end of old and something after it.
Continued(new, old) ==
  /\ Len(new) <= MaxMessages
  /\ \E n \in 0 .. Len(old) :
       /\ n < Len(new)
       /\ n = Len(old) \/ Len(new) = MaxMessages
       /\ \A i \in 1 .. n : new[i] = old[Len(old) - n + i]

\* No window has a conversation of this name, and none is saved.
Unused(s) == s \notin DOMAIN saved.pages /\ \A w \in Windows : s \notin DOMAIN pages[w]

\* Window w alone changes, and its pages and open conversation are saved.
Saves(w) ==
  /\ pages' = [pages EXCEPT ![w] = pages'[w]]
  /\ open' = [open EXCEPT ![w] = open'[w]]
  /\ saved' = [pages |-> pages'[w], open |-> open'[w]]

\* The pages of S stay in window w as they were.
Stay(w, S) == \A t \in S : t \in DOMAIN pages'[w] /\ pages'[w][t] = pages[w][t]

\* Messages are added to the open conversation, or to a new one if none is.
Write(w) ==
  \E s \in DOMAIN pages'[w] :
    /\ s = open[w] \/ (open[w] = None /\ Unused(s))
    /\ open'[w] = s
    /\ DOMAIN pages'[w] = DOMAIN pages[w] \cup {s}
    /\ Continued(pages'[w][s], IF s = open[w] THEN pages[w][s] ELSE <<>>)
    /\ Stay(w, DOMAIN pages[w] \ {s})
    /\ Saves(w)

\* A new conversation; one goes for it if there are as many as are kept.
Begin(w) ==
  \E s \in DOMAIN pages'[w] :
    /\ Unused(s)
    /\ open'[w] = s
    /\ pages'[w][s] = <<>>
    /\ IF Cardinality(DOMAIN pages[w]) < MaxSessions
       THEN DOMAIN pages'[w] = DOMAIN pages[w] \cup {s}
       ELSE \E t \in DOMAIN pages[w] : DOMAIN pages'[w] = (DOMAIN pages[w] \ {t}) \cup {s}
    /\ Stay(w, DOMAIN pages'[w] \ {s})
    /\ Saves(w)

\* Another conversation is opened, or only the order of the list changes.
Turn(w) ==
  /\ open'[w] \in DOMAIN pages[w]
  /\ pages'[w] = pages[w]
  /\ Saves(w)

Remove(w) ==
  \E s \in DOMAIN pages[w] :
    /\ DOMAIN pages'[w] = DOMAIN pages[w] \ {s}
    /\ Stay(w, DOMAIN pages'[w])
    /\ IF s # open[w] THEN open'[w] = open[w]
       ELSE IF DOMAIN pages'[w] = {} THEN open'[w] = None
       ELSE open'[w] \in DOMAIN pages'[w]
    /\ Saves(w)

\* The window starts again from what is saved.
Restart(w) ==
  /\ pages'[w] = saved.pages /\ open'[w] = saved.open
  /\ Saves(w)

Next == \E w \in Windows : Write(w) \/ Begin(w) \/ Turn(w) \/ Remove(w) \/ Restart(w)

Spec == Init /\ [][Next]_pagesVars
=============================================================================
