----------------------------- MODULE ChatHistory -----------------------------
(***************************************************************************)
(* The saved conversations of the chat (the history methods of             *)
(* chatViewPane.ts, and sortHistorySessions and selectPreferredSession of  *)
(* chatHistoryModel.ts), as operators on one value.                        *)
(*                                                                         *)
(* A history is what a window holds in memory and what it writes to the    *)
(* local store: list, the sessions in the order of historySessions;        *)
(* pinned; recent, the sessions by updatedAt, newest first, of which only  *)
(* the order matters; messages, per session; active, the session on show,  *)
(* None if there is none.  It is also the one with the newest              *)
(* lastViewedAt: whatever makes a session active stamps it.                *)
(*                                                                         *)
(* Left out: titles, times, the clipping of long texts.  Written records   *)
(* are all valid, so reading them back leaves them as they are.            *)
(***************************************************************************)
EXTENDS Naturals, Sequences, SequencesExt, FiniteSets

CONSTANTS
  None,
  MaxSessions,  \* CHAT_HISTORY_MAX_SESSIONS
  MaxMessages   \* CHAT_HISTORY_MAX_MESSAGES_PER_SESSION

ASSUME HistoryLimits == MaxSessions \in Nat \ {0} /\ MaxMessages \in Nat \ {0}
ASSUME NoneIsNoSession == None \notin Nat  \* sessions are numbers

\* The elements of s at the positions P, in their order.
At(s, P) == [i \in 1 .. Cardinality(P) |-> s[CHOOSE p \in P : Cardinality(P \cap 1 .. p) = i]]

\* SelectSeq by positions, of which more can be proved.
Filter(s, kept) == At(s, {i \in DOMAIN s : s[i] \in kept})

LastN(s, n) == IF Len(s) <= n THEN s ELSE SubSeq(s, Len(s) - n + 1, Len(s))

Empty == [list |-> <<>>, pinned |-> {}, recent |-> <<>>, messages |-> <<>>, active |-> None]

Sessions(h) == ToSet(h.list)
HasActive(h) == h.active \in Sessions(h)
ActiveMessages(h) == IF HasActive(h) THEN h.messages[h.active] ELSE <<>>

Keep(h, kept) ==
  [list |-> Filter(h.list, kept), pinned |-> h.pinned \cap kept, recent |-> Filter(h.recent, kept),
   messages |-> [s \in DOMAIN h.messages \cap kept |-> h.messages[s]], active |-> h.active]

\* Faulty: off by one.
SliceEarly(h) == IF Len(h.list) < MaxSessions THEN h ELSE Keep(h, ToSet(SubSeq(h.list, 1, MaxSessions - 1)))

\* slice(0, CHAT_HISTORY_MAX_SESSIONS)
Slice(h) == IF Len(h.list) <= MaxSessions THEN h ELSE Keep(h, ToSet(SubSeq(h.list, 1, MaxSessions)))

\* Pinned sessions first, then by updatedAt.
Sort(h) ==
  [h EXCEPT !.list = Filter(h.recent, h.pinned) \o Filter(h.recent, ToSet(h.recent) \ h.pinned)]

Touch(h, s) == [h EXCEPT !.recent = <<s>> \o Filter(@, ToSet(@) \ {s})]

-----------------------------------------------------------------------------

\* A new session comes first, even before pinned ones, until the next sort.
Create(h, s) ==
  Slice([list |-> <<s>> \o h.list, pinned |-> h.pinned, recent |-> <<s>> \o h.recent,
         messages |-> [t \in DOMAIN h.messages \cup {s} |-> IF t = s THEN <<>> ELSE h.messages[t]],
         active |-> s])

\* s is the session to create if there is none on show.
Record(h, s, m) ==
  LET g == IF HasActive(h) THEN h ELSE Create(h, s)
  IN  Slice(Sort(Touch([g EXCEPT !.messages[g.active] = LastN(Append(@, m), MaxMessages)], g.active)))

\* No step records more than two messages.
RecordAll(h, s, ms) ==
  LET g == IF ms = <<>> THEN h ELSE Record(h, s, ms[1])
  IN  IF Len(ms) = 2 THEN Record(g, s, ms[2]) ELSE g

Open(h, s) == [h EXCEPT !.active = s]

Discard(h, s) ==
  LET g == Keep(h, Sessions(h) \ {s})
  IN  IF s # h.active THEN g
      ELSE Open(g, IF g.list = <<>> THEN None ELSE g.list[1])

TogglePin(h, s) ==
  Sort(Touch([h EXCEPT !.pinned = IF s \in @ THEN @ \ {s} ELSE @ \cup {s}], s))

Rename(h, s) == Touch(h, s)

Load(h) == Slice(Sort(h))
=============================================================================
