--------------------------- MODULE ChatPane_proofs ---------------------------
(***************************************************************************)
(* The request side of ChatPane for any windows, any limits and any number *)
(* of messages and reloads: the guard of the service, the stream that does *)
(* not say whose it is, and the limit on attachments.                      *)
(***************************************************************************)
EXTENDS ChatPane, Descent_proofs, TLAPS

PCs == {"reading", "sent", "answered", "failed", "refused", "lost"}

\* What an ask says of sessions and context is left open: S and C are any
\* sets that hold it.
AskOf(S, C) ==
  [window : Windows, pc : PCs, attempt : 0 .. MaxRetries, agent : {"none", "running", "ended"},
   shown : BOOLEAN, session : S, context : C]

Shape ==
  /\ \E S, C : asks \in Seq(AskOf(S, C))
  /\ processing \in [Windows -> BOOLEAN]
  /\ down \in [Windows -> Seq([ask : Nat, kind : Events \cup Exits])]
  /\ \A w \in Windows : \A i \in DOMAIN down[w] : down[w][i].ask \in DOMAIN asks

\* An agent runs for a request in flight or one cut off by a reload, and for
\* none before its attachments are read.
AgentsHaveAsks ==
  \A a \in DOMAIN asks :
    /\ asks[a].agent = "running" => asks[a].pc \in {"sent", "lost"}
    /\ asks[a].pc = "reading" => asks[a].agent = "none"

\* A reload takes the answers on their way with it.
AnswersAreAwaited ==
  \A w \in Windows : \A i \in DOMAIN down[w] :
    down[w][i].kind \in Exits => asks[down[w][i].ask].pc = "sent"

RequestInv == Shape /\ AgentsHaveAsks /\ AnswersAreAwaited /\ GuardHasRequest /\ StreamIsCurrent

requestVars == <<asks, processing, down>>

-----------------------------------------------------------------------------

\* What is known of the messages sent so far.
LEMMA AskFacts ==
  ASSUME NEW S, NEW C, NEW before \in Seq(AskOf(S, C))
  PROVE  /\ Len(before) \in Nat /\ DOMAIN before = 1 .. Len(before)
         /\ \A a \in DOMAIN before : before[a] \in AskOf(S, C) /\ before[a].window \in Windows /\ before[a].pc \in PCs
<1>1. Len(before) \in Nat /\ DOMAIN before = 1 .. Len(before)
  OBVIOUS
<1>2. \A a \in DOMAIN before : before[a] \in AskOf(S, C)
  OBVIOUS
<1>3. \A r \in AskOf(S, C) : r.window \in Windows /\ r.pc \in PCs
  BY DEF AskOf
<1>4. QED
  BY <1>1, <1>2, <1>3

\* Replacing one element of a sequence.
LEMMA Replaced ==
  ASSUME NEW T, NEW before \in Seq(T), NEW a \in DOMAIN before, NEW r \in T,
         NEW after, after = [before EXCEPT ![a] = r]
  PROVE  /\ after \in Seq(T) /\ Len(after) = Len(before) /\ DOMAIN after = DOMAIN before
         /\ after[a] = r
         /\ \A i \in DOMAIN before : i # a => after[i] = before[i]
OBVIOUS

\* The guard decides between refusal and request, and only ask a changes.
LEMMA SubmitFacts ==
  ASSUME NEW S, NEW C, NEW before \in Seq(AskOf(S, C)), NEW a \in DOMAIN before, NEW w \in Windows,
         NEW ms, NEW more, processing \in [Windows -> BOOLEAN], Submit(w, a, before, ms, more)
  PROVE  /\ asks' \in Seq(AskOf(S, C)) /\ Len(asks') = Len(before)
         /\ \A i \in DOMAIN before : i # a => asks'[i] = before[i]
         /\ asks'[a].window = before[a].window
         /\ asks'[a].session = before[a].session /\ asks'[a].context = before[a].context
         /\ \/ processing[w] /\ processing' = processing
               /\ asks'[a].pc = "refused" /\ asks'[a].agent = before[a].agent
            \/ ~ processing[w] /\ processing' = [processing EXCEPT ![w] = TRUE]
               /\ asks'[a].pc = "sent" /\ asks'[a].agent = "running"
<1>1. CASE /\ processing[w] /\ processing' = processing
           /\ asks' = [before EXCEPT ![a].pc = "refused"]
  <2> DEFINE r == [before[a] EXCEPT !.pc = "refused"]
  <2>1. before[a] \in AskOf(S, C)
    BY AskFacts
  <2>2. /\ r \in AskOf(S, C) /\ r.window = before[a].window /\ r.pc = "refused" /\ r.agent = before[a].agent
        /\ r.session = before[a].session /\ r.context = before[a].context
    BY <2>1 DEF AskOf, PCs
  <2>3. asks' = [before EXCEPT ![a] = r]
    BY <1>1
  <2> HIDE DEF r
  <2>4. /\ asks' \in Seq(AskOf(S, C)) /\ Len(asks') = Len(before)
        /\ \A i \in DOMAIN before : i # a => asks'[i] = before[i]
        /\ asks'[a] = r
    BY <2>2, <2>3, Replaced
  <2>5. QED
    BY <1>1, <2>2, <2>4, Zenon
<1>2. CASE /\ ~ processing[w] /\ processing' = [processing EXCEPT ![w] = TRUE]
           /\ asks' = [before EXCEPT ![a].pc = "sent", ![a].agent = "running"]
  <2> DEFINE r == [before[a] EXCEPT !.pc = "sent", !.agent = "running"]
  <2>1. before[a] \in AskOf(S, C)
    BY AskFacts
  <2>2. /\ r \in AskOf(S, C) /\ r.window = before[a].window /\ r.pc = "sent" /\ r.agent = "running"
        /\ r.session = before[a].session /\ r.context = before[a].context
    BY <2>1 DEF AskOf, PCs
  <2>3. asks' = [before EXCEPT ![a] = r]
    BY <1>2
  <2> HIDE DEF r
  <2>4. /\ asks' \in Seq(AskOf(S, C)) /\ Len(asks') = Len(before)
        /\ \A i \in DOMAIN before : i # a => asks'[i] = before[i]
        /\ asks'[a] = r
    BY <2>2, <2>3, Replaced
  <2>5. QED
    BY <1>2, <2>2, <2>4, Zenon
<1>3. QED
  BY <1>1, <1>2 DEF Submit

\* GuardHasRequest without sets, of any asks and any guard.
Guarded(some, guard) ==
  \A w \in Windows :
    /\ guard[w] => \E a \in DOMAIN some : some[a].window = w /\ some[a].pc = "sent"
    /\ \A a \in DOMAIN some : some[a].window = w /\ some[a].pc = "sent" =>
         /\ guard[w]
         /\ \A b \in DOMAIN some : some[b].window = w /\ some[b].pc = "sent" => b = a

\* Guarded says what GuardHasRequest does.
LEMMA GuardIsGuarded ==
  ASSUME NEW some, NEW guard \in [Windows -> BOOLEAN]
  PROVE  (\A w \in Windows :
            LET sent == {a \in DOMAIN some : some[a].window = w /\ some[a].pc = "sent"}
            IN  /\ guard[w] <=> sent # {}
                /\ \A a, b \in sent : a = b) <=> Guarded(some, guard)
<1> DEFINE sent(w) == {a \in DOMAIN some : some[a].window = w /\ some[a].pc = "sent"}
<1>1. ASSUME NEW w \in Windows
      PROVE  (guard[w] <=> sent(w) # {}) <=>
               /\ guard[w] => \E a \in DOMAIN some : some[a].window = w /\ some[a].pc = "sent"
               /\ \A a \in DOMAIN some : some[a].window = w /\ some[a].pc = "sent" => guard[w]
  OBVIOUS
<1>2. ASSUME NEW w \in Windows
      PROVE  (\A a, b \in sent(w) : a = b) <=>
               \A a, b \in DOMAIN some :
                 some[a].window = w /\ some[a].pc = "sent" /\ some[b].window = w /\ some[b].pc = "sent" => b = a
  OBVIOUS
<1> HIDE DEF sent
<1>3. (\A w \in Windows : (guard[w] <=> sent(w) # {}) /\ \A a, b \in sent(w) : a = b) <=> Guarded(some, guard)
  BY <1>1, <1>2 DEF Guarded
<1>4. QED
  BY <1>3 DEF sent

\* Submitting an ask nothing was sent for keeps the invariant.
LEMMA SubmitKeeps ==
  ASSUME RequestInv, NEW S, NEW C, NEW before \in Seq(AskOf(S, C)), NEW a \in DOMAIN before,
         NEW w \in Windows, before[a].window = w, NEW ms, NEW more,
         Submit(w, a, before, ms, more), down' = down,
         \A i \in DOMAIN asks : i \in DOMAIN before /\ before[i] = asks[i],
         \A i \in DOMAIN before : i \in DOMAIN asks \/ i = a,
         before[a].pc = "reading", before[a].agent = "none"
  PROVE  RequestInv'
<1>1. processing \in [Windows -> BOOLEAN]
  BY DEF RequestInv, Shape
<1>2. /\ asks' \in Seq(AskOf(S, C)) /\ Len(asks') = Len(before)
      /\ \A i \in DOMAIN before : i # a => asks'[i] = before[i]
      /\ asks'[a].window = w
      /\ \/ processing[w] /\ processing' = processing
            /\ asks'[a].pc = "refused" /\ asks'[a].agent = "none"
         \/ ~ processing[w] /\ processing' = [processing EXCEPT ![w] = TRUE]
            /\ asks'[a].pc = "sent" /\ asks'[a].agent = "running"
  BY <1>1, SubmitFacts
<1>3. DOMAIN asks' = DOMAIN before
  BY <1>2
<1>4. \A v \in Windows : \A i \in DOMAIN down[v] : down[v][i].ask \in DOMAIN asks /\ down[v][i].ask # a
  <2>1. SUFFICES ASSUME NEW v \in Windows, NEW i \in DOMAIN down[v]
                 PROVE  down[v][i].ask \in DOMAIN asks /\ down[v][i].ask # a
    OBVIOUS
  <2>2. down[v][i].ask \in DOMAIN asks
    BY DEF RequestInv, Shape
  <2>3. asks[down[v][i].ask].pc # "reading"
    BY DEF RequestInv, StreamIsCurrent
  <2>4. QED
    BY <2>2, <2>3
<1>5. Shape'
  <2>1. \E R, D : asks' \in Seq(AskOf(R, D))
    BY <1>2
  <2>2. processing' \in [Windows -> BOOLEAN]
    BY <1>1, <1>2
  <2>3. \A v \in Windows : \A i \in DOMAIN down[v] : down[v][i].ask \in DOMAIN asks'
    BY <1>3, <1>4
  <2>4. QED
    BY <2>1, <2>2, <2>3 DEF RequestInv, Shape
<1>6. AgentsHaveAsks'
  BY <1>2, <1>3 DEF RequestInv, AgentsHaveAsks
<1>7. AnswersAreAwaited'
  BY <1>2, <1>3, <1>4 DEF RequestInv, AnswersAreAwaited
<1>8. StreamIsCurrent'
  BY <1>2, <1>3, <1>4 DEF RequestInv, StreamIsCurrent
<1>9. Guarded(asks, processing)
  BY <1>1, GuardIsGuarded DEF RequestInv, GuardHasRequest
<1>10. Guarded(asks', processing')
  BY <1>1, <1>2, <1>3, <1>9 DEF Guarded
<1>11. GuardHasRequest'
  BY <1>5, <1>10, GuardIsGuarded DEF Shape, GuardHasRequest
<1>12. QED
  BY <1>5, <1>6, <1>7, <1>8, <1>11 DEF RequestInv

\* One more ask at the end, of a session and with a context of its own.
LEMMA NewAsk ==
  ASSUME NEW S, NEW C, NEW before \in Seq(AskOf(S, C)), NEW R, NEW D, S \subseteq R, C \subseteq D,
         NEW ask \in AskOf(R, D)
  PROVE  LET after == Append(before, ask)
             a == Len(before) + 1
         IN  /\ after \in Seq(AskOf(R, D)) /\ a \in DOMAIN after /\ after[a] = ask
             /\ \A i \in DOMAIN before : i \in DOMAIN after /\ i # a /\ after[i] = before[i]
             /\ \A i \in DOMAIN after : i \in DOMAIN before \/ i = a
<1> DEFINE after == Append(before, ask)
<1>1. AskOf(S, C) \subseteq AskOf(R, D)
  BY DEF AskOf
<1>2. before \in Seq(AskOf(R, D))
  BY <1>1
<1>3. /\ after \in Seq(AskOf(R, D))
      /\ Len(before) \in Nat /\ DOMAIN before = 1 .. Len(before)
      /\ DOMAIN after = 1 .. Len(before) + 1
      /\ after[Len(before) + 1] = ask
      /\ \A i \in 1 .. Len(before) : after[i] = before[i]
  BY <1>2
<1>4. QED
  BY <1>2, <1>3

\* A new message is not yet at the service.
LEMMA SendMessageKeeps ==
  ASSUME RequestInv, NEW w \in Windows, NEW long \in BOOLEAN, SendMessage(w, long)
  PROVE  RequestInv'
<1> DEFINE a == Len(asks) + 1
           m == [ask |-> a, kind |-> "user"]
           c == Compacted(Append(context[w], m), long)
           session == IF HasActive(history[w]) THEN history[w].active ELSE made + 1
           ask == [window |-> w, pc |-> "reading", attempt |-> 0, agent |-> "none", shown |-> FALSE,
                   session |-> session, context |-> c]
<1>1. /\ \/ Submit(w, a, Append(asks, ask), <<m>>, 1)
         \/ asks' = Append(asks, ask) /\ processing' = processing
      /\ down' = down
  BY DEF SendMessage
<1>2. PICK S, C : asks \in Seq(AskOf(S, C))
  BY DEF RequestInv, Shape
<1>3. ask.window = w /\ ask.pc = "reading" /\ ask.agent = "none"
  OBVIOUS
<1> DEFINE R == S \cup {session}
           D == C \cup {c}
           after == Append(asks, ask)
<1>4. /\ after \in Seq(AskOf(R, D))
      /\ a \in DOMAIN after /\ after[a] = ask
      /\ \A i \in DOMAIN asks : i \in DOMAIN after /\ i # a /\ after[i] = asks[i]
      /\ \A i \in DOMAIN after : i \in DOMAIN asks \/ i = a
  <2>1. S \subseteq R /\ C \subseteq D
    OBVIOUS
  <2>2. session \in R /\ c \in D
    OBVIOUS
  <2> HIDE DEF c, session, R, D
  <2>3. ask \in AskOf(R, D)
    BY <2>2, LimitsAreNumbers DEF AskOf, PCs
  <2> HIDE DEF ask
  <2>4. QED
    BY <1>2, <2>1, <2>3, NewAsk
<1>5. CASE Submit(w, a, after, <<m>>, 1)
  <2> HIDE DEF ask, R, D, after, a, m
  <2>1. QED
    BY <1>1, <1>3, <1>4, <1>5, SubmitKeeps
<1>6. CASE asks' = after /\ processing' = processing
  <2> HIDE DEF ask, R, D, after, a
  <2>1. \A v \in Windows : \A i \in DOMAIN down[v] : down[v][i].ask \in DOMAIN asks
    BY DEF RequestInv, Shape
  <2>2. Shape'
    <3>1. \E Q, E : asks' \in Seq(AskOf(Q, E))
      BY <1>4, <1>6
    <3>2. \A v \in Windows : \A i \in DOMAIN down[v] : down[v][i].ask \in DOMAIN asks'
      BY <1>4, <1>6, <2>1
    <3>3. QED
      BY <1>1, <1>6, <3>1, <3>2 DEF RequestInv, Shape
  <2>3. AgentsHaveAsks'
    BY <1>3, <1>4, <1>6 DEF RequestInv, AgentsHaveAsks
  <2>4. AnswersAreAwaited'
    BY <1>1, <1>4, <1>6, <2>1 DEF RequestInv, AnswersAreAwaited
  <2>5. StreamIsCurrent'
    BY <1>1, <1>4, <1>6, <2>1 DEF RequestInv, StreamIsCurrent
  <2>6. Guarded(asks, processing)
    BY GuardIsGuarded DEF RequestInv, Shape, GuardHasRequest
  <2>7. Guarded(asks', processing')
    BY <1>3, <1>4, <1>6, <2>6 DEF Guarded
  <2>8. GuardHasRequest'
    BY <2>2, <2>7, GuardIsGuarded DEF Shape, GuardHasRequest
  <2>9. QED
    BY <2>2, <2>3, <2>4, <2>5, <2>8 DEF RequestInv
<1>7. QED
  BY <1>1, <1>5, <1>6

\* A message whose files have been read meets the guard.
LEMMA AttachmentsReadKeeps ==
  ASSUME RequestInv, NEW a \in DOMAIN asks, AttachmentsRead(a)
  PROVE  RequestInv'
<1>1. PICK S, C : asks \in Seq(AskOf(S, C))
  BY DEF RequestInv, Shape
<1>2. asks[a].window \in Windows
  BY <1>1, AskFacts
<1>3. /\ asks[a].pc = "reading" /\ Submit(asks[a].window, a, asks, <<>>, 0)
      /\ down' = down
  BY DEF AttachmentsRead
<1>4. asks[a].agent = "none"
  BY <1>3 DEF RequestInv, AgentsHaveAsks
<1>5. QED
  BY <1>1, <1>2, <1>3, <1>4, SubmitKeeps

-----------------------------------------------------------------------------
(* What the agent sends and what the pane takes *)

Event == [ask : Nat, kind : Events \cup Exits]

\* One event more at the end of a stream.
LEMMA Arrived ==
  ASSUME down \in [Windows -> Seq(Event)], NEW w \in Windows, NEW e \in Event,
         down' = [down EXCEPT ![w] = Append(@, e)]
  PROVE  /\ down' \in [Windows -> Seq(Event)]
         /\ \A v \in Windows : \A i \in DOMAIN down'[v] :
              \/ i \in DOMAIN down[v] /\ down'[v][i] = down[v][i]
              \/ v = w /\ down'[v][i] = e /\ \A j \in DOMAIN down'[v] : ~ (j > i)
<1>1. ASSUME NEW v \in Windows, NEW i \in DOMAIN down'[v]
      PROVE  \/ i \in DOMAIN down[v] /\ down'[v][i] = down[v][i]
             \/ v = w /\ down'[v][i] = e /\ \A j \in DOMAIN down'[v] : ~ (j > i)
  <2>1. CASE v # w
    BY <1>1, <2>1
  <2>2. CASE v = w
    <3> DEFINE q == down[w]
    <3>1. q \in Seq(Event) /\ down'[w] = Append(q, e)
      OBVIOUS
    <3> HIDE DEF q
    <3>2. /\ Len(q) \in Nat /\ DOMAIN q = 1 .. Len(q)
          /\ DOMAIN Append(q, e) = 1 .. Len(q) + 1
          /\ Append(q, e)[Len(q) + 1] = e
          /\ \A j \in 1 .. Len(q) : Append(q, e)[j] = q[j]
      BY <3>1
    <3>3. QED
      BY <1>1, <2>2, <3>1, <3>2 DEF q
  <2>3. QED
    BY <2>1, <2>2
<1>2. down' \in [Windows -> Seq(Event)]
  OBVIOUS
<1>3. QED
  BY <1>1, <1>2

\* The first event of a stream is taken.
LEMMA Taken ==
  ASSUME down \in [Windows -> Seq(Event)], NEW w \in Windows, down[w] # <<>>,
         down' = [down EXCEPT ![w] = Tail(@)]
  PROVE  /\ down' \in [Windows -> Seq(Event)]
         /\ 1 \in DOMAIN down[w] /\ Head(down[w]) = down[w][1]
         /\ \A v \in Windows : v # w => down'[v] = down[v]
         /\ \A i \in DOMAIN down'[w] : /\ i \in Nat \ {0} /\ i + 1 \in DOMAIN down[w]
                                       /\ down'[w][i] = down[w][i + 1]
<1> DEFINE q == down[w]
<1>1. q \in Seq(Event) /\ q # <<>> /\ down'[w] = Tail(q)
  OBVIOUS
<1>2. \A v \in Windows : v # w => down'[v] = down[v]
  OBVIOUS
<1> HIDE DEF q
<1>3. /\ Tail(q) \in Seq(Event) /\ 1 \in DOMAIN q /\ Head(q) = q[1]
      /\ \A i \in DOMAIN Tail(q) : i \in Nat \ {0} /\ i + 1 \in DOMAIN q /\ Tail(q)[i] = q[i + 1]
  BY <1>1
<1>4. down' \in [Windows -> Seq(Event)]
  BY <1>1, <1>3
<1>5. QED
  BY <1>1, <1>2, <1>3, <1>4 DEF q

\* What the invariant says of an event on its way.
LEMMA EventFacts ==
  ASSUME RequestInv, NEW v \in Windows, NEW i \in DOMAIN down[v]
  PROVE  /\ down[v][i].ask \in DOMAIN asks
         /\ asks[down[v][i].ask].window = v
         /\ asks[down[v][i].ask].pc \in {"sent", "lost"}
         /\ down[v][i].kind \in Exits =>
              /\ asks[down[v][i].ask].pc = "sent"
              /\ asks[down[v][i].ask].agent = "ended"
              /\ \A j \in DOMAIN down[v] : j > i => down[v][j].ask # down[v][i].ask
<1>1. down[v][i].ask \in DOMAIN asks
  BY DEF RequestInv, Shape
<1>2. down[v][i].kind \in Exits => asks[down[v][i].ask].pc = "sent"
  BY DEF RequestInv, AnswersAreAwaited
<1>3. QED
  BY <1>1, <1>2 DEF RequestInv, StreamIsCurrent

\* And of one that is still on its way when the first of w has been taken.
LEMMA Remaining ==
  ASSUME RequestInv, NEW w \in Windows, down[w] # <<>>, down' = [down EXCEPT ![w] = Tail(@)],
         NEW v \in Windows, NEW i \in DOMAIN down'[v]
  PROVE  /\ down'[v][i].ask \in DOMAIN asks
         /\ asks[down'[v][i].ask].window = v
         /\ asks[down'[v][i].ask].pc \in {"sent", "lost"}
         /\ down'[v][i].kind \in Exits =>
              /\ asks[down'[v][i].ask].pc = "sent"
              /\ asks[down'[v][i].ask].agent = "ended"
              /\ \A j \in DOMAIN down'[v] : j > i => down'[v][j].ask # down'[v][i].ask
<1>1. down \in [Windows -> Seq(Event)]
  BY DEF RequestInv, Shape, Event
<1>2. /\ 1 \in DOMAIN down[w] /\ Head(down[w]) = down[w][1]
      /\ \A u \in Windows : u # w => down'[u] = down[u]
      /\ \A j \in DOMAIN down'[w] : /\ j \in Nat \ {0} /\ j + 1 \in DOMAIN down[w]
                                    /\ down'[w][j] = down[w][j + 1]
  BY <1>1, Taken
<1>3. CASE v # w
  <2>1. down'[v] = down[v] /\ i \in DOMAIN down[v]
    BY <1>2, <1>3
  <2>2. /\ down[v][i].ask \in DOMAIN asks
        /\ asks[down[v][i].ask].window = v
        /\ asks[down[v][i].ask].pc \in {"sent", "lost"}
        /\ down[v][i].kind \in Exits =>
             /\ asks[down[v][i].ask].pc = "sent"
             /\ asks[down[v][i].ask].agent = "ended"
             /\ \A j \in DOMAIN down[v] : j > i => down[v][j].ask # down[v][i].ask
    BY <2>1, EventFacts
  <2>3. QED
    BY <2>1, <2>2
<1>4. CASE v = w
  <2>1. i \in Nat \ {0} /\ i + 1 \in DOMAIN down[w] /\ down'[w][i] = down[w][i + 1]
    BY <1>2, <1>4
  <2>2. \A j \in DOMAIN down'[w] : j > i =>
          j + 1 > i + 1 /\ j + 1 \in DOMAIN down[w] /\ down'[w][j] = down[w][j + 1]
    BY <1>2, <2>1
  <2>3. /\ down[w][i + 1].ask \in DOMAIN asks
        /\ asks[down[w][i + 1].ask].window = w
        /\ asks[down[w][i + 1].ask].pc \in {"sent", "lost"}
        /\ down[w][i + 1].kind \in Exits =>
             /\ asks[down[w][i + 1].ask].pc = "sent"
             /\ asks[down[w][i + 1].ask].agent = "ended"
             /\ \A j \in DOMAIN down[w] : j > i + 1 => down[w][j].ask # down[w][i + 1].ask
    BY <2>1, EventFacts
  <2>4. QED
    BY <1>4, <2>1, <2>2, <2>3
<1>5. QED
  BY <1>3, <1>4

\* No event of a request comes after its answer.
LEMMA AnswerIsLast ==
  ASSUME RequestInv, NEW w \in Windows, down[w] # <<>>, down' = [down EXCEPT ![w] = Tail(@)],
         Head(down[w]).kind \in Exits, NEW v \in Windows, NEW i \in DOMAIN down'[v]
  PROVE  down'[v][i].ask # Head(down[w]).ask
<1>1. down \in [Windows -> Seq(Event)]
  BY DEF RequestInv, Shape, Event
<1>2. /\ 1 \in DOMAIN down[w] /\ Head(down[w]) = down[w][1]
      /\ \A u \in Windows : u # w => down'[u] = down[u]
      /\ \A j \in DOMAIN down'[w] : /\ j \in Nat \ {0} /\ j + 1 \in DOMAIN down[w]
                                    /\ down'[w][j] = down[w][j + 1]
  BY <1>1, Taken
<1>3. /\ asks[Head(down[w]).ask].window = w
      /\ \A j \in DOMAIN down[w] : j > 1 => down[w][j].ask # Head(down[w]).ask
  BY <1>2, EventFacts
<1>4. CASE v # w
  <2>1. i \in DOMAIN down[v] /\ down'[v] = down[v]
    BY <1>2, <1>4
  <2>2. asks[down[v][i].ask].window = v
    BY <2>1, EventFacts
  <2>3. QED
    BY <1>3, <1>4, <2>1, <2>2
<1>5. CASE v = w
  <2>1. i + 1 > 1 /\ i + 1 \in DOMAIN down[w] /\ down'[w][i] = down[w][i + 1]
    BY <1>2, <1>5
  <2>2. QED
    BY <1>3, <1>5, <2>1
<1>6. QED
  BY <1>4, <1>5

\* An event of the agent joins those of its own request.
LEMMA EmitKeeps ==
  ASSUME RequestInv, NEW a \in DOMAIN asks, NEW kind \in Events, Emit(a, kind)
  PROVE  RequestInv'
<1>1. PICK S, C : asks \in Seq(AskOf(S, C))
  BY DEF RequestInv, Shape
<1>2. a \in Nat /\ asks[a].window \in Windows
  BY <1>1, AskFacts
<1> DEFINE w == asks[a].window
           e == [ask |-> a, kind |-> kind]
<1>3. /\ asks[a].agent = "running"
      /\ down' = [down EXCEPT ![w] = Append(@, e)]
      /\ asks' = asks /\ processing' = processing
  BY DEF Emit
<1>4. e \in Event /\ e.ask = a /\ e.kind \in Events
  BY <1>2 DEF Event
<1>5. down \in [Windows -> Seq(Event)]
  BY DEF RequestInv, Shape, Event
<1>6. asks[a].window = w /\ w \in Windows
  BY <1>2
<1> HIDE DEF w, e
<1>7. /\ down' \in [Windows -> Seq(Event)]
      /\ \A v \in Windows : \A i \in DOMAIN down'[v] :
           \/ i \in DOMAIN down[v] /\ down'[v][i] = down[v][i]
           \/ v = w /\ down'[v][i] = e /\ \A j \in DOMAIN down'[v] : ~ (j > i)
  BY <1>3, <1>4, <1>5, <1>6, Arrived
<1>8. Shape'
  <2>1. \A v \in Windows : \A i \in DOMAIN down'[v] : down'[v][i].ask \in DOMAIN asks
    BY <1>4, <1>7 DEF RequestInv, Shape
  <2>2. QED
    BY <1>1, <1>3, <1>7, <2>1 DEF RequestInv, Shape, Event
<1>9. AgentsHaveAsks' /\ GuardHasRequest'
  BY <1>3 DEF RequestInv, AgentsHaveAsks, GuardHasRequest
<1>10. e.kind \notin Exits
  BY <1>4 DEF Events, Exits
<1>11. AnswersAreAwaited'
  BY <1>3, <1>7, <1>10 DEF RequestInv, AnswersAreAwaited
<1>12. asks[a].pc \in {"sent", "lost"}
  BY <1>3 DEF RequestInv, AgentsHaveAsks
<1>13. StreamIsCurrent'
  <2>1. SUFFICES ASSUME NEW v \in Windows, NEW i \in DOMAIN down'[v]
                 PROVE  /\ asks[down'[v][i].ask].window = v
                        /\ asks[down'[v][i].ask].pc \in {"sent", "lost"}
                        /\ down'[v][i].kind \in Exits =>
                             /\ asks[down'[v][i].ask].agent = "ended"
                             /\ \A j \in DOMAIN down'[v] : j > i => down'[v][j].ask # down'[v][i].ask
    BY <1>3 DEF StreamIsCurrent
  <2>2. CASE i \in DOMAIN down[v] /\ down'[v][i] = down[v][i]
    <3>1. /\ asks[down[v][i].ask].window = v
          /\ asks[down[v][i].ask].pc \in {"sent", "lost"}
          /\ down[v][i].kind \in Exits =>
               /\ asks[down[v][i].ask].agent = "ended"
               /\ \A j \in DOMAIN down[v] : j > i => down[v][j].ask # down[v][i].ask
      BY <2>2 DEF RequestInv, StreamIsCurrent
    <3>2. asks[down[v][i].ask].agent = "ended" => down[v][i].ask # a
      BY <1>3
    <3>3. QED
      BY <1>4, <1>7, <2>2, <3>1, <3>2
  <2>3. CASE v = w /\ down'[v][i] = e
    BY <1>4, <1>6, <1>10, <1>12, <2>3
  <2>4. QED
    BY <1>7, <2>2, <2>3
<1>14. QED
  BY <1>8, <1>9, <1>11, <1>13 DEF RequestInv

\* The answer comes last, to the page that asked.
LEMMA AgentExitsKeeps ==
  ASSUME RequestInv, NEW a \in DOMAIN asks, NEW exit \in Exits, AgentExits(a, exit)
  PROVE  RequestInv'
<1>1. PICK S, C : asks \in Seq(AskOf(S, C))
  BY DEF RequestInv, Shape
<1>2. a \in Nat /\ asks[a] \in AskOf(S, C) /\ asks[a].window \in Windows
  BY <1>1, AskFacts
<1> DEFINE w == asks[a].window
           e == [ask |-> a, kind |-> exit]
           r == [asks[a] EXCEPT !.agent = "ended"]
<1>3. /\ asks[a].agent = "running"
      /\ asks' = [asks EXCEPT ![a] = r]
      /\ processing' = processing
      /\ \/ asks[a].pc # "sent" /\ down' = down
         \/ asks[a].pc = "sent" /\ down' = [down EXCEPT ![w] = Append(@, e)]
  BY DEF AgentExits
<1>4. e \in Event /\ e.ask = a /\ e.kind \in Exits
  BY <1>2 DEF Event
<1>5. r \in AskOf(S, C) /\ r.window = w /\ r.pc = asks[a].pc /\ r.agent = "ended"
  BY <1>2 DEF AskOf
<1>6. down \in [Windows -> Seq(Event)]
  BY DEF RequestInv, Shape, Event
<1>7. asks[a].window = w /\ w \in Windows
  BY <1>2
<1> HIDE DEF w, e, r
<1>8. /\ asks' \in Seq(AskOf(S, C)) /\ DOMAIN asks' = DOMAIN asks
      /\ \A i \in DOMAIN asks : /\ asks'[i].window = asks[i].window /\ asks'[i].pc = asks[i].pc
                                /\ i # a => asks'[i] = asks[i]
      /\ asks'[a].agent = "ended"
  <2>1. /\ asks' \in Seq(AskOf(S, C)) /\ DOMAIN asks' = DOMAIN asks
        /\ asks'[a] = r /\ \A i \in DOMAIN asks : i # a => asks'[i] = asks[i]
    BY <1>1, <1>3, <1>5, Replaced
  <2>2. QED
    BY <1>5, <1>7, <2>1, Zenon
<1>9. /\ down' \in [Windows -> Seq(Event)]
      /\ \A v \in Windows : \A i \in DOMAIN down'[v] :
           \/ i \in DOMAIN down[v] /\ down'[v][i] = down[v][i]
           \/ /\ asks[a].pc = "sent" /\ v = w /\ down'[v][i] = e
              /\ \A j \in DOMAIN down'[v] : ~ (j > i)
  <2>1. CASE down' = down
    BY <1>6, <2>1
  <2>2. CASE asks[a].pc = "sent" /\ down' = [down EXCEPT ![w] = Append(@, e)]
    <3>1. /\ down' \in [Windows -> Seq(Event)]
          /\ \A v \in Windows : \A i \in DOMAIN down'[v] :
               \/ i \in DOMAIN down[v] /\ down'[v][i] = down[v][i]
               \/ v = w /\ down'[v][i] = e /\ \A j \in DOMAIN down'[v] : ~ (j > i)
      BY <1>4, <1>6, <1>7, <2>2, Arrived
    <3>2. QED
      BY <2>2, <3>1
  <2>3. QED
    BY <1>3, <2>1, <2>2
<1>10. Shape'
  <2>1. \A v \in Windows : \A i \in DOMAIN down'[v] : down'[v][i].ask \in DOMAIN asks'
    BY <1>4, <1>8, <1>9 DEF RequestInv, Shape
  <2>2. \E R, D : asks' \in Seq(AskOf(R, D))
    BY <1>8
  <2>3. QED
    BY <1>3, <1>9, <2>1, <2>2 DEF RequestInv, Shape, Event
<1>11. AgentsHaveAsks'
  BY <1>3, <1>8 DEF RequestInv, AgentsHaveAsks
<1>12. GuardHasRequest'
  BY <1>3, <1>8 DEF RequestInv, GuardHasRequest
<1>13. AnswersAreAwaited'
  <2>1. SUFFICES ASSUME NEW v \in Windows, NEW i \in DOMAIN down'[v], down'[v][i].kind \in Exits
                 PROVE  asks'[down'[v][i].ask].pc = "sent"
    BY DEF AnswersAreAwaited
  <2>2. CASE i \in DOMAIN down[v] /\ down'[v][i] = down[v][i]
    <3>1. asks[down[v][i].ask].pc = "sent" /\ down[v][i].ask \in DOMAIN asks
      BY <2>1, <2>2 DEF RequestInv, AnswersAreAwaited, Shape
    <3>2. QED
      BY <1>8, <2>2, <3>1
  <2>3. CASE asks[a].pc = "sent" /\ down'[v][i] = e
    BY <1>4, <1>8, <2>3
  <2>4. QED
    BY <1>9, <2>2, <2>3
<1>14. StreamIsCurrent'
  <2>1. SUFFICES ASSUME NEW v \in Windows, NEW i \in DOMAIN down'[v]
                 PROVE  /\ asks'[down'[v][i].ask].window = v
                        /\ asks'[down'[v][i].ask].pc \in {"sent", "lost"}
                        /\ down'[v][i].kind \in Exits =>
                             /\ asks'[down'[v][i].ask].agent = "ended"
                             /\ \A j \in DOMAIN down'[v] : j > i => down'[v][j].ask # down'[v][i].ask
    BY DEF StreamIsCurrent
  <2>2. CASE i \in DOMAIN down[v] /\ down'[v][i] = down[v][i]
    <3>1. /\ asks[down[v][i].ask].window = v
          /\ asks[down[v][i].ask].pc \in {"sent", "lost"}
          /\ down[v][i].kind \in Exits =>
               /\ asks[down[v][i].ask].agent = "ended"
               /\ \A j \in DOMAIN down[v] : j > i => down[v][j].ask # down[v][i].ask
      BY <2>2 DEF RequestInv, StreamIsCurrent
    <3>2. down[v][i].ask \in DOMAIN asks
      BY <2>2 DEF RequestInv, Shape
    <3>3. asks[down[v][i].ask].agent = "ended" => down[v][i].ask # a
      BY <1>3
    <3>4. QED
      BY <1>4, <1>8, <1>9, <2>2, <3>1, <3>2, <3>3
  <2>3. CASE asks[a].pc = "sent" /\ v = w /\ down'[v][i] = e /\ \A j \in DOMAIN down'[v] : ~ (j > i)
    BY <1>4, <1>7, <1>8, <2>3
  <2>4. QED
    BY <1>9, <2>2, <2>3
<1>15. QED
  BY <1>10, <1>11, <1>12, <1>13, <1>14 DEF RequestInv

\* An event handled leaves its request at the service.
LEMMA HandleQwenEventKeeps ==
  ASSUME RequestInv, NEW w \in Windows, HandleQwenEvent(w)
  PROVE  RequestInv'
<1>1. PICK S, C : asks \in Seq(AskOf(S, C))
  BY DEF RequestInv, Shape
<1> DEFINE a == Head(down[w]).ask
           r == [asks[a] EXCEPT !.shown = TRUE]
<1>2. /\ down[w] # <<>> /\ down' = [down EXCEPT ![w] = Tail(@)]
      /\ asks' = [asks EXCEPT ![a] = r]
      /\ processing' = processing
  BY DEF HandleQwenEvent
<1>3. down \in [Windows -> Seq(Event)]
  BY DEF RequestInv, Shape, Event
<1>4. /\ down' \in [Windows -> Seq(Event)]
      /\ 1 \in DOMAIN down[w] /\ Head(down[w]) = down[w][1]
  BY <1>2, <1>3, Taken
<1>5. a \in DOMAIN asks
  BY <1>4 DEF RequestInv, Shape
<1>6. asks[a] \in AskOf(S, C)
  BY <1>1, <1>5, AskFacts
<1>7. r \in AskOf(S, C) /\ r.window = asks[a].window /\ r.pc = asks[a].pc /\ r.agent = asks[a].agent
  BY <1>6 DEF AskOf
<1> HIDE DEF a, r
<1>8. /\ asks' \in Seq(AskOf(S, C)) /\ DOMAIN asks' = DOMAIN asks
      /\ \A i \in DOMAIN asks : /\ asks'[i].window = asks[i].window /\ asks'[i].pc = asks[i].pc
                                /\ asks'[i].agent = asks[i].agent
  <2>1. /\ asks' \in Seq(AskOf(S, C)) /\ DOMAIN asks' = DOMAIN asks
        /\ asks'[a] = r /\ \A i \in DOMAIN asks : i # a => asks'[i] = asks[i]
    BY <1>1, <1>2, <1>5, <1>7, Replaced
  <2>2. QED
    BY <1>7, <2>1, Zenon
<1>9. ASSUME NEW v \in Windows, NEW i \in DOMAIN down'[v]
      PROVE  /\ down'[v][i].ask \in DOMAIN asks'
             /\ asks'[down'[v][i].ask].window = v
             /\ asks'[down'[v][i].ask].pc \in {"sent", "lost"}
             /\ down'[v][i].kind \in Exits =>
                  /\ asks'[down'[v][i].ask].pc = "sent"
                  /\ asks'[down'[v][i].ask].agent = "ended"
                  /\ \A j \in DOMAIN down'[v] : j > i => down'[v][j].ask # down'[v][i].ask
  <2>1. /\ down'[v][i].ask \in DOMAIN asks
        /\ asks[down'[v][i].ask].window = v
        /\ asks[down'[v][i].ask].pc \in {"sent", "lost"}
        /\ down'[v][i].kind \in Exits =>
             /\ asks[down'[v][i].ask].pc = "sent"
             /\ asks[down'[v][i].ask].agent = "ended"
             /\ \A j \in DOMAIN down'[v] : j > i => down'[v][j].ask # down'[v][i].ask
    BY <1>2, <1>9, Remaining
  <2>2. QED
    BY <1>8, <2>1
<1>10. Shape'
  <2>1. \E R, D : asks' \in Seq(AskOf(R, D))
    BY <1>8
  <2>2. QED
    BY <1>2, <1>4, <1>9, <2>1 DEF RequestInv, Shape, Event
<1>11. AgentsHaveAsks' /\ GuardHasRequest'
  BY <1>2, <1>8 DEF RequestInv, AgentsHaveAsks, GuardHasRequest
<1>12. AnswersAreAwaited' /\ StreamIsCurrent'
  BY <1>9 DEF AnswersAreAwaited, StreamIsCurrent
<1>13. QED
  BY <1>10, <1>11, <1>12 DEF RequestInv

\* An answer ends its request or starts another attempt at it.
LEMMA AnswerChanges ==
  ASSUME RequestInv, NEW w \in Windows, HandleAnswer(w), NEW S, NEW C, asks \in Seq(AskOf(S, C))
  PROVE  LET a == Head(down[w]).ask
         IN  /\ 1 \in DOMAIN down[w] /\ Head(down[w]) = down[w][1]
             /\ a \in DOMAIN asks
             /\ asks[a].window = w /\ asks[a].pc = "sent" /\ asks[a].agent = "ended"
             /\ asks' \in Seq(AskOf(S, C)) /\ DOMAIN asks' = DOMAIN asks
             /\ \A i \in DOMAIN asks : i # a => asks'[i] = asks[i]
             /\ asks'[a].window = w
             /\ \/ /\ asks'[a].pc \in {"answered", "failed"} /\ asks'[a].agent = "ended"
                   /\ asks'[a].attempt = asks[a].attempt
                   /\ processing' = [processing EXCEPT ![w] = FALSE]
                \/ /\ asks'[a].pc = "sent" /\ asks'[a].agent = "running"
                   /\ asks[a].attempt < MaxRetries /\ asks'[a].attempt = asks[a].attempt + 1
                   /\ processing' = processing
<1> DEFINE a == Head(down[w]).ask
<1>1. down[w] # <<>> /\ Head(down[w]).kind \in Exits /\ down' = [down EXCEPT ![w] = Tail(@)]
  BY DEF HandleAnswer
<1>2. down \in [Windows -> Seq(Event)]
  BY DEF RequestInv, Shape, Event
<1>3. 1 \in DOMAIN down[w] /\ Head(down[w]) = down[w][1]
  BY <1>1, <1>2, Taken
<1>4. a \in DOMAIN asks /\ asks[a].window = w /\ asks[a].pc = "sent" /\ asks[a].agent = "ended"
  BY <1>1, <1>3, EventFacts
<1>5. asks[a] \in AskOf(S, C)
  BY <1>4, AskFacts
<1>6. Answered(w, a) \/ (asks[a].attempt < MaxRetries /\ Retry(w, a)) \/ Failed(w, a)
  BY DEF HandleAnswer
<1> HIDE DEF a
<1>7. PICK r \in AskOf(S, C) :
        /\ asks' = [asks EXCEPT ![a] = r] /\ r.window = w
        /\ \/ /\ r.pc \in {"answered", "failed"} /\ r.agent = "ended" /\ r.attempt = asks[a].attempt
              /\ processing' = [processing EXCEPT ![w] = FALSE]
           \/ /\ r.pc = "sent" /\ r.agent = "running"
              /\ asks[a].attempt < MaxRetries /\ r.attempt = asks[a].attempt + 1
              /\ processing' = processing
  <2>1. CASE Answered(w, a) \/ Failed(w, a)
    <3>1. PICK end \in {"answered", "failed"} :
            asks' = [asks EXCEPT ![a].pc = end] /\ processing' = [processing EXCEPT ![w] = FALSE]
      BY <2>1 DEF Answered, Failed
    <3> DEFINE r == [asks[a] EXCEPT !.pc = end]
    <3>2. /\ r \in AskOf(S, C) /\ r.window = w /\ r.pc = end /\ r.agent = "ended"
          /\ r.attempt = asks[a].attempt
      BY <1>4, <1>5, <3>1 DEF AskOf, PCs
    <3>3. asks' = [asks EXCEPT ![a] = r]
      BY <3>1
    <3> HIDE DEF r
    <3>4. QED
      BY <3>1, <3>2, <3>3
  <2>2. CASE asks[a].attempt < MaxRetries /\ Retry(w, a)
    <3> DEFINE r == [asks[a] EXCEPT !.attempt = @ + 1, !.agent = "running"]
    <3>1. asks[a].attempt \in 0 .. MaxRetries /\ MaxRetries \in Nat
      BY <1>5, LimitsAreNumbers DEF AskOf
    <3>2. asks[a].attempt + 1 \in 0 .. MaxRetries
      BY <2>2, <3>1
    <3>3. /\ r \in AskOf(S, C) /\ r.window = w /\ r.pc = "sent" /\ r.agent = "running"
          /\ r.attempt = asks[a].attempt + 1
      BY <1>4, <1>5, <3>2 DEF AskOf, PCs
    <3>4. asks' = [asks EXCEPT ![a] = r] /\ processing' = processing
      BY <2>2 DEF Retry
    <3> HIDE DEF r
    <3>5. QED
      BY <2>2, <3>3, <3>4
  <2>3. QED
    BY <1>6, <2>1, <2>2
<1>8. /\ asks' \in Seq(AskOf(S, C)) /\ DOMAIN asks' = DOMAIN asks
      /\ asks'[a] = r /\ \A i \in DOMAIN asks : i # a => asks'[i] = asks[i]
  BY <1>4, <1>7, Replaced
<1>9. QED
  BY <1>3, <1>4, <1>7, <1>8, Zenon DEF a

\* An answer releases the guard, or another attempt keeps it.
LEMMA HandleAnswerKeeps ==
  ASSUME RequestInv, NEW w \in Windows, HandleAnswer(w)
  PROVE  RequestInv'
<1>1. PICK S, C : asks \in Seq(AskOf(S, C))
  BY DEF RequestInv, Shape
<1> DEFINE a == Head(down[w]).ask
<1>2. /\ down[w] # <<>> /\ Head(down[w]).kind \in Exits /\ down' = [down EXCEPT ![w] = Tail(@)]
  BY DEF HandleAnswer
<1>3. down \in [Windows -> Seq(Event)] /\ processing \in [Windows -> BOOLEAN]
  BY DEF RequestInv, Shape, Event
<1>4. down' \in [Windows -> Seq(Event)]
  BY <1>2, <1>3, Taken
<1>5. a \in DOMAIN asks /\ asks[a].window = w /\ asks[a].pc = "sent"
  BY <1>1, AnswerChanges
<1>6. /\ asks' \in Seq(AskOf(S, C)) /\ DOMAIN asks' = DOMAIN asks
      /\ \A i \in DOMAIN asks : i # a => asks'[i] = asks[i]
      /\ asks'[a].window = w
      /\ \/ /\ asks'[a].pc \in {"answered", "failed"} /\ asks'[a].agent = "ended"
            /\ processing' = [processing EXCEPT ![w] = FALSE]
         \/ asks'[a].pc = "sent" /\ asks'[a].agent = "running" /\ processing' = processing
  BY <1>1, AnswerChanges
<1> HIDE DEF a
<1>7. ASSUME NEW v \in Windows, NEW i \in DOMAIN down'[v]
      PROVE  /\ down'[v][i].ask \in DOMAIN asks'
             /\ asks'[down'[v][i].ask].window = v
             /\ asks'[down'[v][i].ask].pc \in {"sent", "lost"}
             /\ down'[v][i].kind \in Exits =>
                  /\ asks'[down'[v][i].ask].pc = "sent"
                  /\ asks'[down'[v][i].ask].agent = "ended"
                  /\ \A j \in DOMAIN down'[v] : j > i => down'[v][j].ask # down'[v][i].ask
  <2>1. /\ down'[v][i].ask \in DOMAIN asks
        /\ asks[down'[v][i].ask].window = v
        /\ asks[down'[v][i].ask].pc \in {"sent", "lost"}
        /\ down'[v][i].kind \in Exits =>
             /\ asks[down'[v][i].ask].pc = "sent"
             /\ asks[down'[v][i].ask].agent = "ended"
             /\ \A j \in DOMAIN down'[v] : j > i => down'[v][j].ask # down'[v][i].ask
    <3>1. down[w] # <<>> /\ down' = [down EXCEPT ![w] = Tail(@)]
      BY <1>2
    <3>2. QED
      BY <1>7, <3>1, Remaining
  <2>2. down'[v][i].ask # a
    BY <1>2, <1>7, AnswerIsLast DEF a
  <2>3. QED
    BY <1>6, <2>1, <2>2
<1>8. Shape'
  <2>1. \E R, D : asks' \in Seq(AskOf(R, D))
    BY <1>6
  <2>2. processing' \in [Windows -> BOOLEAN]
    BY <1>3, <1>6
  <2>3. QED
    BY <1>4, <1>7, <2>1, <2>2 DEF RequestInv, Shape, Event
<1>9. AgentsHaveAsks'
  BY <1>6 DEF RequestInv, AgentsHaveAsks
<1>10. AnswersAreAwaited' /\ StreamIsCurrent'
  BY <1>7 DEF AnswersAreAwaited, StreamIsCurrent
<1>11. Guarded(asks, processing)
  BY <1>3, GuardIsGuarded DEF RequestInv, GuardHasRequest
<1>12. Guarded(asks', processing')
  <2>1. SUFFICES ASSUME NEW v \in Windows
                 PROVE  /\ processing'[v] => \E b \in DOMAIN asks' : asks'[b].window = v /\ asks'[b].pc = "sent"
                        /\ \A b \in DOMAIN asks' : asks'[b].window = v /\ asks'[b].pc = "sent" =>
                             /\ processing'[v]
                             /\ \A c \in DOMAIN asks' : asks'[c].window = v /\ asks'[c].pc = "sent" => c = b
    BY DEF Guarded
  <2>2. /\ processing[v] => \E b \in DOMAIN asks : asks[b].window = v /\ asks[b].pc = "sent"
        /\ \A b \in DOMAIN asks : asks[b].window = v /\ asks[b].pc = "sent" =>
             /\ processing[v]
             /\ \A c \in DOMAIN asks : asks[c].window = v /\ asks[c].pc = "sent" => c = b
    BY <1>11 DEF Guarded
  <2>3. CASE v # w
    <3>1. processing'[v] = processing[v]
      BY <1>3, <1>6, <2>3
    <3>2. \A b \in DOMAIN asks : asks[b].window = v => b # a /\ asks'[b] = asks[b]
      BY <1>5, <1>6, <2>3
    <3>3. \A b \in DOMAIN asks' : asks'[b].window = v => b # a /\ asks'[b] = asks[b]
      BY <1>6, <2>3
    <3>4. QED
      BY <1>6, <2>2, <3>1, <3>2, <3>3
  <2>4. CASE v = w
    <3>1. \A b \in DOMAIN asks : asks[b].window = w /\ asks[b].pc = "sent" => b = a
      BY <1>5, <2>2, <2>4
    <3>2. \A b \in DOMAIN asks' : asks'[b].window = w /\ asks'[b].pc = "sent" => b = a
      BY <1>6, <3>1
    <3>3. CASE asks'[a].pc = "sent" /\ processing' = processing
      <4>1. processing[w]
        BY <1>5, <2>2, <2>4
      <4>2. QED
        BY <1>5, <1>6, <2>4, <3>2, <3>3, <4>1
    <3>4. CASE asks'[a].pc # "sent" /\ processing' = [processing EXCEPT ![w] = FALSE]
      BY <1>3, <2>4, <3>2, <3>4
    <3>5. QED
      BY <1>6, <3>3, <3>4
  <2>5. QED
    BY <2>3, <2>4
<1>13. GuardHasRequest'
  BY <1>8, <1>12, GuardIsGuarded DEF Shape, GuardHasRequest
<1>14. QED
  BY <1>8, <1>9, <1>10, <1>13 DEF RequestInv

\* A reload forgets the window's requests and what was on its way.
LEMMA ReloadKeeps ==
  ASSUME RequestInv, NEW w \in Windows, Reload(w)
  PROVE  RequestInv'
<1>1. PICK S, C : asks \in Seq(AskOf(S, C))
  BY DEF RequestInv, Shape
<1>2. /\ down' = [down EXCEPT ![w] = <<>>]
      /\ processing' = [processing EXCEPT ![w] = FALSE]
      /\ asks' = [a \in DOMAIN asks |->
                    IF asks[a].window = w /\ asks[a].pc \in {"reading", "sent"}
                    THEN [asks[a] EXCEPT !.pc = "lost"] ELSE asks[a]]
  BY DEF Reload
<1>3. down \in [Windows -> Seq(Event)] /\ processing \in [Windows -> BOOLEAN]
  BY DEF RequestInv, Shape, Event
<1>4. DOMAIN asks' = DOMAIN asks
  BY <1>2
<1>5. ASSUME NEW a \in DOMAIN asks
      PROVE  /\ asks'[a] \in AskOf(S, C)
             /\ asks'[a].window = asks[a].window /\ asks'[a].agent = asks[a].agent
             /\ IF asks[a].window = w /\ asks[a].pc \in {"reading", "sent"}
                THEN asks'[a].pc = "lost" ELSE asks'[a].pc = asks[a].pc
  <2>1. asks[a] \in AskOf(S, C)
    BY <1>1, AskFacts
  <2>2. asks'[a] = IF asks[a].window = w /\ asks[a].pc \in {"reading", "sent"}
                   THEN [asks[a] EXCEPT !.pc = "lost"] ELSE asks[a]
    BY <1>2
  <2>3. QED
    BY <2>1, <2>2 DEF AskOf, PCs
<1>6. asks' \in Seq(AskOf(S, C))
  <2>1. Len(asks) \in Nat /\ DOMAIN asks = 1 .. Len(asks)
    BY <1>1
  <2>2. asks' \in [1 .. Len(asks) -> AskOf(S, C)]
    BY <1>2, <1>5, <2>1
  <2>3. QED
    BY <2>1, <2>2
<1>7. down' \in [Windows -> Seq(Event)] /\ down'[w] = <<>> /\ \A v \in Windows : v # w => down'[v] = down[v]
  BY <1>2, <1>3
<1>8. ASSUME NEW v \in Windows, NEW i \in DOMAIN down'[v]
      PROVE  /\ v # w /\ i \in DOMAIN down[v] /\ down'[v] = down[v]
             /\ down[v][i].ask \in DOMAIN asks
             /\ asks'[down[v][i].ask].window = v
             /\ asks'[down[v][i].ask].pc = asks[down[v][i].ask].pc
             /\ asks'[down[v][i].ask].agent = asks[down[v][i].ask].agent
  <2>1. v # w /\ i \in DOMAIN down[v] /\ down'[v] = down[v]
    BY <1>7, <1>8
  <2>2. down[v][i].ask \in DOMAIN asks /\ asks[down[v][i].ask].window = v
    BY <2>1, EventFacts
  <2>3. QED
    BY <1>5, <2>1, <2>2
<1>9. Shape'
  <2>1. \E R, D : asks' \in Seq(AskOf(R, D))
    BY <1>6
  <2>2. processing' \in [Windows -> BOOLEAN]
    BY <1>2, <1>3
  <2>3. \A v \in Windows : \A i \in DOMAIN down'[v] : down'[v][i].ask \in DOMAIN asks'
    BY <1>4, <1>8
  <2>4. QED
    BY <1>7, <2>1, <2>2, <2>3 DEF Shape, Event
<1>10. AgentsHaveAsks'
  BY <1>4, <1>5 DEF RequestInv, AgentsHaveAsks
<1>11. AnswersAreAwaited'
  BY <1>8, EventFacts DEF AnswersAreAwaited
<1>12. StreamIsCurrent'
  <2>1. SUFFICES ASSUME NEW v \in Windows, NEW i \in DOMAIN down'[v]
                 PROVE  /\ asks'[down'[v][i].ask].window = v
                        /\ asks'[down'[v][i].ask].pc \in {"sent", "lost"}
                        /\ down'[v][i].kind \in Exits =>
                             /\ asks'[down'[v][i].ask].agent = "ended"
                             /\ \A j \in DOMAIN down'[v] : j > i => down'[v][j].ask # down'[v][i].ask
    BY DEF StreamIsCurrent
  <2>2. QED
    BY <1>8, <2>1, EventFacts
<1>13. Guarded(asks, processing)
  BY <1>3, GuardIsGuarded DEF RequestInv, GuardHasRequest
<1>14. Guarded(asks', processing')
  BY <1>2, <1>3, <1>4, <1>5, <1>13 DEF Guarded
<1>15. GuardHasRequest'
  BY <1>9, <1>14, GuardIsGuarded DEF Shape, GuardHasRequest
<1>16. QED
  BY <1>9, <1>10, <1>11, <1>12, <1>15 DEF RequestInv

-----------------------------------------------------------------------------

\* There are no requests at first.
LEMMA RequestInvInit ==
  ASSUME Init
  PROVE  RequestInv
<1>1. asks = <<>> /\ processing = [w \in Windows |-> FALSE] /\ down = [w \in Windows |-> <<>>]
  BY DEF Init
<1>2. DOMAIN asks = {} /\ \A w \in Windows : DOMAIN down[w] = {}
  BY <1>1
<1>3. Shape
  <2>1. asks \in Seq(AskOf({}, {}))
    BY <1>1
  <2>2. down \in [Windows -> Seq(Event)]
    BY <1>1
  <2>3. QED
    BY <1>1, <1>2, <2>1, <2>2 DEF Shape, Event
<1>4. AgentsHaveAsks /\ AnswersAreAwaited /\ StreamIsCurrent
  BY <1>2 DEF AgentsHaveAsks, AnswersAreAwaited, StreamIsCurrent
<1>5. GuardHasRequest
  BY <1>1, <1>2 DEF GuardHasRequest
<1>6. QED
  BY <1>3, <1>4, <1>5 DEF RequestInv

\* Nothing of it depends on the rest of the pane.
LEMMA RequestInvStutter ==
  ASSUME RequestInv, UNCHANGED requestVars
  PROVE  RequestInv'
<1>1. asks' = asks /\ processing' = processing /\ down' = down
  BY DEF requestVars
<1>2. Shape'
  BY <1>1 DEF RequestInv, Shape
<1>3. AgentsHaveAsks' /\ AnswersAreAwaited'
  BY <1>1 DEF RequestInv, AgentsHaveAsks, AnswersAreAwaited
<1>4. GuardHasRequest'
  BY <1>1 DEF RequestInv, GuardHasRequest
<1>5. StreamIsCurrent'
  BY <1>1 DEF RequestInv, StreamIsCurrent
<1>6. QED
  BY <1>2, <1>3, <1>4, <1>5 DEF RequestInv

\* Every step keeps the ties between requests, guard and stream.
LEMMA RequestInvStep ==
  ASSUME RequestInv, [Next]_vars
  PROVE  RequestInv'
<1>1. CASE User
  <2>1. PICK w \in Windows :
          \/ \E long \in BOOLEAN : SendMessage(w, long)
          \/ CreateSession(w)
          \/ \E s \in Sessions(history[w]) :
               OpenSession(w, s) \/ RemoveSession(w, s) \/ PinSession(w, s) \/ RenameSession(w, s)
          \/ Reload(w)
          \/ \E f \in PathFiles \cup InlineFiles : AttachFile(w, f) \/ DropFile(w, f) \/ DetachFile(w, f)
    BY <1>1 DEF User
  <2>2. CASE \E long \in BOOLEAN : SendMessage(w, long)
    BY <2>2, SendMessageKeeps
  <2>3. CASE CreateSession(w)
    BY <2>3, RequestInvStutter DEF CreateSession, listVars, requestVars
  <2>4. CASE \E s \in Sessions(history[w]) :
               OpenSession(w, s) \/ RemoveSession(w, s) \/ PinSession(w, s) \/ RenameSession(w, s)
    BY <2>4, RequestInvStutter
       DEF OpenSession, RemoveSession, PinSession, RenameSession, listVars, requestVars
  <2>5. CASE Reload(w)
    BY <2>5, ReloadKeeps
  <2>6. CASE \E f \in PathFiles \cup InlineFiles : AttachFile(w, f) \/ DropFile(w, f) \/ DetachFile(w, f)
    BY <2>6, RequestInvStutter DEF AttachFile, DropFile, DetachFile, paneVars, requestVars
  <2>7. QED
    BY <2>1, <2>2, <2>3, <2>4, <2>5, <2>6
<1>2. CASE Pane
  <2>1. CASE \E a \in DOMAIN asks : AttachmentsRead(a)
    BY <2>1, AttachmentsReadKeeps
  <2>2. CASE \E w \in Windows : HandleQwenEvent(w)
    BY <2>2, HandleQwenEventKeeps
  <2>3. CASE \E w \in Windows : HandleAnswer(w)
    BY <2>3, HandleAnswerKeeps
  <2>4. CASE \E w \in Windows : \E f \in InlineFiles : FileRead(w, f)
    BY <2>4, RequestInvStutter DEF FileRead, paneVars, requestVars
  <2>5. QED
    BY <1>2, <2>1, <2>2, <2>3, <2>4 DEF Pane
<1>3. CASE Agent
  <2>1. CASE \E a \in DOMAIN asks : \E kind \in Events : Emit(a, kind)
    BY <2>1, EmitKeeps
  <2>2. CASE \E a \in DOMAIN asks : \E exit \in Exits : AgentExits(a, exit)
    BY <2>2, AgentExitsKeeps
  <2>3. QED
    BY <1>3, <2>1, <2>2 DEF Agent, AgentEnds
<1>4. CASE UNCHANGED vars
  BY <1>4, RequestInvStutter DEF vars, requestVars
<1>5. QED
  BY <1>1, <1>2, <1>3, <1>4 DEF Next

\* They hold throughout.
LEMMA RequestInvAlways == Spec => []RequestInv
<1>1. Init => RequestInv
  BY RequestInvInit
<1>2. RequestInv /\ [Next]_vars => RequestInv'
  BY RequestInvStep
<1>3. QED
  BY <1>1, <1>2, PTL DEF Spec

\* The guard of the service (processing, qwenChatService.ts) is set exactly
\* while a request of its window is in flight, and there is one at a time.
THEOREM GuardAlwaysHasRequest == Spec => []GuardHasRequest
<1>1. RequestInv => GuardHasRequest
  BY DEF RequestInv
<1>2. QED
  BY <1>1, RequestInvAlways, PTL

\* The stream of a window carries the events of the request in flight or of
\* one a reload has cut off, and nothing of a request after its answer.
THEOREM StreamAlwaysCurrent == Spec => []StreamIsCurrent
<1>1. RequestInv => StreamIsCurrent
  BY DEF RequestInv
<1>2. QED
  BY <1>1, RequestInvAlways, PTL

-----------------------------------------------------------------------------
(* Attachments *)

\* The cardinality of a set means something when the set is finite.
AttachInv ==
  /\ attached \in [Windows -> SUBSET (PathFiles \cup InlineFiles)]
  /\ \A w \in Windows : IsFiniteSet(attached[w]) /\ Cardinality(attached[w]) <= MaxFiles

\* A file is attached only below the limit.
LEMMA AttachKeeps ==
  ASSUME AttachInv, NEW w \in Windows, NEW f \in PathFiles \cup InlineFiles, Attach(w, f)
  PROVE  AttachInv'
<1>1. attached' = [attached EXCEPT ![w] = IF Cardinality(@) < MaxFiles THEN @ \cup {f} ELSE @]
  BY DEF Attach
<1>2. attached' \in [Windows -> SUBSET (PathFiles \cup InlineFiles)]
  BY <1>1 DEF AttachInv
<1>3. IsFiniteSet(attached[w]) /\ Cardinality(attached[w]) <= MaxFiles /\ Cardinality(attached[w]) \in Nat
  BY FS_CardinalityType DEF AttachInv
<1>4. /\ IsFiniteSet(attached[w] \cup {f})
      /\ \/ Cardinality(attached[w] \cup {f}) = Cardinality(attached[w])
         \/ Cardinality(attached[w] \cup {f}) = Cardinality(attached[w]) + 1
  BY <1>3, FS_AddElement
<1>5. IsFiniteSet(attached'[w]) /\ Cardinality(attached'[w]) <= MaxFiles
  <2>1. CASE Cardinality(attached[w]) < MaxFiles
    <3>1. attached'[w] = attached[w] \cup {f}
      BY <1>1, <2>1 DEF AttachInv
    <3>2. QED
      BY <1>3, <1>4, <2>1, <3>1, LimitsAreNumbers
  <2>2. CASE ~ Cardinality(attached[w]) < MaxFiles
    <3>1. attached'[w] = attached[w]
      BY <1>1, <2>2 DEF AttachInv
    <3>2. QED
      BY <1>3, <3>1
  <2>3. QED
    BY <2>1, <2>2
<1>6. \A v \in Windows : v # w => attached'[v] = attached[v]
  BY <1>1 DEF AttachInv
<1>7. QED
  BY <1>2, <1>5, <1>6 DEF AttachInv

\* The files of a window become fewer, or stay as they are.
LEMMA FewerKeeps ==
  ASSUME AttachInv, NEW w \in Windows, NEW kept \in SUBSET attached[w],
         attached' = [attached EXCEPT ![w] = kept]
  PROVE  AttachInv'
<1>1. IsFiniteSet(attached[w]) /\ Cardinality(attached[w]) <= MaxFiles /\ Cardinality(attached[w]) \in Nat
  BY FS_CardinalityType DEF AttachInv
<1>2. IsFiniteSet(kept) /\ Cardinality(kept) <= Cardinality(attached[w])
  BY <1>1, FS_Subset
<1>3. Cardinality(kept) \in Nat
  BY <1>2, FS_CardinalityType
<1>4. Cardinality(kept) <= MaxFiles
  BY <1>1, <1>2, <1>3, LimitsAreNumbers
<1>5. /\ attached' \in [Windows -> SUBSET (PathFiles \cup InlineFiles)]
      /\ attached'[w] = kept /\ \A v \in Windows : v # w => attached'[v] = attached[v]
  BY DEF AttachInv
<1>6. QED
  BY <1>2, <1>4, <1>5 DEF AttachInv

\* Every step keeps the limit.
LEMMA AttachInvStep ==
  ASSUME AttachInv, [Next]_vars
  PROVE  AttachInv'
<1>1. ASSUME attached' = attached PROVE AttachInv'
  BY <1>1 DEF AttachInv
<1>2. CASE User
  <2>1. PICK w \in Windows :
          \/ \E long \in BOOLEAN : SendMessage(w, long)
          \/ CreateSession(w)
          \/ \E s \in Sessions(history[w]) :
               OpenSession(w, s) \/ RemoveSession(w, s) \/ PinSession(w, s) \/ RenameSession(w, s)
          \/ Reload(w)
          \/ \E f \in PathFiles \cup InlineFiles : AttachFile(w, f) \/ DropFile(w, f) \/ DetachFile(w, f)
    BY <1>2 DEF User
  <2>2. CASE (\E long \in BOOLEAN : SendMessage(w, long)) \/ Reload(w)
    <3>1. attached' = [attached EXCEPT ![w] = {}]
      BY <2>2 DEF SendMessage, Reload
    <3>2. QED
      BY <3>1, FewerKeeps
  <2>3. CASE CreateSession(w)
    BY <1>1, <2>3 DEF CreateSession, listVars
  <2>4. CASE \E s \in Sessions(history[w]) :
               OpenSession(w, s) \/ RemoveSession(w, s) \/ PinSession(w, s) \/ RenameSession(w, s)
    BY <1>1, <2>4 DEF OpenSession, RemoveSession, PinSession, RenameSession, listVars
  <2>5. ASSUME NEW f \in PathFiles \cup InlineFiles, AttachFile(w, f)
        PROVE  AttachInv'
    BY <2>5, AttachKeeps DEF AttachFile
  <2>6. ASSUME NEW f \in PathFiles \cup InlineFiles, DropFile(w, f)
        PROVE  AttachInv'
    BY <1>1, <2>6 DEF DropFile
  <2>7. ASSUME NEW f \in PathFiles \cup InlineFiles, DetachFile(w, f)
        PROVE  AttachInv'
    <3>1. attached' = [attached EXCEPT ![w] = attached[w] \ {f}]
      BY <2>7 DEF DetachFile
    <3>2. attached[w] \ {f} \in SUBSET attached[w]
      OBVIOUS
    <3>3. QED
      BY <3>1, <3>2, FewerKeeps
  <2>8. QED
    BY <2>1, <2>2, <2>3, <2>4, <2>5, <2>6, <2>7
<1>3. CASE Pane
  <2>1. CASE \E a \in DOMAIN asks : AttachmentsRead(a)
    BY <1>1, <2>1 DEF AttachmentsRead
  <2>2. CASE \E w \in Windows : HandleQwenEvent(w) \/ HandleAnswer(w)
    BY <1>1, <2>2 DEF HandleQwenEvent, HandleAnswer
  <2>3. CASE \E w \in Windows : \E f \in InlineFiles : FileRead(w, f)
    BY <2>3, AttachKeeps DEF FileRead
  <2>4. QED
    BY <1>3, <2>1, <2>2, <2>3 DEF Pane
<1>4. CASE Agent
  BY <1>1, <1>4 DEF Agent, AgentEnds, Emit, AgentExits
<1>5. CASE UNCHANGED vars
  BY <1>1, <1>5 DEF vars
<1>6. QED
  BY <1>2, <1>3, <1>4, <1>5 DEF Next

\* It holds throughout.
LEMMA AttachInvAlways == Spec => []AttachInv
<1>1. Init => AttachInv
  BY FS_EmptySet, LimitsAreNumbers DEF Init, AttachInv
<1>2. AttachInv /\ [Next]_vars => AttachInv'
  BY AttachInvStep
<1>3. QED
  BY <1>1, <1>2, PTL DEF Spec

\* No more than MAX_ATTACHED_FILES files are attached, in whatever order the
\* files that were dropped come to be read.
THEOREM AttachmentsAlwaysLimited == Spec => []AttachmentsAreLimited
<1>1. AttachInv => AttachmentsAreLimited
  BY DEF AttachInv, AttachmentsAreLimited
<1>2. QED
  BY <1>1, AttachInvAlways, PTL

ReadingInv == reading \in [Windows -> SUBSET InlineFiles]

\* Only dropped files are read.
LEMMA ReadingInvAlways == Spec => []ReadingInv
<1>1. Init => ReadingInv
  BY DEF Init, ReadingInv
<1>2. ASSUME ReadingInv, [Next]_vars
      PROVE  ReadingInv'
  <2>1. \/ reading' = reading
        \/ \E w \in Windows : \E f \in InlineFiles : reading' = [reading EXCEPT ![w] = @ \cup {f}]
        \/ \E w \in Windows : \E f \in InlineFiles : reading' = [reading EXCEPT ![w] = @ \ {f}]
        \/ \E w \in Windows : reading' = [reading EXCEPT ![w] = {}]
    <3>1. CASE User
      <4>1. PICK w \in Windows :
              \/ \E long \in BOOLEAN : SendMessage(w, long)
              \/ CreateSession(w)
              \/ \E s \in Sessions(history[w]) :
                   OpenSession(w, s) \/ RemoveSession(w, s) \/ PinSession(w, s) \/ RenameSession(w, s)
              \/ Reload(w)
              \/ \E f \in PathFiles \cup InlineFiles : AttachFile(w, f) \/ DropFile(w, f) \/ DetachFile(w, f)
        BY <3>1 DEF User
      <4>2. CASE \/ \E long \in BOOLEAN : SendMessage(w, long)
                 \/ CreateSession(w)
                 \/ \E s \in Sessions(history[w]) :
                      OpenSession(w, s) \/ RemoveSession(w, s) \/ PinSession(w, s) \/ RenameSession(w, s)
        BY <4>2 DEF SendMessage, CreateSession, OpenSession, RemoveSession, PinSession, RenameSession, listVars
      <4>3. CASE Reload(w)
        BY <4>3 DEF Reload
      <4>4. CASE \E f \in PathFiles \cup InlineFiles : AttachFile(w, f) \/ DropFile(w, f) \/ DetachFile(w, f)
        BY <4>4 DEF AttachFile, DropFile, DetachFile
      <4>5. QED
        BY <4>1, <4>2, <4>3, <4>4
    <3>2. CASE Pane
      BY <3>2 DEF Pane, AttachmentsRead, HandleQwenEvent, HandleAnswer, FileRead
    <3>3. CASE Agent
      BY <3>3 DEF Agent, AgentEnds, Emit, AgentExits
    <3>4. CASE UNCHANGED vars
      BY <3>4 DEF vars
    <3>5. QED
      BY <1>2, <3>1, <3>2, <3>3, <3>4 DEF Next
  <2>2. QED
    BY <1>2, <2>1 DEF ReadingInv
<1>3. QED
  BY <1>1, <1>2, PTL DEF Spec

-----------------------------------------------------------------------------
(* Rows *)

\* Asks of w that nothing was heard of yet, or that were answered without an
\* event.
Silent(some, w) ==
  {a \in DOMAIN some : /\ some[a].window = w /\ ~ some[a].shown
                       /\ some[a].pc \in {"reading", "sent", "answered"}}

RowsInv ==
  /\ rows \in [Windows -> Nat]
  /\ \A w \in Windows : rows[w] <= Cardinality(Silent(asks, w))

\* There are finitely many asks nothing was heard of.
LEMMA SilentFinite ==
  ASSUME NEW some, \E S, C : some \in Seq(AskOf(S, C)), NEW w
  PROVE  IsFiniteSet(Silent(some, w))
<1>1. PICK S, C : some \in Seq(AskOf(S, C))
  OBVIOUS
<1>2. Len(some) \in Nat /\ DOMAIN some = 1 .. Len(some)
  BY <1>1
<1>3. IsFiniteSet(1 .. Len(some))
  BY <1>2, FS_Interval
<1>4. Silent(some, w) \in SUBSET (1 .. Len(some))
  BY <1>2 DEF Silent
<1>5. QED
  BY <1>3, <1>4, FS_Subset

\* One ask at most is no longer silent, and one row fewer is there.
LEMMA RowTaken ==
  ASSUME NEW A, IsFiniteSet(A), NEW B, IsFiniteSet(B), NEW x, A \ {x} \subseteq B,
         NEW n \in Nat, n <= Cardinality(A)
  PROVE  Fewer(n) \in Nat /\ Fewer(n) <= Cardinality(B)
<1>1. /\ IsFiniteSet(A \ {x})
      /\ Cardinality(A \ {x}) = IF x \in A THEN Cardinality(A) - 1 ELSE Cardinality(A)
  BY FS_RemoveElement
<1>2. Cardinality(A) \in Nat /\ Cardinality(B) \in Nat /\ Cardinality(A \ {x}) \in Nat
  BY <1>1, FS_CardinalityType
<1>3. Cardinality(A \ {x}) <= Cardinality(B)
  BY FS_Subset
<1>4. QED
  BY <1>1, <1>2, <1>3 DEF Fewer

\* One ask more is silent, and one row more is there.
LEMMA RowAdded ==
  ASSUME NEW A, IsFiniteSet(A), NEW B, IsFiniteSet(B), NEW x, x \notin A, A \cup {x} \subseteq B,
         NEW n \in Nat, n <= Cardinality(A)
  PROVE  n + 1 <= Cardinality(B)
<1>1. IsFiniteSet(A \cup {x}) /\ Cardinality(A \cup {x}) = Cardinality(A) + 1
  BY FS_AddElement
<1>2. Cardinality(A) \in Nat /\ Cardinality(B) \in Nat
  BY FS_CardinalityType
<1>3. Cardinality(A \cup {x}) <= Cardinality(B)
  BY FS_Subset
<1>4. QED
  BY <1>1, <1>2, <1>3

\* Fewer rows than asks stay fewer when asks are added.
LEMMA RowKept ==
  ASSUME NEW A, IsFiniteSet(A), NEW B, IsFiniteSet(B), A \subseteq B, NEW n \in Nat, n <= Cardinality(A)
  PROVE  n <= Cardinality(B)
<1>1. Cardinality(A) \in Nat /\ Cardinality(B) \in Nat
  BY FS_CardinalityType
<1>2. Cardinality(A) <= Cardinality(B)
  BY FS_Subset
<1>3. QED
  BY <1>1, <1>2

\* Only ask a, of window w, changes or is new.
LEMMA OthersStaySilent ==
  ASSUME NEW some, NEW after, NEW a, NEW w,
         \A i \in DOMAIN some : i # a => i \in DOMAIN after /\ after[i] = some[i],
         a \in DOMAIN some => some[a].window = w
  PROVE  /\ Silent(some, w) \ {a} \subseteq Silent(after, w)
         /\ \A v \in Windows : v # w => Silent(some, v) \subseteq Silent(after, v)
BY DEF Silent

\* What is left to show of a step when only window w has other rows.
LEMMA RowsOfOne ==
  ASSUME Shape, Shape', RowsInv, NEW w \in Windows, NEW n \in Nat,
         rows' = [rows EXCEPT ![w] = n], n <= Cardinality(Silent(asks', w)),
         \A v \in Windows : v # w => Silent(asks, v) \subseteq Silent(asks', v)
  PROVE  RowsInv'
<1>1. rows' \in [Windows -> Nat] /\ rows'[w] = n /\ \A v \in Windows : v # w => rows'[v] = rows[v]
  BY DEF RowsInv
<1>2. ASSUME NEW v \in Windows, v # w
      PROVE  rows'[v] <= Cardinality(Silent(asks', v))
  <2>1. IsFiniteSet(Silent(asks, v)) /\ IsFiniteSet(Silent(asks', v))
    BY SilentFinite DEF Shape
  <2>2. rows[v] \in Nat /\ rows[v] <= Cardinality(Silent(asks, v)) /\ rows'[v] = rows[v]
    BY <1>1, <1>2 DEF RowsInv
  <2>3. Silent(asks, v) \subseteq Silent(asks', v)
    BY <1>2
  <2>4. rows[v] <= Cardinality(Silent(asks', v))
    BY <2>1, <2>2, <2>3, RowKept
  <2>5. QED
    BY <2>2, <2>4
<1>3. \A v \in Windows : rows'[v] <= Cardinality(Silent(asks', v))
  BY <1>1, <1>2
<1>4. QED
  BY <1>1, <1>3 DEF RowsInv, Silent

\* The rows of all windows stay, and no silent ask is lost.
LEMMA RowsUnchanged ==
  ASSUME Shape, Shape', RowsInv, rows' = rows,
         \A v \in Windows : Silent(asks, v) \subseteq Silent(asks', v)
  PROVE  RowsInv'
<1>1. ASSUME NEW v \in Windows
      PROVE  rows'[v] <= Cardinality(Silent(asks', v))
  <2>1. IsFiniteSet(Silent(asks, v)) /\ IsFiniteSet(Silent(asks', v))
    BY SilentFinite DEF Shape
  <2>2. rows[v] \in Nat /\ rows[v] <= Cardinality(Silent(asks, v)) /\ rows'[v] = rows[v]
    BY DEF RowsInv
  <2>3. Silent(asks, v) \subseteq Silent(asks', v)
    OBVIOUS
  <2>4. rows[v] <= Cardinality(Silent(asks', v))
    BY <2>1, <2>2, <2>3, RowKept
  <2>5. QED
    BY <2>2, <2>4
<1>2. QED
  BY <1>1 DEF RowsInv, Silent

\* The row of ask a is taken, and only ask a changes.
LEMMA RowOfAsk ==
  ASSUME Shape, Shape', RowsInv, NEW w \in Windows, rows' = [rows EXCEPT ![w] = Fewer(@)], NEW a,
         \A i \in DOMAIN asks : i # a => i \in DOMAIN asks' /\ asks'[i] = asks[i],
         a \in DOMAIN asks => asks[a].window = w
  PROVE  RowsInv'
<1>1. rows[w] \in Nat /\ rows[w] <= Cardinality(Silent(asks, w))
  BY DEF RowsInv
<1>2. IsFiniteSet(Silent(asks, w)) /\ IsFiniteSet(Silent(asks', w))
  BY SilentFinite DEF Shape
<1>3. /\ Silent(asks, w) \ {a} \subseteq Silent(asks', w)
      /\ \A v \in Windows : v # w => Silent(asks, v) \subseteq Silent(asks', v)
  BY OthersStaySilent
<1>4. Fewer(rows[w]) \in Nat /\ Fewer(rows[w]) <= Cardinality(Silent(asks', w))
  BY <1>1, <1>2, <1>3, RowTaken
<1>5. rows' = [rows EXCEPT ![w] = Fewer(rows[w])]
  BY DEF RowsInv
<1>6. QED
  BY <1>3, <1>4, <1>5, RowsOfOne

\* The rows of w go, and no other window is concerned.
LEMMA RowsCleared ==
  ASSUME Shape, Shape', RowsInv, NEW w \in Windows, rows' = [rows EXCEPT ![w] = 0],
         \A v \in Windows : v # w => Silent(asks, v) \subseteq Silent(asks', v)
  PROVE  RowsInv'
<1>1. IsFiniteSet(Silent(asks', w))
  BY SilentFinite DEF Shape
<1>2. Cardinality(Silent(asks', w)) \in Nat
  BY <1>1, FS_CardinalityType
<1>3. 0 \in Nat /\ 0 <= Cardinality(Silent(asks', w))
  BY <1>2
<1>4. QED
  BY <1>3, RowsOfOne

\* A message with its row: the guard is looked at in the same step, or later.
LEMMA SendMessageKeepsRows ==
  ASSUME RequestInv, RequestInv', RowsInv, NEW w \in Windows, NEW long \in BOOLEAN, SendMessage(w, long)
  PROVE  RowsInv'
<1> DEFINE a == Len(asks) + 1
           m == [ask |-> a, kind |-> "user"]
           c == Compacted(Append(context[w], m), long)
           session == IF HasActive(history[w]) THEN history[w].active ELSE made + 1
           ask == [window |-> w, pc |-> "reading", attempt |-> 0, agent |-> "none", shown |-> FALSE,
                   session |-> session, context |-> c]
           before == Append(asks, ask)
<1>1. \/ Submit(w, a, before, <<m>>, 1)
      \/ asks' = before /\ rows' = [rows EXCEPT ![w] = @ + 1]
  BY DEF SendMessage
<1>2. PICK S, C : asks \in Seq(AskOf(S, C))
  BY DEF RequestInv, Shape
<1>3. /\ ask.window = w /\ ask.pc = "reading" /\ ~ ask.shown
      /\ a \notin DOMAIN asks /\ a \in DOMAIN before /\ before[a] = ask
      /\ \A i \in DOMAIN asks : i \in DOMAIN before /\ i # a /\ before[i] = asks[i]
  <2>1. ask.window = w /\ ask.pc = "reading" /\ ~ ask.shown
    OBVIOUS
  <2> HIDE DEF ask
  <2>2. /\ Len(asks) \in Nat /\ DOMAIN asks = 1 .. Len(asks)
        /\ DOMAIN before = 1 .. Len(asks) + 1
        /\ before[Len(asks) + 1] = ask
        /\ \A i \in 1 .. Len(asks) : before[i] = asks[i]
    BY <1>2
  <2>3. QED
    BY <2>1, <2>2
<1>4. rows[w] \in Nat /\ rows[w] <= Cardinality(Silent(asks, w))
  BY DEF RowsInv
<1>5. IsFiniteSet(Silent(asks, w)) /\ IsFiniteSet(Silent(asks', w))
  BY SilentFinite DEF RequestInv, Shape
<1>6. a \notin Silent(asks, w)
  BY <1>3 DEF Silent
<1> HIDE DEF a, m, c, session, ask, before
<1>7. ASSUME \A i \in DOMAIN asks : i \in DOMAIN asks' /\ asks'[i] = asks[i]
      PROVE  \A v \in Windows : Silent(asks, v) \subseteq Silent(asks', v)
  BY <1>7 DEF Silent
<1>8. ASSUME \A i \in DOMAIN asks : i \in DOMAIN asks' /\ asks'[i] = asks[i],
             a \in Silent(asks', w), rows' = [rows EXCEPT ![w] = @ + 1]
      PROVE  RowsInv'
  <2>1. Silent(asks, w) \cup {a} \subseteq Silent(asks', w)
    BY <1>7, <1>8
  <2>2. rows[w] + 1 <= Cardinality(Silent(asks', w))
    BY <1>4, <1>5, <1>6, <2>1, RowAdded
  <2>3. rows' = [rows EXCEPT ![w] = rows[w] + 1]
    BY <1>8
  <2>4. rows[w] + 1 \in Nat
    BY <1>4
  <2>5. QED
    BY <1>7, <1>8, <2>2, <2>3, <2>4, RowsOfOne DEF RequestInv
<1>9. CASE asks' = before /\ rows' = [rows EXCEPT ![w] = @ + 1]
  BY <1>3, <1>8, <1>9 DEF Silent
<1>10. CASE asks' = [before EXCEPT ![a].pc = "sent", ![a].agent = "running"] /\ rows' = [rows EXCEPT ![w] = @ + 1]
  <2>1. a \in DOMAIN asks' /\ asks'[a].window = w /\ ~ asks'[a].shown /\ asks'[a].pc = "sent"
    BY <1>3, <1>10 DEF ask
  <2>2. \A i \in DOMAIN asks : i \in DOMAIN asks' /\ asks'[i] = asks[i]
    BY <1>3, <1>10
  <2>3. QED
    BY <1>8, <1>10, <2>1, <2>2 DEF Silent
<1>11. CASE asks' = [before EXCEPT ![a].pc = "refused"] /\ rows' = [rows EXCEPT ![w] = Fewer(@ + 1)]
  <2>1. \A i \in DOMAIN asks : i \in DOMAIN asks' /\ asks'[i] = asks[i]
    BY <1>3, <1>11
  <2>2. Fewer(rows[w] + 1) = rows[w]
    BY <1>4 DEF Fewer
  <2>3. rows' = rows
    BY <1>11, <2>2 DEF RowsInv
  <2>4. QED
    BY <1>7, <2>1, <2>3, RowsUnchanged DEF RequestInv
<1>12. QED
  BY <1>1, <1>9, <1>10, <1>11 DEF Submit

\* A message that is sent or refused has no more rows than before.
LEMMA AttachmentsReadKeepsRows ==
  ASSUME RequestInv, RequestInv', RowsInv, NEW a \in DOMAIN asks, AttachmentsRead(a)
  PROVE  RowsInv'
<1>1. PICK S, C : asks \in Seq(AskOf(S, C))
  BY DEF RequestInv, Shape
<1> DEFINE w == asks[a].window
<1>2. w \in Windows /\ asks[a] \in AskOf(S, C)
  BY <1>1, AskFacts
<1>3. asks[a].pc = "reading" /\ Submit(w, a, asks, <<>>, 0)
  BY DEF AttachmentsRead
<1>4. rows \in [Windows -> Nat] /\ rows[w] \in Nat /\ rows[w] + 0 = rows[w]
  BY <1>2 DEF RowsInv
<1>5. CASE asks' = [asks EXCEPT ![a].pc = "sent", ![a].agent = "running"] /\ rows' = [rows EXCEPT ![w] = @ + 0]
  <2>1. rows' = rows
    BY <1>4, <1>5
  <2> DEFINE r == [asks[a] EXCEPT !.pc = "sent", !.agent = "running"]
  <2>2. r.window = asks[a].window /\ r.shown = asks[a].shown /\ r.pc = "sent"
    BY <1>2 DEF AskOf
  <2>3. asks' = [asks EXCEPT ![a] = r]
    BY <1>5
  <2> HIDE DEF r
  <2>4. DOMAIN asks' = DOMAIN asks /\ asks'[a] = r /\ \A i \in DOMAIN asks : i # a => asks'[i] = asks[i]
    BY <2>3
  <2>5. \A v \in Windows : Silent(asks, v) \subseteq Silent(asks', v)
    BY <2>2, <2>4 DEF Silent
  <2>6. QED
    BY <2>1, <2>5, RowsUnchanged DEF RequestInv
<1>6. CASE asks' = [asks EXCEPT ![a].pc = "refused"] /\ rows' = [rows EXCEPT ![w] = Fewer(@ + 0)]
  <2>1. rows' = [rows EXCEPT ![w] = Fewer(@)]
    BY <1>4, <1>6
  <2>2. \A i \in DOMAIN asks : i # a => i \in DOMAIN asks' /\ asks'[i] = asks[i]
    BY <1>6
  <2>3. QED
    BY <1>2, <2>1, <2>2, RowOfAsk DEF RequestInv
<1>7. QED
  BY <1>3, <1>5, <1>6 DEF Submit

\* An event takes a row and is heard of its ask.
LEMMA HandleQwenEventKeepsRows ==
  ASSUME RequestInv, RequestInv', RowsInv, NEW w \in Windows, HandleQwenEvent(w)
  PROVE  RowsInv'
<1> DEFINE a == Head(down[w]).ask
<1>1. 1 \in DOMAIN down[w] /\ Head(down[w]) = down[w][1]
  <2>1. down[w] # <<>> /\ down[w] \in Seq([ask : Nat, kind : Events \cup Exits])
    BY DEF HandleQwenEvent, RequestInv, Shape
  <2>2. QED
    BY <2>1
<1>2. a \in DOMAIN asks /\ asks[a].window = w
  BY <1>1, EventFacts
<1>3. rows' = [rows EXCEPT ![w] = Fewer(@)] /\ asks' = [asks EXCEPT ![a].shown = TRUE]
  BY DEF HandleQwenEvent
<1> HIDE DEF a
<1>4. \A i \in DOMAIN asks : i # a => i \in DOMAIN asks' /\ asks'[i] = asks[i]
  BY <1>3
<1>5. QED
  BY <1>2, <1>3, <1>4, RowOfAsk DEF RequestInv

\* An answer, a retry or a failure leaves no more rows than silent asks.
LEMMA HandleAnswerKeepsRows ==
  ASSUME RequestInv, RequestInv', RowsInv, NEW w \in Windows, HandleAnswer(w)
  PROVE  RowsInv'
<1> DEFINE a == Head(down[w]).ask
<1>1. 1 \in DOMAIN down[w] /\ Head(down[w]) = down[w][1] /\ Head(down[w]).kind \in Exits
  <2>1. down[w] # <<>> /\ down[w] \in Seq([ask : Nat, kind : Events \cup Exits])
    BY DEF HandleAnswer, RequestInv, Shape
  <2>2. QED
    BY <2>1 DEF HandleAnswer
<1>2. a \in DOMAIN asks /\ asks[a].window = w /\ asks[a].pc = "sent"
  BY <1>1, EventFacts
<1>3. Answered(w, a) \/ Retry(w, a) \/ Failed(w, a)
  BY DEF HandleAnswer
<1>4. PICK S, C : asks \in Seq(AskOf(S, C))
  BY DEF RequestInv, Shape
<1>5. asks[a] \in AskOf(S, C)
  BY <1>2, <1>4, AskFacts
<1> HIDE DEF a
<1>6. CASE Answered(w, a)
  <2> DEFINE r == [asks[a] EXCEPT !.pc = "answered"]
  <2>1. r.window = asks[a].window /\ r.shown = asks[a].shown /\ r.pc = "answered"
    BY <1>5 DEF AskOf
  <2>2. asks' = [asks EXCEPT ![a] = r] /\ rows' = rows
    BY <1>6 DEF Answered
  <2> HIDE DEF r
  <2>3. DOMAIN asks' = DOMAIN asks /\ asks'[a] = r /\ \A i \in DOMAIN asks : i # a => asks'[i] = asks[i]
    BY <1>2, <2>2
  <2>4. \A v \in Windows : Silent(asks, v) \subseteq Silent(asks', v)
    BY <2>1, <2>3 DEF Silent
  <2>5. QED
    BY <2>2, <2>4, RowsUnchanged DEF RequestInv
<1>7. CASE Retry(w, a)
  <2> DEFINE r == [asks[a] EXCEPT !.attempt = @ + 1, !.agent = "running"]
  <2>1. r.window = asks[a].window /\ r.shown = asks[a].shown /\ r.pc = asks[a].pc
    BY <1>5 DEF AskOf
  <2>2. asks' = [asks EXCEPT ![a] = r] /\ rows' = rows
    BY <1>7 DEF Retry
  <2> HIDE DEF r
  <2>3. DOMAIN asks' = DOMAIN asks /\ asks'[a] = r /\ \A i \in DOMAIN asks : i # a => asks'[i] = asks[i]
    BY <1>2, <2>2
  <2>4. \A v \in Windows : Silent(asks, v) \subseteq Silent(asks', v)
    BY <2>1, <2>3 DEF Silent
  <2>5. QED
    BY <2>2, <2>4, RowsUnchanged DEF RequestInv
<1>8. CASE Failed(w, a)
  <2>1. rows' = [rows EXCEPT ![w] = Fewer(@)] /\ asks' = [asks EXCEPT ![a].pc = "failed"]
    BY <1>8 DEF Failed
  <2>2. \A i \in DOMAIN asks : i # a => i \in DOMAIN asks' /\ asks'[i] = asks[i]
    BY <2>1
  <2>3. QED
    BY <1>2, <2>1, <2>2, RowOfAsk DEF RequestInv
<1>9. QED
  BY <1>3, <1>6, <1>7, <1>8

\* A reload leaves no rows.
LEMMA ReloadKeepsRows ==
  ASSUME RequestInv, RequestInv', RowsInv, NEW w \in Windows, Reload(w)
  PROVE  RowsInv'
<1>1. rows' = [rows EXCEPT ![w] = 0]
  BY DEF Reload, ShowSession
<1>2. DOMAIN asks' = DOMAIN asks /\ \A a \in DOMAIN asks : asks[a].window # w => asks'[a] = asks[a]
  BY DEF Reload
<1>3. \A v \in Windows : v # w => Silent(asks, v) \subseteq Silent(asks', v)
  BY <1>2 DEF Silent
<1>4. QED
  BY <1>1, <1>3, RowsCleared DEF RequestInv

\* Another conversation is shown, or the list changes behind the one on show.
LEMMA ListKeepsRows ==
  ASSUME RequestInv, RequestInv', RowsInv, NEW w \in Windows, UNCHANGED listVars,
         rows' = rows \/ \E h : ShowSession(w, h)
  PROVE  RowsInv'
<1>1. asks' = asks
  BY DEF listVars
<1>2. \A v \in Windows : Silent(asks, v) \subseteq Silent(asks', v)
  BY <1>1
<1>3. CASE rows' = rows
  BY <1>2, <1>3, RowsUnchanged DEF RequestInv
<1>4. CASE \E h : ShowSession(w, h)
  <2>1. rows' = [rows EXCEPT ![w] = 0]
    BY <1>4 DEF ShowSession
  <2>2. QED
    BY <1>2, <2>1, RowsCleared DEF RequestInv
<1>5. QED
  BY <1>3, <1>4

\* The agent's own steps.
LEMMA AgentKeepsRows ==
  ASSUME RequestInv, RequestInv', RowsInv, Agent
  PROVE  RowsInv'
<1>1. PICK a \in DOMAIN asks :
        (\E kind \in Events : Emit(a, kind)) \/ (\E exit \in Exits : AgentExits(a, exit))
  BY DEF Agent, AgentEnds
<1>2. CASE \E kind \in Events : Emit(a, kind)
  <2>1. asks' = asks /\ rows' = rows
    BY <1>2 DEF Emit
  <2>2. QED
    BY <2>1, RowsUnchanged DEF RequestInv
<1>3. CASE \E exit \in Exits : AgentExits(a, exit)
  <2>1. PICK S, C : asks \in Seq(AskOf(S, C))
    BY DEF RequestInv, Shape
  <2>2. asks[a] \in AskOf(S, C)
    BY <2>1, AskFacts
  <2> DEFINE r == [asks[a] EXCEPT !.agent = "ended"]
  <2>3. r.window = asks[a].window /\ r.shown = asks[a].shown /\ r.pc = asks[a].pc
    BY <2>2 DEF AskOf
  <2>4. asks' = [asks EXCEPT ![a] = r] /\ rows' = rows
    BY <1>3 DEF AgentExits
  <2> HIDE DEF r
  <2>5. DOMAIN asks' = DOMAIN asks /\ asks'[a] = r /\ \A i \in DOMAIN asks : i # a => asks'[i] = asks[i]
    BY <2>4
  <2>6. \A v \in Windows : Silent(asks, v) \subseteq Silent(asks', v)
    BY <2>3, <2>5 DEF Silent
  <2>7. QED
    BY <2>4, <2>6, RowsUnchanged DEF RequestInv
<1>4. QED
  BY <1>1, <1>2, <1>3

\* Every step keeps at most as many rows as asks.
LEMMA RowsInvStep ==
  ASSUME RequestInv, RequestInv', RowsInv, [Next]_vars
  PROVE  RowsInv'
<1>1. ASSUME asks' = asks, rows' = rows PROVE RowsInv'
  BY <1>1 DEF RowsInv, Silent
<1>2. CASE User
  <2>1. PICK w \in Windows :
          \/ \E long \in BOOLEAN : SendMessage(w, long)
          \/ CreateSession(w)
          \/ \E s \in Sessions(history[w]) :
               OpenSession(w, s) \/ RemoveSession(w, s) \/ PinSession(w, s) \/ RenameSession(w, s)
          \/ Reload(w)
          \/ \E f \in PathFiles \cup InlineFiles : AttachFile(w, f) \/ DropFile(w, f) \/ DetachFile(w, f)
    BY <1>2 DEF User
  <2>2. CASE \E long \in BOOLEAN : SendMessage(w, long)
    BY <2>2, SendMessageKeepsRows
  <2>3. CASE CreateSession(w)
    BY <2>3, ListKeepsRows DEF CreateSession
  <2>4. ASSUME NEW s \in Sessions(history[w]),
               OpenSession(w, s) \/ RemoveSession(w, s) \/ PinSession(w, s) \/ RenameSession(w, s)
        PROVE  RowsInv'
    <3>1. UNCHANGED listVars /\ (rows' = rows \/ \E h : ShowSession(w, h))
      BY <2>4 DEF OpenSession, RemoveSession, PinSession, RenameSession
    <3>2. QED
      BY <3>1, ListKeepsRows
  <2>5. CASE Reload(w)
    BY <2>5, ReloadKeepsRows
  <2>6. CASE \E f \in PathFiles \cup InlineFiles : AttachFile(w, f) \/ DropFile(w, f) \/ DetachFile(w, f)
    BY <1>1, <2>6 DEF AttachFile, DropFile, DetachFile, paneVars
  <2>7. QED
    BY <2>1, <2>2, <2>3, <2>4, <2>5, <2>6
<1>3. CASE Pane
  <2>1. CASE \E a \in DOMAIN asks : AttachmentsRead(a)
    BY <2>1, AttachmentsReadKeepsRows
  <2>2. CASE \E w \in Windows : HandleQwenEvent(w)
    BY <2>2, HandleQwenEventKeepsRows
  <2>3. CASE \E w \in Windows : HandleAnswer(w)
    BY <2>3, HandleAnswerKeepsRows
  <2>4. CASE \E w \in Windows : \E f \in InlineFiles : FileRead(w, f)
    BY <1>1, <2>4 DEF FileRead, paneVars
  <2>5. QED
    BY <1>3, <2>1, <2>2, <2>3, <2>4 DEF Pane
<1>4. CASE Agent
  BY <1>4, AgentKeepsRows
<1>5. CASE UNCHANGED vars
  BY <1>1, <1>5 DEF vars
<1>6. QED
  BY <1>2, <1>3, <1>4, <1>5 DEF Next

\* There are never more rows than silent asks.
LEMMA RowsInvAlways == Spec => []RowsInv
<1>1. Init => RowsInv
  <2>1. SUFFICES ASSUME Init PROVE RowsInv
    OBVIOUS
  <2>2. asks = <<>> /\ rows = [w \in Windows |-> 0]
    BY <2>1 DEF Init
  <2>3. DOMAIN asks = {}
    BY <2>2
  <2>4. \A w \in Windows : Silent(asks, w) = {}
    BY <2>3 DEF Silent
  <2>5. \A w \in Windows : rows[w] = 0 /\ Cardinality(Silent(asks, w)) = 0
    BY <2>2, <2>4, FS_EmptySet
  <2>6. QED
    BY <2>2, <2>5 DEF RowsInv
<1>2. RequestInv /\ RequestInv' /\ RowsInv /\ [Next]_vars => RowsInv'
  BY RowsInvStep
<1>3. QED
  BY <1>1, <1>2, RequestInvAlways, PTL DEF Spec

\* No row that says the agent is thinking is left behind, in any window and
\* after any number of refusals, failures and reloads.
THEOREM RowsAlwaysHaveAsks == Spec => []RowsHaveAsks
<1>1. RowsInv => RowsHaveAsks
  BY DEF RowsInv, RowsHaveAsks, Silent
<1>2. QED
  BY <1>1, RowsInvAlways, PTL

-----------------------------------------------------------------------------
(* Requests that end *)

\* What RequestsWillEnd says of ask a.
WillEnd(a) ==
  asks[a].pc = "sent" =>
    \/ asks[a].agent = "running"
    \/ \E i \in DOMAIN down[asks[a].window] :
         down[asks[a].window][i].ask = a /\ down[asks[a].window][i].kind \in Exits

\* The answers of ask a that were on their way still are.
AnswerKept(a) ==
  \A w \in Windows : \A i \in DOMAIN down[w] : down[w][i].ask = a /\ down[w][i].kind \in Exits =>
    \E j \in DOMAIN down'[w] : down'[w][j].ask = a /\ down'[w][j].kind \in Exits

\* An ask still has an answer to come if it stays at the service.
LEMMA StillWillEnd ==
  ASSUME RequestInv, RequestsWillEnd, NEW a \in DOMAIN asks, AnswerKept(a),
         asks'[a].pc = "sent" =>
           /\ asks[a].pc = "sent" /\ asks'[a].window = asks[a].window
           /\ asks[a].agent = "running" => asks'[a].agent = "running"
  PROVE  WillEnd(a)'
<1>1. SUFFICES ASSUME asks'[a].pc = "sent", asks'[a].agent # "running"
               PROVE  \E j \in DOMAIN down'[asks'[a].window] :
                        /\ down'[asks'[a].window][j].ask = a
                        /\ down'[asks'[a].window][j].kind \in Exits
  BY DEF WillEnd
<1>2. asks[a].pc = "sent" /\ asks'[a].window = asks[a].window /\ asks[a].agent # "running"
  BY <1>1
<1>3. asks[a].window \in Windows
  BY AskFacts DEF RequestInv, Shape
<1>4. QED
  BY <1>2, <1>3 DEF RequestsWillEnd, AnswerKept

\* A message that is sent has its agent.
LEMMA SentWillEnd ==
  ASSUME RequestInv, RequestsWillEnd, NEW S, NEW C, NEW before \in Seq(AskOf(S, C)),
         NEW a \in DOMAIN before, NEW w \in Windows, NEW ms, NEW more,
         Submit(w, a, before, ms, more), down' = down,
         \A i \in DOMAIN before : i # a => i \in DOMAIN asks /\ before[i] = asks[i]
  PROVE  RequestsWillEnd'
<1>1. processing \in [Windows -> BOOLEAN]
  BY DEF RequestInv, Shape
<1>2. /\ DOMAIN asks' = DOMAIN before
      /\ \A i \in DOMAIN before : i # a => asks'[i] = before[i]
      /\ asks'[a].pc = "sent" => asks'[a].agent = "running"
  BY <1>1, SubmitFacts
<1>3. ASSUME NEW i \in DOMAIN asks', i # a
      PROVE  WillEnd(i)'
  <2>1. i \in DOMAIN asks /\ asks'[i] = asks[i]
    BY <1>2, <1>3
  <2>2. AnswerKept(i)
    BY DEF AnswerKept
  <2>3. QED
    BY <2>1, <2>2, StillWillEnd
<1>4. \A i \in DOMAIN asks' : WillEnd(i)'
  BY <1>2, <1>3 DEF WillEnd
<1>5. QED
  BY <1>4 DEF RequestsWillEnd, WillEnd

\* Nothing is lost of a stream to which an event is added.
LEMMA ArrivalKeeps ==
  ASSUME RequestInv, NEW w \in Windows, NEW e \in Event, down' = [down EXCEPT ![w] = Append(@, e)]
  PROVE  /\ \A v \in Windows : \A i \in DOMAIN down[v] : i \in DOMAIN down'[v] /\ down'[v][i] = down[v][i]
         /\ \E i \in DOMAIN down'[w] : down'[w][i] = e
<1>1. down \in [Windows -> Seq(Event)]
  BY DEF RequestInv, Shape, Event
<1> DEFINE q == down[w]
<1>2. q \in Seq(Event) /\ down'[w] = Append(q, e)
  BY <1>1
<1>3. \A v \in Windows : v # w => down'[v] = down[v]
  BY <1>1
<1> HIDE DEF q
<1>4. /\ \A i \in DOMAIN q : i \in DOMAIN Append(q, e) /\ Append(q, e)[i] = q[i]
      /\ Len(q) + 1 \in DOMAIN Append(q, e) /\ Append(q, e)[Len(q) + 1] = e
  BY <1>2
<1>5. QED
  BY <1>2, <1>3, <1>4 DEF q

\* Taking the first event of w loses no other.
LEMMA TakingKeeps ==
  ASSUME RequestInv, NEW w \in Windows, down[w] # <<>>, down' = [down EXCEPT ![w] = Tail(@)],
         NEW a, Head(down[w]).ask # a \/ Head(down[w]).kind \notin Exits
  PROVE  AnswerKept(a)
<1>1. down \in [Windows -> Seq(Event)]
  BY DEF RequestInv, Shape, Event
<1> DEFINE q == down[w]
<1>2. q \in Seq(Event) /\ q # <<>> /\ down'[w] = Tail(q)
  BY <1>1
<1>3. \A v \in Windows : v # w => down'[v] = down[v]
  BY <1>1
<1> HIDE DEF q
<1>4. \A i \in DOMAIN q : q[i] = Head(q) \/ (i - 1 \in DOMAIN Tail(q) /\ Tail(q)[i - 1] = q[i])
  BY <1>2
<1>5. ASSUME NEW i \in DOMAIN q, q[i].ask = a, q[i].kind \in Exits
      PROVE  \E j \in DOMAIN down'[w] : down'[w][j].ask = a /\ down'[w][j].kind \in Exits
  BY <1>2, <1>4, <1>5 DEF q
<1>6. QED
  BY <1>3, <1>5 DEF AnswerKept, q

\* An agent that ends has answered.
LEMMA AgentExitsWillEnd ==
  ASSUME RequestInv, RequestsWillEnd, NEW a \in DOMAIN asks, NEW exit \in Exits, AgentExits(a, exit)
  PROVE  RequestsWillEnd'
<1>1. PICK S, C : asks \in Seq(AskOf(S, C))
  BY DEF RequestInv, Shape
<1>2. a \in Nat /\ asks[a] \in AskOf(S, C) /\ asks[a].window \in Windows
  BY <1>1, AskFacts
<1> DEFINE w == asks[a].window
           e == [ask |-> a, kind |-> exit]
           r == [asks[a] EXCEPT !.agent = "ended"]
<1>3. /\ asks' = [asks EXCEPT ![a] = r]
      /\ \/ asks[a].pc # "sent" /\ down' = down
         \/ asks[a].pc = "sent" /\ down' = [down EXCEPT ![w] = Append(@, e)]
  BY DEF AgentExits
<1>4. e \in Event /\ e.ask = a /\ e.kind \in Exits
  BY <1>2 DEF Event
<1>5. r.pc = asks[a].pc /\ r.window = w
  BY <1>2 DEF AskOf
<1>6. w \in Windows
  BY <1>2
<1> HIDE DEF w, e, r
<1>7. DOMAIN asks' = DOMAIN asks /\ asks'[a] = r /\ \A i \in DOMAIN asks : i # a => asks'[i] = asks[i]
  BY <1>3
<1>8. ASSUME NEW i
      PROVE  AnswerKept(i)
  BY <1>3, <1>4, <1>6, ArrivalKeeps DEF AnswerKept
<1>9. ASSUME NEW i \in DOMAIN asks, i # a
      PROVE  WillEnd(i)'
  BY <1>7, <1>8, <1>9, StillWillEnd
<1>10. WillEnd(a)'
  <2>1. CASE asks[a].pc # "sent"
    BY <1>5, <1>7, <2>1 DEF WillEnd
  <2>2. CASE down' = [down EXCEPT ![w] = Append(@, e)]
    <3>1. \E i \in DOMAIN down'[w] : down'[w][i] = e
      BY <1>4, <1>6, <2>2, ArrivalKeeps
    <3>2. asks'[a].window = w
      BY <1>5, <1>7
    <3>3. QED
      BY <1>4, <3>1, <3>2 DEF WillEnd
  <2>3. QED
    BY <1>3, <2>1, <2>2
<1>11. \A i \in DOMAIN asks' : WillEnd(i)'
  BY <1>7, <1>9, <1>10
<1>12. QED
  BY <1>11 DEF RequestsWillEnd, WillEnd

\* An event that is handled is no answer.
LEMMA HandleQwenEventWillEnd ==
  ASSUME RequestInv, RequestsWillEnd, NEW w \in Windows, HandleQwenEvent(w)
  PROVE  RequestsWillEnd'
<1>1. PICK S, C : asks \in Seq(AskOf(S, C))
  BY DEF RequestInv, Shape
<1> DEFINE a == Head(down[w]).ask
<1>2. /\ down[w] # <<>> /\ down' = [down EXCEPT ![w] = Tail(@)] /\ Head(down[w]).kind \notin Exits
      /\ asks' = [asks EXCEPT ![a].shown = TRUE]
  BY DEF HandleQwenEvent, Events, Exits
<1> HIDE DEF a
<1>3. ASSUME NEW i \in DOMAIN asks
      PROVE  asks'[i].pc = asks[i].pc /\ asks'[i].window = asks[i].window /\ asks'[i].agent = asks[i].agent
  <2>1. asks[i] \in AskOf(S, C)
    BY <1>1, AskFacts
  <2>2. asks'[i] = asks[i] \/ asks'[i] = [asks[i] EXCEPT !.shown = TRUE]
    BY <1>2
  <2>3. QED
    BY <2>1, <2>2 DEF AskOf
<1>4. ASSUME NEW i \in DOMAIN asks
      PROVE  WillEnd(i)'
  <2>1. AnswerKept(i)
    BY <1>2, TakingKeeps
  <2>2. QED
    BY <1>3, <2>1, StillWillEnd
<1>5. \A i \in DOMAIN asks' : WillEnd(i)'
  BY <1>2, <1>4
<1>6. QED
  BY <1>5 DEF RequestsWillEnd, WillEnd

\* The request an answer was for has ended or has another agent.
LEMMA HandleAnswerWillEnd ==
  ASSUME RequestInv, RequestsWillEnd, NEW w \in Windows, HandleAnswer(w)
  PROVE  RequestsWillEnd'
<1>1. PICK S, C : asks \in Seq(AskOf(S, C))
  BY DEF RequestInv, Shape
<1> DEFINE a == Head(down[w]).ask
<1>2. down[w] # <<>> /\ down' = [down EXCEPT ![w] = Tail(@)]
  BY DEF HandleAnswer
<1>3. /\ DOMAIN asks' = DOMAIN asks /\ \A i \in DOMAIN asks : i # a => asks'[i] = asks[i]
      /\ asks'[a].pc = "sent" => asks'[a].agent = "running"
  BY <1>1, AnswerChanges
<1>4. ASSUME NEW i \in DOMAIN asks, i # a
      PROVE  WillEnd(i)'
  <2>1. AnswerKept(i)
    BY <1>2, <1>4, TakingKeeps
  <2>2. QED
    BY <1>3, <1>4, <2>1, StillWillEnd
<1> HIDE DEF a
<1>5. \A i \in DOMAIN asks' : WillEnd(i)'
  BY <1>3, <1>4 DEF WillEnd
<1>6. QED
  BY <1>5 DEF RequestsWillEnd, WillEnd

\* A reload leaves no request at the service of its window, and the others as
\* they are.
LEMMA ReloadWillEnd ==
  ASSUME RequestInv, RequestsWillEnd, NEW w \in Windows, Reload(w)
  PROVE  RequestsWillEnd'
<1>1. PICK S, C : asks \in Seq(AskOf(S, C))
  BY DEF RequestInv, Shape
<1>2. /\ down' = [down EXCEPT ![w] = <<>>]
      /\ asks' = [a \in DOMAIN asks |->
                    IF asks[a].window = w /\ asks[a].pc \in {"reading", "sent"}
                    THEN [asks[a] EXCEPT !.pc = "lost"] ELSE asks[a]]
  BY DEF Reload
<1>3. ASSUME NEW i \in DOMAIN asks, asks'[i].pc = "sent"
      PROVE  asks'[i] = asks[i] /\ asks[i].window # w
  <2>1. asks[i] \in AskOf(S, C)
    BY <1>1, AskFacts
  <2>2. QED
    BY <1>2, <1>3, <2>1 DEF AskOf
<1>4. \A v \in Windows : v # w => down'[v] = down[v]
  BY <1>2 DEF RequestInv, Shape
<1>5. ASSUME NEW i \in DOMAIN asks
      PROVE  WillEnd(i)'
  <2>1. asks[i].window \in Windows
    BY <1>1, AskFacts
  <2>2. QED
    BY <1>3, <1>4, <2>1 DEF WillEnd, RequestsWillEnd
<1>6. \A i \in DOMAIN asks' : WillEnd(i)'
  BY <1>2, <1>5
<1>7. QED
  BY <1>6 DEF RequestsWillEnd, WillEnd

\* A message shown and not yet at the service.
LEMMA SendMessageWillEnd ==
  ASSUME RequestInv, RequestsWillEnd, NEW w \in Windows, NEW long \in BOOLEAN, SendMessage(w, long)
  PROVE  RequestsWillEnd'
<1> DEFINE a == Len(asks) + 1
           m == [ask |-> a, kind |-> "user"]
           c == Compacted(Append(context[w], m), long)
           session == IF HasActive(history[w]) THEN history[w].active ELSE made + 1
           ask == [window |-> w, pc |-> "reading", attempt |-> 0, agent |-> "none", shown |-> FALSE,
                   session |-> session, context |-> c]
           before == Append(asks, ask)
<1>1. /\ Submit(w, a, before, <<m>>, 1) \/ asks' = before
      /\ down' = down
  BY DEF SendMessage
<1>2. PICK S, C : asks \in Seq(AskOf(S, C))
  BY DEF RequestInv, Shape
<1>3. ask.pc = "reading"
  OBVIOUS
<1>4. \E R, D : ask \in AskOf(R, D) /\ S \subseteq R /\ C \subseteq D
  <2>1. ask \in AskOf(S \cup {session}, C \cup {c})
    BY LimitsAreNumbers DEF AskOf, PCs
  <2> HIDE DEF ask, session, c
  <2>2. QED
    BY <2>1
<1> HIDE DEF ask, session, c, m
<1>5. /\ \E R, D : before \in Seq(AskOf(R, D))
      /\ a \in DOMAIN before /\ before[a] = ask
      /\ \A i \in DOMAIN before : i # a => i \in DOMAIN asks /\ before[i] = asks[i]
  BY <1>2, <1>4, NewAsk
<1> HIDE DEF before, a
<1>6. CASE asks' = before
  <2>1. ASSUME NEW i \in DOMAIN before, i # a
        PROVE  WillEnd(i)'
    <3>1. AnswerKept(i)
      BY <1>1 DEF AnswerKept
    <3>2. QED
      BY <1>5, <1>6, <2>1, <3>1, StillWillEnd
  <2>2. \A i \in DOMAIN asks' : WillEnd(i)'
    BY <1>3, <1>5, <1>6, <2>1 DEF WillEnd
  <2>3. QED
    BY <2>2 DEF RequestsWillEnd, WillEnd
<1>7. CASE Submit(w, a, before, <<m>>, 1)
  BY <1>1, <1>5, <1>7, SentWillEnd
<1>8. QED
  BY <1>1, <1>6, <1>7

\* No request waits for nothing, after any number of messages, second
\* attempts, failures and reloads in any number of windows: what sets the guard
\* of the service (processing) is there to release it.
THEOREM RequestsAlwaysWillEnd == Spec => []RequestsWillEnd
<1>1. Init => RequestsWillEnd
  BY DEF Init, RequestsWillEnd
<1>2. ASSUME RequestInv, RequestsWillEnd, [Next]_vars
      PROVE  RequestsWillEnd'
  <2>1. ASSUME asks' = asks, down' = down PROVE RequestsWillEnd'
    BY <1>2, <2>1 DEF RequestsWillEnd
  <2>2. CASE User
    <3>1. PICK w \in Windows :
            \/ \E long \in BOOLEAN : SendMessage(w, long)
            \/ CreateSession(w)
            \/ \E s \in Sessions(history[w]) :
                 OpenSession(w, s) \/ RemoveSession(w, s) \/ PinSession(w, s) \/ RenameSession(w, s)
            \/ Reload(w)
            \/ \E f \in PathFiles \cup InlineFiles : AttachFile(w, f) \/ DropFile(w, f) \/ DetachFile(w, f)
      BY <2>2 DEF User
    <3>2. CASE \E long \in BOOLEAN : SendMessage(w, long)
      BY <1>2, <3>2, SendMessageWillEnd
    <3>3. CASE CreateSession(w)
      BY <2>1, <3>3 DEF CreateSession, listVars
    <3>4. CASE \E s \in Sessions(history[w]) :
                 OpenSession(w, s) \/ RemoveSession(w, s) \/ PinSession(w, s) \/ RenameSession(w, s)
      BY <2>1, <3>4 DEF OpenSession, RemoveSession, PinSession, RenameSession, listVars
    <3>5. CASE Reload(w)
      BY <1>2, <3>5, ReloadWillEnd
    <3>6. CASE \E f \in PathFiles \cup InlineFiles : AttachFile(w, f) \/ DropFile(w, f) \/ DetachFile(w, f)
      BY <2>1, <3>6 DEF AttachFile, DropFile, DetachFile, paneVars
    <3>7. QED
      BY <3>1, <3>2, <3>3, <3>4, <3>5, <3>6
  <2>3. CASE Pane
    <3>1. ASSUME NEW a \in DOMAIN asks, AttachmentsRead(a)
          PROVE  RequestsWillEnd'
      <4>1. PICK S, C : asks \in Seq(AskOf(S, C))
        BY <1>2 DEF RequestInv, Shape
      <4>2. asks[a].window \in Windows
        BY <4>1, AskFacts
      <4>3. Submit(asks[a].window, a, asks, <<>>, 0) /\ down' = down
        BY <3>1 DEF AttachmentsRead
      <4>4. QED
        BY <1>2, <4>1, <4>2, <4>3, SentWillEnd
    <3>2. CASE \E w \in Windows : HandleQwenEvent(w)
      BY <1>2, <3>2, HandleQwenEventWillEnd
    <3>3. CASE \E w \in Windows : HandleAnswer(w)
      BY <1>2, <3>3, HandleAnswerWillEnd
    <3>4. CASE \E w \in Windows : \E f \in InlineFiles : FileRead(w, f)
      BY <2>1, <3>4 DEF FileRead, paneVars
    <3>5. QED
      BY <2>3, <3>1, <3>2, <3>3, <3>4 DEF Pane
  <2>4. CASE Agent
    <3>1. ASSUME NEW a \in DOMAIN asks, NEW kind \in Events, Emit(a, kind)
          PROVE  RequestsWillEnd'
      <4>1. PICK S, C : asks \in Seq(AskOf(S, C))
        BY <1>2 DEF RequestInv, Shape
      <4>2. asks[a].window \in Windows /\ a \in Nat
        BY <4>1, AskFacts
      <4>3. /\ down' = [down EXCEPT ![asks[a].window] = Append(@, [ask |-> a, kind |-> kind])]
            /\ asks' = asks
        BY <3>1 DEF Emit
      <4>4. [ask |-> a, kind |-> kind] \in Event
        BY <4>2 DEF Event
      <4>5. \A i : AnswerKept(i)
        BY <1>2, <4>2, <4>3, <4>4, ArrivalKeeps DEF AnswerKept
      <4>6. \A i \in DOMAIN asks' : WillEnd(i)'
        BY <1>2, <4>3, <4>5, StillWillEnd
      <4>7. QED
        BY <4>6 DEF RequestsWillEnd, WillEnd
    <3>2. CASE \E a \in DOMAIN asks, exit \in Exits : AgentExits(a, exit)
      BY <1>2, <3>2, AgentExitsWillEnd
    <3>3. QED
      BY <2>4, <3>1, <3>2 DEF Agent, AgentEnds
  <2>5. CASE UNCHANGED vars
    BY <2>1, <2>5 DEF vars
  <2>6. QED
    BY <1>2, <2>2, <2>3, <2>4, <2>5 DEF Next
<1>3. QED
  BY <1>1, <1>2, RequestInvAlways, PTL DEF Spec

-----------------------------------------------------------------------------
(* What is left to be done *)

\* All that is counted is finite.
LEMMA WorkIsFinite ==
  ASSUME RequestInv, ReadingInv
  PROVE  /\ IsFiniteSet(Unsent) /\ IsFiniteSet(AttemptsLeft) /\ IsFiniteSet(Running)
         /\ IsFiniteSet(Coming) /\ IsFiniteSet(BeingRead)
<1>1. PICK S, C : asks \in Seq(AskOf(S, C))
  BY DEF RequestInv, Shape
<1>2. IsFiniteSet(DOMAIN asks)
  BY <1>1, FS_Interval
<1>3. IsFiniteSet(Unsent) /\ IsFiniteSet(Running)
  BY <1>2, FS_Subset DEF Unsent, Running
<1>4. IsFiniteSet(AttemptsLeft)
  <2> DEFINE left == [a \in DOMAIN asks |-> asks[a].attempt + 1 .. MaxRetries]
  <2>1. \A a \in DOMAIN asks : IsFiniteSet(left[a])
    <3>1. SUFFICES ASSUME NEW a \in DOMAIN asks PROVE IsFiniteSet(asks[a].attempt + 1 .. MaxRetries)
      OBVIOUS
    <3>2. asks[a].attempt + 1 \in Int /\ MaxRetries \in Int
      BY <1>1, AskFacts, LimitsAreNumbers DEF AskOf
    <3>3. QED
      BY <3>2, FS_Interval
  <2>2. AttemptsLeft = UNION {{a} \X left[a] : a \in DOMAIN asks}
    BY DEF AttemptsLeft
  <2> HIDE DEF left
  <2>3. QED
    BY <1>2, <2>1, <2>2, FamilyIsFinite
<1>5. IsFiniteSet(Coming)
  <2> DEFINE coming == [w \in Windows |-> DOMAIN down[w]]
  <2>1. \A w \in Windows : IsFiniteSet(coming[w])
    <3>1. SUFFICES ASSUME NEW w \in Windows PROVE IsFiniteSet(DOMAIN down[w])
      OBVIOUS
    <3>2. Len(down[w]) \in Nat /\ DOMAIN down[w] = 1 .. Len(down[w])
      BY DEF RequestInv, Shape
    <3>3. QED
      BY <3>2, FS_Interval
  <2>2. Coming = UNION {{w} \X coming[w] : w \in Windows}
    BY DEF Coming
  <2> HIDE DEF coming
  <2>3. QED
    BY <2>1, <2>2, FinitelyMany, FamilyIsFinite
<1>6. IsFiniteSet(BeingRead)
  <2>1. \A w \in Windows : IsFiniteSet(reading[w])
    BY FinitelyMany, FS_Subset DEF ReadingInv
  <2>2. QED
    BY <2>1, FinitelyMany, FamilyIsFinite DEF BeingRead
<1>7. QED
  BY <1>3, <1>4, <1>5, <1>6

\* Five numbers are a tuple of numbers.
LEMMA FiveNumbers ==
  ASSUME NEW a \in Nat, NEW b \in Nat, NEW c \in Nat, NEW d \in Nat, NEW e \in Nat
  PROVE  <<a, b, c, d, e>> \in [1 .. 5 -> Nat]
OBVIOUS

\* The work is one.
LEMMA WorkIsNumbers == RequestInv /\ ReadingInv => Work \in [1 .. 5 -> Nat]
<1> SUFFICES ASSUME RequestInv, ReadingInv PROVE Work \in [1 .. 5 -> Nat]
  OBVIOUS
<1>1. /\ Cardinality(Unsent) \in Nat /\ Cardinality(AttemptsLeft) \in Nat /\ Cardinality(Running) \in Nat
      /\ Cardinality(Coming) \in Nat /\ Cardinality(BeingRead) \in Nat
  BY WorkIsFinite, FS_CardinalityType
<1>2. QED
  BY <1>1, FiveNumbers, Zenon DEF Work

\* And stays one.
LEMMA WorkStaysNumbers == (RequestInv /\ ReadingInv => Work \in [1 .. 5 -> Nat])'
BY WorkIsNumbers, PTL

\* Work descends if one number gets less and none before it changes.
LEMMA WorkDescends ==
  ASSUME RequestInv, ReadingInv, RequestInv', ReadingInv', NEW k \in 1 .. 5,
         Work'[k] < Work[k], \A j \in 1 .. k - 1 : Work'[j] = Work[j]
  PROVE  Descends(Work', Work)
<1>1. Work \in [1 .. 5 -> Nat] /\ Work' \in [1 .. 5 -> Nat] /\ 5 \in Nat
  BY WorkIsNumbers, WorkStaysNumbers
<1>2. \A j \in 1 .. k - 1 : Work'[j] <= Work[j]
  BY <1>1
<1>3. QED
  BY <1>1, <1>2, LessSomewhere

\* A message is sent or refused: what it starts counts less.
LEMMA AttachmentsReadDescends ==
  ASSUME RequestInv, ReadingInv, RequestInv', ReadingInv', NEW a \in DOMAIN asks, AttachmentsRead(a)
  PROVE  Descends(Work', Work)
<1>1. PICK S, C : asks \in Seq(AskOf(S, C))
  BY DEF RequestInv, Shape
<1>2. asks[a].window \in Windows /\ processing \in [Windows -> BOOLEAN]
  BY <1>1, AskFacts DEF RequestInv, Shape
<1>3. asks[a].pc = "reading" /\ Submit(asks[a].window, a, asks, <<>>, 0)
  BY DEF AttachmentsRead
<1>4. /\ DOMAIN asks' = DOMAIN asks /\ \A i \in DOMAIN asks : i # a => asks'[i] = asks[i]
      /\ asks'[a].pc # "reading"
  BY <1>1, <1>2, <1>3, SubmitFacts
<1>5. Unsent' = Unsent \ {a} /\ a \in Unsent
  BY <1>3, <1>4 DEF Unsent
<1>6. Cardinality(Unsent') < Cardinality(Unsent)
  BY <1>5, WorkIsFinite, PartIsLess
<1>7. Work'[1] < Work[1]
  BY <1>6 DEF Work
<1>8. QED
  BY <1>7, WorkDescends

\* What has arrived is taken.
LEMMA ComingLess ==
  ASSUME RequestInv, ReadingInv, NEW w \in Windows, down[w] # <<>>, down' = [down EXCEPT ![w] = Tail(@)]
  PROVE  Cardinality(Coming') < Cardinality(Coming)
<1>1. down \in [Windows -> Seq(Event)]
  BY DEF RequestInv, Shape, Event
<1> DEFINE q == down[w]
<1>2. q \in Seq(Event) /\ q # <<>> /\ down'[w] = Tail(q)
  BY <1>1
<1>3. \A v \in Windows : v # w => down'[v] = down[v]
  BY <1>1
<1> HIDE DEF q
<1>4. DOMAIN Tail(q) \subseteq DOMAIN q /\ Len(q) \in DOMAIN q /\ Len(q) \notin DOMAIN Tail(q)
  BY <1>2
<1>5. Coming' \subseteq Coming
  <2>1. \A v \in Windows : DOMAIN down'[v] \subseteq DOMAIN down[v]
    BY <1>2, <1>3, <1>4 DEF q
  <2>2. QED
    BY <2>1 DEF Coming
<1>6. <<w, Len(q)>> \in Coming
  BY <1>4 DEF Coming, q
<1>7. <<w, Len(q)>> \notin Coming'
  BY <1>2, <1>4 DEF Coming
<1>8. QED
  BY <1>5, <1>6, <1>7, WorkIsFinite, PartIsLess

\* An event handled starts nothing.
LEMMA HandleQwenEventDescends ==
  ASSUME RequestInv, ReadingInv, RequestInv', ReadingInv', NEW w \in Windows, HandleQwenEvent(w)
  PROVE  Descends(Work', Work)
<1>1. PICK S, C : asks \in Seq(AskOf(S, C))
  BY DEF RequestInv, Shape
<1> DEFINE a == Head(down[w]).ask
<1>2. /\ down[w] # <<>> /\ down' = [down EXCEPT ![w] = Tail(@)]
      /\ asks' = [asks EXCEPT ![a].shown = TRUE]
  BY DEF HandleQwenEvent
<1> HIDE DEF a
<1>3. ASSUME NEW i \in DOMAIN asks
      PROVE  /\ asks'[i].pc = asks[i].pc /\ asks'[i].attempt = asks[i].attempt
             /\ asks'[i].agent = asks[i].agent
  <2>1. asks[i] \in AskOf(S, C)
    BY <1>1, AskFacts
  <2>2. asks'[i] = asks[i] \/ asks'[i] = [asks[i] EXCEPT !.shown = TRUE]
    BY <1>2
  <2>3. QED
    BY <2>1, <2>2 DEF AskOf
<1>4. DOMAIN asks' = DOMAIN asks
  BY <1>2
<1>5. Unsent' = Unsent /\ AttemptsLeft' = AttemptsLeft /\ Running' = Running
  BY <1>3, <1>4 DEF Unsent, AttemptsLeft, Running
<1>6. Work'[4] < Work[4]
  BY <1>2, <1>5, ComingLess DEF Work
<1>7. \A j \in 1 .. 3 : Work'[j] = Work[j]
  BY <1>2, <1>5, ComingLess DEF Work
<1>8. QED
  BY <1>6, <1>7, WorkDescends

\* An answer starts an agent only in exchange for one of the attempts left.
LEMMA HandleAnswerDescends ==
  ASSUME RequestInv, ReadingInv, RequestInv', ReadingInv', NEW w \in Windows, HandleAnswer(w)
  PROVE  Descends(Work', Work)
<1>1. PICK S, C : asks \in Seq(AskOf(S, C))
  BY DEF RequestInv, Shape
<1> DEFINE a == Head(down[w]).ask
<1>2. down[w] # <<>> /\ down' = [down EXCEPT ![w] = Tail(@)]
  BY DEF HandleAnswer
<1>3. /\ a \in DOMAIN asks /\ asks[a].pc = "sent" /\ asks[a].agent = "ended"
      /\ DOMAIN asks' = DOMAIN asks /\ \A i \in DOMAIN asks : i # a => asks'[i] = asks[i]
      /\ asks'[a].pc # "reading"
      /\ \/ asks'[a].agent = "ended" /\ asks'[a].attempt = asks[a].attempt
         \/ asks[a].attempt < MaxRetries /\ asks'[a].attempt = asks[a].attempt + 1
  BY <1>1, AnswerChanges
<1> HIDE DEF a
<1>4. Unsent' = Unsent
  BY <1>3 DEF Unsent
<1>5. CASE asks'[a].agent = "ended" /\ asks'[a].attempt = asks[a].attempt
  <2>1. AttemptsLeft' = AttemptsLeft /\ Running' = Running
    BY <1>3, <1>5 DEF AttemptsLeft, Running
  <2>2. Work'[4] < Work[4]
    BY <1>2, <1>4, <2>1, ComingLess DEF Work
  <2>3. \A j \in 1 .. 3 : Work'[j] = Work[j]
    BY <1>2, <1>4, <2>1, ComingLess DEF Work
  <2>4. QED
    BY <2>2, <2>3, WorkDescends
<1>6. CASE asks[a].attempt < MaxRetries /\ asks'[a].attempt = asks[a].attempt + 1
  <2>1. asks[a].attempt \in Nat /\ MaxRetries \in Nat
    BY <1>1, <1>3, AskFacts, LimitsAreNumbers DEF AskOf
  <2>2. /\ asks'[a].attempt + 1 .. MaxRetries \subseteq asks[a].attempt + 1 .. MaxRetries
        /\ asks[a].attempt + 1 \in asks[a].attempt + 1 .. MaxRetries
        /\ asks[a].attempt + 1 \notin asks'[a].attempt + 1 .. MaxRetries
    BY <1>6, <2>1
  <2>3. AttemptsLeft' \subseteq AttemptsLeft
    BY <1>3, <2>2 DEF AttemptsLeft
  <2>4. <<a, asks[a].attempt + 1>> \in AttemptsLeft /\ <<a, asks[a].attempt + 1>> \notin AttemptsLeft'
    BY <1>3, <2>2 DEF AttemptsLeft
  <2>5. Cardinality(AttemptsLeft') < Cardinality(AttemptsLeft)
    BY <2>3, <2>4, WorkIsFinite, PartIsLess
  <2>6. Work'[2] < Work[2]
    BY <1>4, <2>5 DEF Work
  <2>7. \A j \in 1 .. 1 : Work'[j] = Work[j]
    BY <1>4, <2>5 DEF Work
  <2>8. QED
    BY <2>6, <2>7, WorkDescends
<1>7. QED
  BY <1>3, <1>5, <1>6

\* An agent that ends leaves one answer.
LEMMA AgentExitsDescends ==
  ASSUME RequestInv, ReadingInv, RequestInv', ReadingInv', NEW a \in DOMAIN asks, NEW exit \in Exits,
         AgentExits(a, exit)
  PROVE  Descends(Work', Work)
<1>1. PICK S, C : asks \in Seq(AskOf(S, C))
  BY DEF RequestInv, Shape
<1>2. asks[a].agent = "running" /\ asks' = [asks EXCEPT ![a].agent = "ended"]
  BY DEF AgentExits
<1>3. ASSUME NEW i \in DOMAIN asks
      PROVE  /\ asks'[i].pc = asks[i].pc /\ asks'[i].attempt = asks[i].attempt
             /\ asks'[i].agent = IF i = a THEN "ended" ELSE asks[i].agent
  <2>1. asks[i] \in AskOf(S, C)
    BY <1>1, AskFacts
  <2>2. asks'[i] = IF i = a THEN [asks[i] EXCEPT !.agent = "ended"] ELSE asks[i]
    BY <1>2
  <2>3. QED
    BY <2>1, <2>2 DEF AskOf
<1>4. DOMAIN asks' = DOMAIN asks
  BY <1>2
<1>5. Unsent' = Unsent /\ AttemptsLeft' = AttemptsLeft
  BY <1>3, <1>4 DEF Unsent, AttemptsLeft
<1>6. Running' = Running \ {a} /\ a \in Running
  BY <1>2, <1>3, <1>4 DEF Running
<1>7. Cardinality(Running') < Cardinality(Running)
  BY <1>6, WorkIsFinite, PartIsLess
<1>8. Work'[3] < Work[3]
  BY <1>5, <1>7 DEF Work
<1>9. \A j \in 1 .. 2 : Work'[j] = Work[j]
  BY <1>5, <1>7 DEF Work
<1>10. QED
  BY <1>8, <1>9, WorkDescends

\* A file is read.
LEMMA FileReadDescends ==
  ASSUME RequestInv, ReadingInv, RequestInv', ReadingInv', NEW w \in Windows, NEW f \in InlineFiles,
         FileRead(w, f)
  PROVE  Descends(Work', Work)
<1>1. f \in reading[w] /\ reading' = [reading EXCEPT ![w] = reading[w] \ {f}]
      /\ asks' = asks /\ down' = down
  BY DEF FileRead, paneVars
<1>2. Unsent' = Unsent /\ AttemptsLeft' = AttemptsLeft /\ Running' = Running /\ Coming' = Coming
  BY <1>1 DEF Unsent, AttemptsLeft, Running, Coming
<1>3. reading'[w] = reading[w] \ {f} /\ \A v \in Windows : reading'[v] \subseteq reading[v]
  BY <1>1 DEF ReadingInv
<1>4. BeingRead' \subseteq BeingRead
  BY <1>3 DEF BeingRead
<1>5. <<w, f>> \in BeingRead /\ <<w, f>> \notin BeingRead'
  BY <1>1, <1>3 DEF BeingRead
<1>6. Cardinality(BeingRead') < Cardinality(BeingRead)
  BY <1>4, <1>5, WorkIsFinite, PartIsLess
<1>7. Work'[5] < Work[5]
  BY <1>2, <1>6 DEF Work
<1>8. \A j \in 1 .. 4 : Work'[j] = Work[j]
  BY <1>2, <1>6 DEF Work
<1>9. QED
  BY <1>7, <1>8, WorkDescends

\* Whatever the pane does next and whichever agent ends next, there is less to
\* do after it, for any limits, windows and number of messages: second attempts
\* (MAX_RETRY_ATTEMPTS) do not go on for ever.
THEOREM WorkAlwaysRunsOut == Spec => WorkRunsOut
<1>1. ASSUME RequestInv, ReadingInv, RequestInv', ReadingInv', Pane \/ AgentEnds
      PROVE  Descends(Work', Work)
  <2>1. CASE \E a \in DOMAIN asks : AttachmentsRead(a)
    BY <1>1, <2>1, AttachmentsReadDescends
  <2>2. CASE \E w \in Windows : HandleQwenEvent(w)
    BY <1>1, <2>2, HandleQwenEventDescends
  <2>3. CASE \E w \in Windows : HandleAnswer(w)
    BY <1>1, <2>3, HandleAnswerDescends
  <2>4. CASE \E w \in Windows : \E f \in InlineFiles : FileRead(w, f)
    BY <1>1, <2>4, FileReadDescends
  <2>5. CASE \E a \in DOMAIN asks, exit \in Exits : AgentExits(a, exit)
    BY <1>1, <2>5, AgentExitsDescends
  <2>6. QED
    BY <1>1, <2>1, <2>2, <2>3, <2>4, <2>5 DEF Pane, AgentEnds
<1>2. RequestInv /\ ReadingInv /\ RequestInv' /\ ReadingInv' =>
        [Pane \/ AgentEnds => Descends(Work', Work)]_vars
  BY <1>1
<1>3. QED
  BY <1>2, RequestInvAlways, ReadingInvAlways, PTL DEF Spec, WorkRunsOut
=============================================================================
