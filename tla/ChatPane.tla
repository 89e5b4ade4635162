------------------------------- MODULE ChatPane -------------------------------
(***************************************************************************)
(* The chat with the Qwen agent: the pane (chatViewPane.ts), the service   *)
(* below it (qwenChatService.ts) and the handler in the main process that  *)
(* runs one agent process per request (qwenIpc.ts), for several windows    *)
(* that share one local store of conversations.                            *)
(*                                                                         *)
(* Each message the user sends is an ask.  The pane shows it at once,      *)
(* reads the attached files, and only then does the service look at its    *)
(* guard.  The agent's events come back over one stream per window that    *)
(* does not say whose they are; the answer follows the events.             *)
(*                                                                         *)
(* Left out: the summary that stands for compacted context, tool cards,    *)
(* and QwenChatService.abort, which has no caller.  A message and its      *)
(* attachments count as one.  Assumed: the store has room.                 *)
(***************************************************************************)
EXTENDS ChatHistory, Descent

CONSTANTS
  Windows,
  PathFiles,    \* files attached by their path, read when a message is sent
  InlineFiles,  \* files without a path, read when they are dropped
  MaxFiles,     \* MAX_ATTACHED_FILES
  KeepTail,     \* what maybeCompactContext keeps
  MaxRetries    \* MAX_RETRY_ATTEMPTS

ASSUME LimitsAreNumbers == MaxFiles \in Nat /\ KeepTail \in Nat /\ MaxRetries \in Nat
ASSUME FinitelyMany == IsFiniteSet(Windows) /\ IsFiniteSet(InlineFiles)

VARIABLES
  history,     \* per window: historySessions and activeSessionId
  store,       \* the history in local storage
  surface,     \* per window: the messages on show
  context,     \* per window: contextSegments
  rows,        \* per window: rows that say the agent is thinking
  attached,    \* per window: attachedFiles
  reading,     \* per window: dropped files that are being read
  asks,        \* every ask so far, by index
  processing,  \* per window: the guard of the service
  down,        \* per window: events and answers on their way from the main process
  made         \* sessions created so far, also the newest one's id

composerVars == <<attached, reading>>
vars == <<history, store, surface, context, rows, attached, reading, asks, processing, down, made>>

Events == {"assistant", "tool", "note"}       \* note: shown nowhere
Exits == {"clean", "code1", "failure"}        \* code1: the text has "exited with code 1"
Message == [ask : 1 .. Len(asks), kind : {"user", "assistant", "tool", "error"}]

\* reading: its attachments are being read.  lost: its window was reloaded.
\* shown: the pane has handled an event of it.
Ask ==
  [window : Windows, pc : {"reading", "sent", "answered", "failed", "refused", "lost"},
   attempt : 0 .. MaxRetries, agent : {"none", "running", "ended"}, shown : BOOLEAN,
   session : 1 .. made, context : Seq(Message)]

HistoryOK(h) ==
  /\ Len(h.list) <= MaxSessions
  /\ Sessions(h) \subseteq 1 .. made
  /\ Cardinality(Sessions(h)) = Len(h.list)
  /\ ToSet(h.recent) = Sessions(h) /\ Len(h.recent) = Len(h.list)
  /\ h.pinned \subseteq Sessions(h)
  /\ DOMAIN h.messages = Sessions(h)
  /\ \A s \in Sessions(h) : h.messages[s] \in Seq(Message) /\ Len(h.messages[s]) <= MaxMessages

TypeOK ==
  /\ \A w \in Windows : HistoryOK(history[w])
  /\ HistoryOK(store)
  /\ surface \in [Windows -> Seq(Message)]
  /\ context \in [Windows -> Seq(Message)]
  /\ rows \in [Windows -> Nat]
  /\ attached \in [Windows -> SUBSET (PathFiles \cup InlineFiles)]
  /\ reading \in [Windows -> SUBSET InlineFiles]
  /\ asks \in Seq(Ask)
  /\ processing \in [Windows -> BOOLEAN]
  /\ down \in [Windows -> Seq([ask : 1 .. Len(asks), kind : Events \cup Exits])]
  /\ made \in Nat

Replay(ms) == At(ms, {i \in DOMAIN ms : ms[i].kind \in {"user", "assistant"}})

Init ==
  /\ store = Empty
  /\ history = [w \in Windows |-> Empty]
  /\ surface = [w \in Windows |-> <<>>]
  /\ context = [w \in Windows |-> <<>>]
  /\ rows = [w \in Windows |-> 0]
  /\ attached = [w \in Windows |-> {}]
  /\ reading = [w \in Windows |-> {}]
  /\ asks = <<>>
  /\ processing = [w \in Windows |-> FALSE]
  /\ down = [w \in Windows |-> <<>>]
  /\ made = 0

-----------------------------------------------------------------------------
(* What the pane shows and saves *)

SetHistory(w, h) ==
  /\ history' = [history EXCEPT ![w] = h]
  /\ store' = history'[w]
  /\ made' = IF made + 1 \in Sessions(store') THEN made + 1 ELSE made

\* Each message is saved as it is shown; without one nothing is.
Show(w, ms) ==
  \/ /\ ms = <<>>
     /\ UNCHANGED <<history, store, surface, made>>
  \/ /\ ms # <<>>
     /\ surface' = [surface EXCEPT ![w] = @ \o ms]
     /\ SetHistory(w, RecordAll(history[w], made + 1, ms))

\* Faulty: the messages on show stay when another session is opened.
ShowSessionBelow(w, h) ==
  /\ SetHistory(w, h)
  /\ surface' = [surface EXCEPT ![w] = @ \o ActiveMessages(h)]
  /\ context' = [context EXCEPT ![w] = Replay(ActiveMessages(h))]
  /\ rows' = [rows EXCEPT ![w] = 0]

\* Faulty: the context of the last session stays.
ShowSessionInContext(w, h) ==
  /\ SetHistory(w, h)
  /\ surface' = [surface EXCEPT ![w] = ActiveMessages(h)]
  /\ context' = [context EXCEPT ![w] = @ \o Replay(ActiveMessages(h))]
  /\ rows' = [rows EXCEPT ![w] = 0]

ShowSession(w, h) ==
  /\ SetHistory(w, h)
  /\ surface' = [surface EXCEPT ![w] = ActiveMessages(h)]
  /\ context' = [context EXCEPT ![w] = Replay(ActiveMessages(h))]
  /\ rows' = [rows EXCEPT ![w] = 0]

Fewer(n) == IF n = 0 THEN 0 ELSE n - 1

-----------------------------------------------------------------------------
(* Sending *)

\* maybeCompactContext; whether the conversation is too long is data.
Compacted(c, long) == IF long THEN LastN(c, KeepTail) ELSE c

\* Faulty: the row of a refused message stays.
SubmitKeepingRow(w, a, before, ms, more) ==
  \/ /\ processing[w]
     /\ asks' = [before EXCEPT ![a].pc = "refused"]
     /\ rows' = [rows EXCEPT ![w] = @ + more]
     /\ Show(w, Append(ms, [ask |-> a, kind |-> "error"]))
     /\ UNCHANGED processing
  \/ /\ ~ processing[w]
     /\ asks' = [before EXCEPT ![a].pc = "sent", ![a].agent = "running"]
     /\ rows' = [rows EXCEPT ![w] = @ + more]
     /\ processing' = [processing EXCEPT ![w] = TRUE]
     /\ Show(w, ms)

\* Faulty: the guard is released on every way out, a refusal too.
SubmitReleasing(w, a, before, ms, more) ==
  \/ /\ processing[w]
     /\ asks' = [before EXCEPT ![a].pc = "refused"]
     /\ rows' = [rows EXCEPT ![w] = Fewer(@ + more)]
     /\ Show(w, Append(ms, [ask |-> a, kind |-> "error"]))
     /\ processing' = [processing EXCEPT ![w] = FALSE]
  \/ /\ ~ processing[w]
     /\ asks' = [before EXCEPT ![a].pc = "sent", ![a].agent = "running"]
     /\ rows' = [rows EXCEPT ![w] = @ + more]
     /\ processing' = [processing EXCEPT ![w] = TRUE]
     /\ Show(w, ms)

\* The service looks at its guard.  before is asks with ask a in it, which is
\* on show so far; ms and more are the messages and rows of this same step.
Submit(w, a, before, ms, more) ==
  \/ /\ processing[w]
     /\ asks' = [before EXCEPT ![a].pc = "refused"]
     /\ rows' = [rows EXCEPT ![w] = Fewer(@ + more)]
     /\ Show(w, Append(ms, [ask |-> a, kind |-> "error"]))
     /\ UNCHANGED processing
  \/ /\ ~ processing[w]
     /\ asks' = [before EXCEPT ![a].pc = "sent", ![a].agent = "running"]
     /\ rows' = [rows EXCEPT ![w] = @ + more]
     /\ processing' = [processing EXCEPT ![w] = TRUE]
     /\ Show(w, ms)

SendMessage(w, long) ==
  LET a == Len(asks) + 1
      m == [ask |-> a, kind |-> "user"]
      c == Compacted(Append(context[w], m), long)
      session == IF HasActive(history[w]) THEN history[w].active ELSE made + 1
      ask == [window |-> w, pc |-> "reading", attempt |-> 0, agent |-> "none", shown |-> FALSE,
              session |-> session, context |-> c]
  IN  /\ context' = [context EXCEPT ![w] = c]
      /\ attached' = [attached EXCEPT ![w] = {}]
      /\ IF attached[w] \cap PathFiles = {}
         THEN Submit(w, a, Append(asks, ask), <<m>>, 1)
         ELSE /\ asks' = Append(asks, ask)
              /\ rows' = [rows EXCEPT ![w] = @ + 1]
              /\ Show(w, <<m>>)
              /\ UNCHANGED processing
      /\ UNCHANGED <<reading, down>>

\* Faulty: the conversation is looked at when the attachments have been read.
AttachmentsReadLate(a) ==
  /\ asks[a].pc = "reading"
  /\ Submit(asks[a].window, a, [asks EXCEPT ![a].context = context[asks[a].window]], <<>>, 0)
  /\ UNCHANGED <<context, attached, reading, down>>

AttachmentsRead(a) ==
  /\ asks[a].pc = "reading"
  /\ Submit(asks[a].window, a, asks, <<>>, 0)
  /\ UNCHANGED <<context, attached, reading, down>>

-----------------------------------------------------------------------------
(* The agent *)

Emit(a, kind) ==
  /\ asks[a].agent = "running"
  /\ down' = [down EXCEPT ![asks[a].window] = Append(@, [ask |-> a, kind |-> kind])]
  /\ UNCHANGED <<history, store, surface, context, rows, attached, reading, asks, processing, made>>

\* Faulty: an agent that could not be started is not answered for.
AgentExitsQuietly(a, exit) ==
  /\ asks[a].agent = "running"
  /\ asks' = [asks EXCEPT ![a].agent = "ended"]
  /\ down' = IF asks[a].pc # "sent" \/ exit = "failure" THEN down
             ELSE [down EXCEPT ![asks[a].window] = Append(@, [ask |-> a, kind |-> exit])]
  /\ UNCHANGED <<history, store, surface, context, rows, attached, reading, processing, made>>

\* The answer goes to the page that asked, events to the one that is there.
AgentExits(a, exit) ==
  /\ asks[a].agent = "running"
  /\ asks' = [asks EXCEPT ![a].agent = "ended"]
  /\ down' = IF asks[a].pc # "sent" THEN down
             ELSE [down EXCEPT ![asks[a].window] = Append(@, [ask |-> a, kind |-> exit])]
  /\ UNCHANGED <<history, store, surface, context, rows, attached, reading, processing, made>>

-----------------------------------------------------------------------------
(* What arrives *)

HandleQwenEvent(w) ==
  /\ down[w] # <<>> /\ Head(down[w]).kind \in Events
  /\ LET m == Head(down[w])
     IN  /\ rows' = [rows EXCEPT ![w] = Fewer(@)]
         /\ asks' = [asks EXCEPT ![m.ask].shown = TRUE]
         /\ context' = [context EXCEPT ![w] = @ \o Replay(<<m>>)]
         /\ Show(w, IF m.kind = "note" THEN <<>> ELSE <<m>>)
  /\ down' = [down EXCEPT ![w] = Tail(@)]
  /\ UNCHANGED <<attached, reading, processing>>

Answered(w, a) ==
  /\ asks' = [asks EXCEPT ![a].pc = "answered"]
  /\ processing' = [processing EXCEPT ![w] = FALSE]
  /\ UNCHANGED <<history, store, surface, rows, made>>

\* Faulty: the second attempt is started and not waited for.
RetryUnawaited(w, a) ==
  /\ asks' = [asks EXCEPT ![a].pc = "failed", ![a].agent = "running"]
  /\ processing' = [processing EXCEPT ![w] = FALSE]
  /\ UNCHANGED <<history, store, surface, rows, made>>

\* Faulty: attempts are not counted.
RetryForever(w, a) ==
  /\ asks' = [asks EXCEPT ![a].agent = "running"]
  /\ UNCHANGED <<history, store, surface, rows, processing, made>>

Retry(w, a) ==
  /\ asks' = [asks EXCEPT ![a].attempt = @ + 1, ![a].agent = "running"]
  /\ UNCHANGED <<history, store, surface, rows, processing, made>>

Failed(w, a) ==
  /\ asks' = [asks EXCEPT ![a].pc = "failed"]
  /\ processing' = [processing EXCEPT ![w] = FALSE]
  /\ rows' = [rows EXCEPT ![w] = Fewer(@)]
  /\ Show(w, <<[ask |-> a, kind |-> "error"]>>)

\* Faulty: one attempt too many.
HandleAnswerOnceMore(w) ==
  /\ down[w] # <<>> /\ Head(down[w]).kind \in Exits
  /\ LET a == Head(down[w]).ask
         exit == Head(down[w]).kind
         again == exit = "code1" /\ asks[a].attempt <= MaxRetries
     IN  \/ exit = "clean" /\ Answered(w, a)
         \/ again /\ Retry(w, a)
         \/ exit # "clean" /\ ~ again /\ Failed(w, a)
  /\ down' = [down EXCEPT ![w] = Tail(@)]
  /\ UNCHANGED <<context, attached, reading>>

HandleAnswer(w) ==
  /\ down[w] # <<>> /\ Head(down[w]).kind \in Exits
  /\ LET a == Head(down[w]).ask
         exit == Head(down[w]).kind
         again == exit = "code1" /\ asks[a].attempt < MaxRetries
     IN  \/ exit = "clean" /\ Answered(w, a)
         \/ again /\ Retry(w, a)
         \/ exit # "clean" /\ ~ again /\ Failed(w, a)
  /\ down' = [down EXCEPT ![w] = Tail(@)]
  /\ UNCHANGED <<context, attached, reading>>

-----------------------------------------------------------------------------
(* The list of conversations *)

listVars == <<attached, reading, asks, processing, down>>

CreateSession(w) == ShowSession(w, Create(history[w], made + 1)) /\ UNCHANGED listVars

OpenSession(w, s) ==
  /\ s \in Sessions(history[w])
  /\ ShowSession(w, Open(history[w], s))
  /\ UNCHANGED listVars

RemoveSession(w, s) ==
  /\ s \in Sessions(history[w])
  /\ IF s = history[w].active
     THEN ShowSession(w, Discard(history[w], s))
     ELSE /\ SetHistory(w, Discard(history[w], s))
          /\ UNCHANGED <<surface, context, rows>>
  /\ UNCHANGED listVars

PinSession(w, s) ==
  /\ s \in Sessions(history[w])
  /\ SetHistory(w, TogglePin(history[w], s))
  /\ UNCHANGED <<surface, context, rows, listVars>>

RenameSession(w, s) ==
  /\ s \in Sessions(history[w])
  /\ SetHistory(w, Rename(history[w], s))
  /\ UNCHANGED <<surface, context, rows, listVars>>

\* The page is loaded again; the agents of its asks run on.
Reload(w) ==
  /\ ShowSession(w, Load(store))
  /\ asks' = [a \in DOMAIN asks |->
                IF asks[a].window = w /\ asks[a].pc \in {"reading", "sent"}
                THEN [asks[a] EXCEPT !.pc = "lost"] ELSE asks[a]]
  /\ processing' = [processing EXCEPT ![w] = FALSE]
  /\ down' = [down EXCEPT ![w] = <<>>]
  /\ attached' = [attached EXCEPT ![w] = {}]
  /\ reading' = [reading EXCEPT ![w] = {}]

-----------------------------------------------------------------------------
(* Attachments *)

paneVars == <<history, store, surface, context, rows, asks, processing, down, made>>

Attach(w, f) ==
  attached' = [attached EXCEPT ![w] = IF Cardinality(@) < MaxFiles THEN @ \cup {f} ELSE @]

AttachFile(w, f) ==
  /\ f \in PathFiles
  /\ Attach(w, f)
  /\ UNCHANGED <<reading, paneVars>>

\* A file without a path; the limit is looked at when it has been read.
DropFile(w, f) ==
  /\ f \in InlineFiles
  /\ reading' = [reading EXCEPT ![w] = @ \cup {f}]
  /\ UNCHANGED <<attached, paneVars>>

\* Faulty: a file that was read is attached whatever is there by then.
FileReadAnyway(w, f) ==
  /\ f \in reading[w]
  /\ reading' = [reading EXCEPT ![w] = @ \ {f}]
  /\ attached' = [attached EXCEPT ![w] = @ \cup {f}]
  /\ UNCHANGED paneVars

FileRead(w, f) ==
  /\ f \in reading[w]
  /\ reading' = [reading EXCEPT ![w] = @ \ {f}]
  /\ Attach(w, f)
  /\ UNCHANGED paneVars

DetachFile(w, f) ==
  /\ f \in attached[w]
  /\ attached' = [attached EXCEPT ![w] = @ \ {f}]
  /\ UNCHANGED <<reading, paneVars>>

-----------------------------------------------------------------------------

User ==
  \E w \in Windows :
    \/ \E long \in BOOLEAN : SendMessage(w, long)
    \/ CreateSession(w)
    \/ \E s \in Sessions(history[w]) :
         OpenSession(w, s) \/ RemoveSession(w, s) \/ PinSession(w, s) \/ RenameSession(w, s)
    \/ Reload(w)
    \/ \E f \in PathFiles \cup InlineFiles : AttachFile(w, f) \/ DropFile(w, f) \/ DetachFile(w, f)

Pane ==
  \/ \E a \in DOMAIN asks : AttachmentsRead(a)
  \/ \E w \in Windows :
       \/ HandleQwenEvent(w) \/ HandleAnswer(w)
       \/ \E f \in InlineFiles : FileRead(w, f)

AgentEnds == \E a \in DOMAIN asks, exit \in Exits : AgentExits(a, exit)

Agent == AgentEnds \/ \E a \in DOMAIN asks, kind \in Events : Emit(a, kind)

Next == User \/ Pane \/ Agent

Spec == Init /\ [][Next]_vars

Saved ==
  INSTANCE Conversations WITH
    pages <- [w \in Windows |-> history[w].messages],
    open <- [w \in Windows |-> history[w].active],
    saved <- [pages |-> store.messages, open |-> store.active]

-----------------------------------------------------------------------------
(* Properties *)

\* What is on show is what opening the session again would show: messages
\* are rendered by one path and saved by another, and sends, answers of
\* earlier sends, switches, removals and reloads come in any order.
ShownIsRecorded ==
  \A w \in Windows :
    /\ ActiveMessages(history[w]) = LastN(surface[w], MaxMessages)
    /\ history[w].active = None <=> history[w].list = <<>>

\* The context the agent will be given is the end of the conversation on
\* show, never of another one (contextSegments is kept beside both).
ContextIsTail ==
  \A w \in Windows : IsSuffix(context[w], Replay(surface[w]))

InFlight(ask) == ask.pc \in {"reading", "sent"}

\* A request carries the conversation it was asked in, though another may
\* have been opened while its attachments were read, and other windows write
\* the same store.  Messages beyond the limit and sessions removed since are
\* gone.
AskedInItsConversation ==
  \A a \in DOMAIN asks : InFlight(asks[a]) =>
    LET h == history[asks[a].window]
        s == asks[a].session
    IN  \/ s \notin Sessions(h) \/ Len(h.messages[s]) = MaxMessages
        \/ ToSet(asks[a].context) \subseteq ToSet(h.messages[s])

\* The guard of the service is set while a request is in flight, which is
\* then the only one of its window; after any order of refusals, retries,
\* failures and reloads.
GuardHasRequest ==
  \A w \in Windows :
    LET sent == {a \in DOMAIN asks : asks[a].window = w /\ asks[a].pc = "sent"}
    IN  /\ processing[w] <=> sent # {}
        /\ \A a, b \in sent : a = b

\* The stream does not say whose events it carries.  It need not: they are
\* those of the request in flight, or of one a reload has cut off, and an
\* answer is the last to come from its request.
StreamIsCurrent ==
  \A w \in Windows : \A i \in DOMAIN down[w] :
    LET a == down[w][i].ask
    IN  /\ asks[a].window = w
        /\ asks[a].pc \in {"sent", "lost"}
        /\ down[w][i].kind \in Exits =>
             asks[a].agent = "ended" /\ \A j \in DOMAIN down[w] : j > i => down[w][j].ask # a

\* No request waits for nothing: the agent of a request in flight runs, or its
\* answer is on the way to the window.  So the guard is not set for good, by
\* no order of failures, second attempts, refusals and reloads.
RequestsWillEnd ==
  \A a \in DOMAIN asks : asks[a].pc = "sent" =>
    \/ asks[a].agent = "running"
    \/ LET coming == down[asks[a].window]
       IN  \E i \in DOMAIN coming : coming[i].ask = a /\ coming[i].kind \in Exits

\* What there is still to do.
Unsent == {a \in DOMAIN asks : asks[a].pc = "reading"}
AttemptsLeft == UNION {{a} \X (asks[a].attempt + 1 .. MaxRetries) : a \in DOMAIN asks}
Running == {a \in DOMAIN asks : asks[a].agent = "running"}
Coming == UNION {{w} \X DOMAIN down[w] : w \in Windows}
BeingRead == UNION {{w} \X reading[w] : w \in Windows}

Work ==
  <<Cardinality(Unsent), Cardinality(AttemptsLeft), Cardinality(Running), Cardinality(Coming),
    Cardinality(BeingRead)>>

\* Answers start agents and agents send answers, but not for ever: whatever the
\* page does next, and whichever agent ends next, there is less to do after it.
\* Only the user and the events of a running agent make more.
WorkRunsOut == [][Pane \/ AgentEnds => Descends(Work', Work)]_vars

\* No more files are attached than the limit, though several that were
\* dropped together are read at the same time (DOCS.md:82).
AttachmentsAreLimited == \A w \in Windows : Cardinality(attached[w]) <= MaxFiles

\* Rows that say the agent is thinking are not left behind: each stands for
\* an ask nothing was heard of yet, or one answered without a single event.
RowsHaveAsks ==
  \A w \in Windows :
    rows[w] <= Cardinality({a \in DOMAIN asks :
                              /\ asks[a].window = w /\ ~ asks[a].shown
                              /\ asks[a].pc \in {"reading", "sent", "answered"}})

\* Every conversation of a window is in the store with all its messages, so
\* that it is there after a restart (DOCS.md:85).  Not so with two windows.
ConversationsAreStored ==
  \A w \in Windows : \A s \in Sessions(history[w]) :
    \/ history[w].messages[s] = <<>>
    \/ s \in Sessions(store) /\ store.messages[s] = history[w].messages[s]

\* No conversation is lost or changed but as Conversations says, by the many
\* steps that record, sort, cut, save and load the list, in any window.
ImplementsConversations == Saved!Spec
=============================================================================
