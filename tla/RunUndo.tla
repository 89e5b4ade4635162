------------------------------- MODULE RunUndo -------------------------------
(***************************************************************************)
(* The Undo of an agent's run (chatViewPane.ts).  When the agent announces *)
(* a tool call, the pane reads the files it names, to keep their contents  *)
(* from before; when the run ends it reads them again and shows a card     *)
(* with the changes, whose button writes the old contents back.            *)
(*                                                                         *)
(* Nothing holds the agent back while the pane reads, nothing holds the    *)
(* user back while the card is made, and all reads are awaited.  The pane  *)
(* has one set of touched files and one map of old contents, for whatever  *)
(* run there is.  It keeps texts: what a file's bytes are decoded to.  A   *)
(* read that fails counts as a file that is not there.  When the page is   *)
(* loaded again the agent runs on, and its events reach the new page.      *)
(*                                                                         *)
(* Left out: rows of text (they only make sure there is a container), tool *)
(* calls announced twice (dropped by their id), the second attempt of an   *)
(* agent that failed (its run counts as failed), and files that commands   *)
(* change without naming them.                                             *)
(***************************************************************************)
EXTENDS Naturals, Sequences, SequencesExt, FiniteSets

CONSTANTS
  Paths,
  Contents, Absent,
  Decoded,    \* tryDecodeUtf8, and the bytes the text is written as
  Unread,     \* what a read under way has brought so far
  Calls       \* the path lists of tool calls

ASSUME CallAssumption == Calls \subseteq Seq(Paths) \ {<<>>}
ASSUME ContentAssumption ==
  Absent \notin Contents /\ Unread \notin Contents \cup {Absent}
ASSUME DecodedAssumption == Decoded \in [Contents -> Contents]

VARIABLES
  file,        \* the files on disk
  agents,      \* the agents at work: per run, the paths of calls announced and
               \* not yet carried out
  down,        \* what the agent has announced and the pane not yet handled
  processing,  \* the run that holds the guard of the service, 0 for none
  sending,     \* messages whose attachments are being read
  container,   \* currentRunContainer, 0 for none; made counts them
  made,
  complete,    \* containers that carry the completion marker
  touched,     \* runTouchedFiles
  snapshots,   \* runFileSnapshots
  rendered,    \* runSummaryRendered
  captures,    \* calls of captureRunFileSnapshots under way
  summaries,   \* calls of addRunSummaryCard under way
  cards,       \* the cards on show
  runs,        \* history variable: each run's files at its start, what the agent
               \* has written, and in which ways it was disturbed
  stray        \* history variable: the next run starts among leftovers

serviceVars == <<processing, sending>>
paneVars == <<container, made, complete, touched, snapshots, rendered>>
awaitVars == <<captures, summaries>>
ghostVars == <<runs, stray>>
vars == <<file, agents, down, serviceVars, paneVars, awaitVars, cards, ghostVars>>

Files == [Paths -> Contents \cup {Absent}]
\* "no": the run went undisturbed.
Disturbances == {"no", "raced", "twice", "late", "cleared", "elsewhere", "overtaken", "failed",
                 "unread"}

\* Contents of some of the paths.
OldContents == UNION {[D -> Contents \cup {Absent}] : D \in SUBSET Paths}

\* What is in the sequences, when there have been n runs and m containers.
EventsOf(n) == [kind : {"call"}, run : 1 .. n, paths : Calls] \cup [kind : {"result", "answer"}, run : 1 .. n]
Captures == [left : Seq(Paths) \ {<<>>}, text : Contents \cup {Absent, Unread}]
SummariesOf(n) ==
  [run : 1 .. n, seen : SUBSET Paths, path : Paths, before : Contents \cup {Absent}, changes : OldContents]
CardsOf(n, m) ==
  [run : 1 .. n, container : 1 .. m, shown : BOOLEAN, changes : OldContents, left : SUBSET Paths,
   button : {"Undo", "Undoing...", "Undone", "Undo failed"}]
Runs == [base : Files, safe : SUBSET Paths, done : BOOLEAN, spoilt : Disturbances]

TypeOK ==
  /\ file \in Files
  /\ agents \in [DOMAIN agents -> Seq(Paths)] /\ DOMAIN agents \subseteq 1 .. Len(runs)
  /\ down \in Seq(EventsOf(Len(runs)))
  /\ processing \in 0 .. Len(runs) /\ sending \in Nat
  /\ container \in 0 .. made /\ made \in Nat /\ complete \subseteq 1 .. made
  /\ touched \subseteq Paths
  /\ snapshots \in OldContents
  /\ rendered \in BOOLEAN
  /\ captures \in Seq(Captures)
  /\ summaries \in Seq(SummariesOf(Len(runs)))
  /\ cards \in Seq(CardsOf(Len(runs), made))
  /\ runs \in Seq(Runs)
  /\ stray \in BOOLEAN

Init ==
  /\ file \in Files
  /\ agents = <<>> /\ down = <<>>
  /\ processing = 0 /\ sending = 0
  /\ container = 0 /\ made = 0 /\ complete = {}
  /\ touched = {} /\ snapshots = <<>> /\ rendered = FALSE
  /\ captures = <<>> /\ summaries = <<>> /\ cards = <<>>
  /\ runs = <<>> /\ stray = FALSE

\* The runs of R were disturbed; the first disturbance is noted.
Spoil(R, how) ==
  [r \in DOMAIN runs |->
     IF r \in R /\ runs[r].spoilt = "no" THEN [runs[r] EXCEPT !.spoilt = how] ELSE runs[r]]

\* Runs that the pane has not seen the end of.
Open ==
  {r \in DOMAIN runs : ~ runs[r].done} \cup {summaries[i].run : i \in DOMAIN summaries}

\* What is read of a file, if it can be read.
AsText(c) == IF c = Absent THEN Absent ELSE Decoded[c]

-----------------------------------------------------------------------------
(* Captures *)

\* captureRunFileSnapshots up to an await: paths whose old content is known in
\* s are touched and passed over, the next is touched and read.
Known(left, s) ==
  CHOOSE n \in 0 .. Len(left) :
    /\ \A i \in 1 .. n : left[i] \in DOMAIN s
    /\ n < Len(left) => left[n + 1] \notin DOMAIN s

Reached(left, s) == {left[i] : i \in {j \in DOMAIN left : j <= Known(left, s) + 1}}

\* Faulty: what is known is read again.
CaptureAll(left, s) == IF left = <<>> THEN <<>> ELSE <<[left |-> left, text |-> Unread]>>

\* Faulty: goes on past the last path.
CaptureOnward(left, s) == <<[left |-> SubSeq(left, Known(left, s) + 1, Len(left)), text |-> Unread]>>

\* The capture that goes on with left, if anything is left to read.
CaptureFrom(left, s) ==
  IF Known(left, s) = Len(left) THEN <<>>
  ELSE <<[left |-> SubSeq(left, Known(left, s) + 1, Len(left)), text |-> Unread]>>

BeginCapture(paths) ==
  /\ touched' = touched \cup Reached(paths, snapshots)
  /\ captures' = captures \o CaptureFrom(paths, snapshots)

CaptureReads(i) ==
  /\ i \in DOMAIN captures /\ captures[i].text = Unread
  /\ LET p == Head(captures[i].left)
     IN  /\ captures' = [captures EXCEPT ![i].text = AsText(file[p])]
         /\ runs' = [r \in DOMAIN runs |-> IF r = Len(runs) THEN [runs[r] EXCEPT !.safe = @ \cup {p}] ELSE runs[r]]
  /\ UNCHANGED <<file, agents, down, serviceVars, paneVars, summaries, cards, stray>>

\* A file that is there cannot be read: it counts as one that is not.
CaptureFails(i) ==
  /\ i \in DOMAIN captures /\ captures[i].text = Unread
  /\ file[Head(captures[i].left)] # Absent
  /\ captures' = [captures EXCEPT ![i].text = Absent]
  /\ runs' = Spoil(Open, "unread")
  /\ UNCHANGED <<file, agents, down, serviceVars, paneVars, summaries, cards, stray>>

\* The map may be that of another run by now.
CaptureDone(i) ==
  /\ i \in DOMAIN captures /\ captures[i].text # Unread
  /\ LET left == Tail(captures[i].left)
         s == [p \in DOMAIN snapshots \cup {Head(captures[i].left)} |->
                 IF p = Head(captures[i].left) THEN captures[i].text ELSE snapshots[p]]
     IN  /\ snapshots' = s
         /\ touched' = touched \cup Reached(left, s)
         /\ captures' = RemoveAt(captures, i) \o CaptureFrom(left, s)
  /\ UNCHANGED <<file, agents, down, serviceVars, container, made, complete, rendered, summaries,
                 cards, ghostVars>>

-----------------------------------------------------------------------------
(* The user's messages and sessions *)

\* Faulty: the next run counts as summed up.
ClearKeepingRendered ==
  /\ container' = 0 /\ touched' = {} /\ snapshots' = <<>> /\ UNCHANGED rendered
  /\ summaries' = [i \in DOMAIN summaries |-> [summaries[i] EXCEPT !.seen = {}]]

\* A loop over the touched files that is under way goes on with those that
\* are added after the clearing.
Clear ==
  /\ container' = 0 /\ touched' = {} /\ snapshots' = <<>> /\ rendered' = FALSE
  /\ summaries' = [i \in DOMAIN summaries |-> [summaries[i] EXCEPT !.seen = {}]]

\* The pane forgets the run before the service has looked at its guard.
SendMessage ==
  /\ Clear
  /\ sending' = sending + 1
  /\ runs' = Spoil(Open, "cleared")
  /\ stray' = (\/ sending > 0 /\ stray
               \/ Open # {} \/ captures # <<>>
               \/ DOMAIN agents # {} \/ down # <<>>)
  /\ UNCHANGED <<file, agents, down, processing, made, complete, captures, cards>>

Submit ==
  /\ sending > 0 /\ sending' = sending - 1
  /\ \/ processing # 0 /\ UNCHANGED <<agents, processing, ghostVars>>
     \/ /\ processing = 0 /\ processing' = Len(runs) + 1
        /\ agents' = [r \in DOMAIN agents \cup {Len(runs) + 1} |->
                      IF r \in DOMAIN agents THEN agents[r] ELSE <<>>]
        /\ runs' = Append(Spoil(Open, "overtaken"), [base |-> file, safe |-> {}, done |-> FALSE,
                                 spoilt |-> IF stray THEN "cleared" ELSE "no"])
        /\ stray' = (sending > 1)
  /\ UNCHANGED <<file, down, paneVars, awaitVars, cards>>

\* clearConversationSurface and the tool calls of the session again: the files
\* of each are captured as they are now, all at once.  Cards are not recorded.
\* There is a container unless the session ends with a message of the user.
ShowSession(replayed, answered) ==
  /\ container' = IF answered THEN made + 1 ELSE 0
  /\ made' = IF answered THEN made + 1 ELSE made
  /\ snapshots' = <<>> /\ rendered' = FALSE
  /\ touched' = {Head(replayed[i]) : i \in DOMAIN replayed}

Recaptured(replayed) == [i \in DOMAIN replayed |-> [left |-> replayed[i], text |-> Unread]]

OpenSession(replayed, answered) ==
  /\ ShowSession(replayed, answered)
  /\ captures' = captures \o Recaptured(replayed)
  /\ summaries' = [i \in DOMAIN summaries |-> [summaries[i] EXCEPT !.seen = {}]]
  /\ cards' = [i \in DOMAIN cards |-> [cards[i] EXCEPT !.shown = FALSE]]
  /\ runs' = Spoil(Open, "cleared")
  /\ stray' = (stray \/ sending > 0)
  /\ UNCHANGED <<file, agents, down, serviceVars, complete>>

\* The page is loaded again, and shows the session that was active.  What it
\* awaited is gone, an undo that is not through too; agents run on.
Reload(replayed, answered) ==
  /\ ShowSession(replayed, answered)
  /\ captures' = Recaptured(replayed)
  /\ summaries' = <<>>
  /\ down' = <<>> /\ processing' = 0 /\ sending' = 0
  /\ cards' = [i \in DOMAIN cards |-> [cards[i] EXCEPT !.shown = FALSE, !.left = {}]]
  /\ runs' = [r \in DOMAIN runs |-> [Spoil(Open, "cleared")[r] EXCEPT !.done = TRUE]]
  /\ stray' = FALSE
  /\ UNCHANGED <<file, agents, complete>>

\* The user, or another program, writes a file.
WriteElsewhere(p, c) ==
  /\ file[p] # c
  /\ file' = [file EXCEPT ![p] = c]
  /\ runs' = Spoil(DOMAIN runs, "elsewhere")
  /\ UNCHANGED <<agents, down, serviceVars, paneVars, awaitVars, cards, stray>>

-----------------------------------------------------------------------------
(* The agent *)

Announce(r, paths) ==
  /\ r \in DOMAIN agents
  /\ down' = Append(down, [kind |-> "call", run |-> r, paths |-> paths])
  /\ agents' = [agents EXCEPT ![r] = @ \o paths]
  /\ UNCHANGED <<file, serviceVars, paneVars, awaitVars, cards, ghostVars>>

\* A call is carried out; c is what the file is then, as it was if the call
\* did nothing.  Files the pane has not read by now are raced.
CarryOut(r, c) ==
  /\ r \in DOMAIN agents /\ agents[r] # <<>>
  /\ agents' = [agents EXCEPT ![r] = Tail(@)]
  /\ file' = [file EXCEPT ![Head(agents[r])] = c]
  /\ LET others == Spoil(DOMAIN runs \ {r}, "overtaken")
     IN  runs' = IF Head(agents[r]) \in runs[r].safe THEN others
                 ELSE [others EXCEPT ![r] = Spoil({r}, "raced")[r]]
  /\ UNCHANGED <<down, serviceVars, paneVars, awaitVars, cards, stray>>

\* The agent says so when it has ended well; the answer comes last, and only
\* to the page that asked.
AgentEnds(r, well) ==
  /\ r \in DOMAIN agents /\ agents[r] = <<>>
  /\ agents' = [q \in DOMAIN agents \ {r} |-> agents[q]]
  /\ down' = down \o (IF well THEN <<[kind |-> "result", run |-> r]>> ELSE <<>>)
                  \o (IF processing = r THEN <<[kind |-> "answer", run |-> r]>> ELSE <<>>)
  /\ runs' = IF well THEN runs ELSE Spoil({r}, "failed")
  /\ UNCHANGED <<file, serviceVars, paneVars, awaitVars, cards, stray>>

-----------------------------------------------------------------------------
(* What arrives *)

CallArrives ==
  /\ down # <<>> /\ Head(down).kind = "call" /\ down' = Tail(down)
  /\ BeginCapture(Head(down).paths)
  /\ IF container = 0
     THEN made' = made + 1 /\ container' = made + 1
     ELSE UNCHANGED <<made, container>>
  /\ runs' = IF \E i \in DOMAIN captures : ToSet(captures[i].left) \cap ToSet(Head(down).paths) # {}
             THEN Spoil(Open, "twice") ELSE runs
  /\ UNCHANGED <<file, agents, serviceVars, complete, snapshots, rendered, summaries, cards, stray>>

\* A file whose old content is not known counts as a new one.
Before(p) == IF p \in DOMAIN snapshots THEN snapshots[p] ELSE Absent

\* addRunCompletionMarker, and addRunSummaryCard up to its first await.
ResultArrives ==
  /\ down # <<>> /\ Head(down).kind = "result" /\ down' = Tail(down)
  /\ LET begins == container # 0 /\ container \notin complete
     IN  /\ complete' = IF begins THEN complete \cup {container} ELSE complete
         /\ \/ /\ begins /\ ~ rendered
               /\ \E p \in touched :
                    summaries' = Append(summaries,
                      [run |-> Head(down).run, seen |-> {p}, path |-> p, before |-> Before(p), changes |-> <<>>])
            \/ (~ begins \/ rendered \/ touched = {}) /\ UNCHANGED summaries
  /\ runs' = IF captures # <<>> THEN Spoil({Head(down).run}, "late") ELSE runs
  /\ UNCHANGED <<file, agents, serviceVars, container, made, touched, snapshots, rendered, captures,
                 cards, stray>>

AnswerArrives ==
  /\ down # <<>> /\ Head(down).kind = "answer" /\ down' = Tail(down)
  /\ processing' = 0
  /\ runs' = [runs EXCEPT ![Head(down).run].done = TRUE]
  /\ UNCHANGED <<file, agents, sending, paneVars, awaitVars, cards, stray>>

\* A file is read, and the next one or the card follows at once.  A file that
\* cannot be read counts as one that is not there.  The card goes where the
\* pane is by now; nowhere if a message was sent meanwhile.
SummaryReads(i, after) ==
  /\ i \in DOMAIN summaries
  /\ LET s == summaries[i]
         changes == IF s.before = after THEN s.changes
                    ELSE [p \in DOMAIN s.changes \cup {s.path} |->
                            IF p = s.path THEN s.before ELSE s.changes[p]]
     IN  /\ after \in {AsText(file[s.path]), Absent}
         /\ runs' = IF after = AsText(file[s.path]) THEN runs ELSE Spoil({s.run}, "unread")
         /\ \/ \E p \in touched \ s.seen :
                 /\ summaries' = [summaries EXCEPT ![i] =
                      [s EXCEPT !.seen = @ \cup {p}, !.path = p, !.before = Before(p), !.changes = changes]]
                 /\ UNCHANGED <<rendered, cards>>
            \/ /\ touched \subseteq s.seen
               /\ summaries' = RemoveAt(summaries, i)
               /\ rendered' = TRUE
               /\ cards' = IF DOMAIN changes = {} \/ container = 0 THEN cards
                           ELSE Append(cards, [run |-> s.run, container |-> container, shown |-> TRUE,
                                               changes |-> changes, left |-> {}, button |-> "Undo"])
  /\ UNCHANGED <<file, agents, down, serviceVars, container, made, complete, touched, snapshots,
                 captures, stray>>

-----------------------------------------------------------------------------
(* Undo *)

undoVars == <<agents, down, serviceVars, paneVars, awaitVars, stray>>

PressUndo(i) ==
  /\ i \in DOMAIN cards /\ cards[i].shown /\ cards[i].button \in {"Undo", "Undo failed"}
  /\ cards' = [cards EXCEPT ![i].button = "Undoing...", ![i].left = DOMAIN cards[i].changes]
  /\ UNCHANGED <<file, runs, undoVars>>

\* One file is taken care of; done is what the button says after the last.
Past(i, p) ==
  cards' = [cards EXCEPT ![i].left = @ \ {p},
                         ![i].button = IF cards[i].left = {p} THEN "Undone" ELSE @]

UndoOne(i, p) ==
  /\ i \in DOMAIN cards /\ p \in cards[i].left
  /\ file' = [file EXCEPT ![p] = cards[i].changes[p]]
  /\ Past(i, p)
  /\ runs' = Spoil(DOMAIN runs \ {cards[i].run}, "overtaken")
  /\ UNCHANGED undoVars

\* A file that cannot be deleted is passed over, one that cannot be written
\* ends the undo.
UndoFails(i, p) ==
  /\ i \in DOMAIN cards /\ p \in cards[i].left
  /\ \/ cards[i].changes[p] = Absent /\ Past(i, p)
     \/ /\ cards[i].changes[p] # Absent
        /\ cards' = [cards EXCEPT ![i].left = {}, ![i].button = "Undo failed"]
  /\ runs' = Spoil({cards[i].run}, "failed")
  /\ UNCHANGED <<file, undoVars>>

-----------------------------------------------------------------------------
User ==
  \/ SendMessage
  \/ \E replayed \in Seq(Calls), answered \in BOOLEAN :
       OpenSession(replayed, answered) \/ Reload(replayed, answered)
  \/ \E p \in Paths, c \in Contents \cup {Absent} : WriteElsewhere(p, c)
  \/ \E i \in DOMAIN cards : PressUndo(i)

Agent ==
  \E r \in DOMAIN agents :
    \/ \E paths \in Calls : Announce(r, paths)
    \/ \E c \in Contents \cup {Absent} : CarryOut(r, c)
    \/ \E well \in BOOLEAN : AgentEnds(r, well)

Pane ==
  \/ Submit \/ CallArrives \/ ResultArrives \/ AnswerArrives
  \/ \E i \in DOMAIN captures : CaptureReads(i) \/ CaptureFails(i) \/ CaptureDone(i)
  \/ \E i \in DOMAIN summaries : \E after \in Contents \cup {Absent} : SummaryReads(i, after)
  \/ \E i \in DOMAIN cards : \E p \in cards[i].left : UndoOne(i, p) \/ UndoFails(i, p)

Next == User \/ Agent \/ Pane

Spec == Init /\ [][Next]_vars

-----------------------------------------------------------------------------
(* Properties *)

\* After an undo every file has the text it had when the run began, those the
\* agent made, deleted or named in several calls included, unless the run was
\* disturbed in one of the ways the history names.  A file whose text the run
\* did not change is left alone, any other is what that text is written as.
UndoRestoresRun ==
  \A i \in DOMAIN cards :
    cards[i].button = "Undone" /\ runs[cards[i].run].spoilt = "no" =>
      \A p \in Paths : AsText(runs[cards[i].run].base[p]) \in {file[p], AsText(file[p])}

\* A run that has changed the text of a file, and was not disturbed, ends with
\* a card to undo it.
ChangedRunHasCard ==
  \A r \in DOMAIN runs :
    /\ runs[r].done /\ runs[r].spoilt = "no" /\ r \notin Open
    /\ \E p \in Paths : AsText(file[p]) # AsText(runs[r].base[p])
    => \E i \in DOMAIN cards : cards[i].run = r
=============================================================================
