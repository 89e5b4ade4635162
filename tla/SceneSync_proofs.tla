--------------------------- MODULE SceneSync_proofs ---------------------------
(***************************************************************************)
(* Safety of the way between bridge, editors and disk, for every set of    *)
(* files and texts and any number of saves, reads and events under way.    *)
(***************************************************************************)
EXTENDS SceneSync, Descent_proofs, SequenceTheorems

-----------------------------------------------------------------------------
(* Reads and writes under way *)

Reads == [file : Files, text : Texts \cup {NoText}]

\* A read under way is of a file.
LEMMA ReadOfFile ==
  ASSUME NEW s \in Seq(Reads), NEW i \in DOMAIN s
  PROVE  s[i].file \in Files /\ s[i].text \in Texts \cup {NoText}
<1>1. s[i] \in Reads
  OBVIOUS
<1>2. QED
  BY <1>1 DEF Reads

\* What is where after a read is taken out.
LEMMA ReadsLeft ==
  ASSUME NEW s \in Seq(Reads), NEW i \in DOMAIN s
  PROVE  /\ RemoveAt(s, i) \in Seq(Reads) /\ Len(RemoveAt(s, i)) = Len(s) - 1
         /\ \A j \in 1 .. Len(s) - 1 : RemoveAt(s, i)[j] = IF j < i THEN s[j] ELSE s[j + 1]
<1>1. Len(s) \in Nat /\ i \in 1 .. Len(s)
  OBVIOUS
<1> DEFINE first == SubSeq(s, 1, i - 1)
           rest  == SubSeq(s, i + 1, Len(s))
<1>2. first \in Seq(Reads) /\ rest \in Seq(Reads)
  BY <1>1
<1>3. Len(first) = i - 1 /\ \A j \in 1 .. i - 1 : first[j] = s[j]
  BY <1>1
<1>4. Len(rest) = Len(s) - i /\ \A j \in 1 .. Len(s) - i : rest[j] = s[j + i]
  BY <1>1
<1>5. RemoveAt(s, i) = first \o rest
  BY DEF RemoveAt
<1> HIDE DEF first, rest
<1>6. RemoveAt(s, i) \in Seq(Reads) /\ Len(RemoveAt(s, i)) = Len(s) - 1
  BY <1>1, <1>2, <1>3, <1>4, <1>5
<1>7. ASSUME NEW j \in 1 .. Len(s) - 1
      PROVE  RemoveAt(s, i)[j] = IF j < i THEN s[j] ELSE s[j + 1]
  <2>1. (first \o rest)[j] = IF j <= Len(first) THEN first[j] ELSE rest[j - Len(first)]
    BY <1>1, <1>2, <1>3, <1>4
  <2>2. CASE j < i
    BY <1>1, <1>3, <1>5, <2>1, <2>2
  <2>3. CASE ~ (j < i)
    <3>1. j - (i - 1) \in 1 .. Len(s) - i /\ j - (i - 1) + i = j + 1
      BY <1>1, <2>3
    <3>2. rest[j - (i - 1)] = s[j + 1]
      BY <1>4, <3>1
    <3>3. QED
      BY <1>1, <1>3, <1>5, <2>1, <2>3, <3>2
  <2>4. QED
    BY <2>2, <2>3
<1>8. QED
  BY <1>6, <1>7

\* Taking a read out leaves the others, all of them.
LEMMA ReadRemoved ==
  ASSUME NEW s \in Seq(Reads), NEW i \in DOMAIN s
  PROVE  /\ RemoveAt(s, i) \in Seq(Reads)
         /\ \A j \in DOMAIN RemoveAt(s, i) : \E k \in DOMAIN s : RemoveAt(s, i)[j] = s[k]
         /\ \A k \in DOMAIN s \ {i} : \E j \in DOMAIN RemoveAt(s, i) : RemoveAt(s, i)[j] = s[k]
<1> DEFINE left == RemoveAt(s, i)
<1>1. /\ left \in Seq(Reads) /\ Len(left) = Len(s) - 1
      /\ \A j \in 1 .. Len(s) - 1 : left[j] = IF j < i THEN s[j] ELSE s[j + 1]
  BY ReadsLeft
<1> HIDE DEF left
<1>2. Len(s) \in Nat /\ DOMAIN s = 1 .. Len(s) /\ DOMAIN left = 1 .. Len(s) - 1
  BY <1>1
<1>3. ASSUME NEW j \in DOMAIN left
      PROVE  \E k \in DOMAIN s : left[j] = s[k]
  <2>1. j \in DOMAIN s /\ j + 1 \in DOMAIN s
    BY <1>2
  <2>2. left[j] = s[j] \/ left[j] = s[j + 1]
    BY <1>1, <1>2
  <2>3. QED
    BY <2>1, <2>2
<1>4. ASSUME NEW k \in DOMAIN s \ {i}
      PROVE  \E j \in DOMAIN left : left[j] = s[k]
  <2>1. CASE k < i
    <3>1. k \in DOMAIN left /\ left[k] = s[k]
      BY <1>1, <1>2, <2>1
    <3>2. QED
      BY <3>1
  <2>2. CASE ~ (k < i)
    <3>1. k - 1 \in DOMAIN left /\ ~ (k - 1 < i) /\ k - 1 + 1 = k
      BY <1>2, <2>2
    <3>2. left[k - 1] = s[k]
      BY <1>1, <1>2, <3>1
    <3>3. QED
      BY <3>1, <3>2
  <2>3. QED
    BY <2>1, <2>2
<1>5. QED
  BY <1>1, <1>3, <1>4 DEF left

\* A new read comes last.
LEMMA ReadAdded ==
  ASSUME NEW s \in Seq(Reads), NEW r \in Reads
  PROVE  /\ Append(s, r) \in Seq(Reads)
         /\ \A j \in DOMAIN Append(s, r) : Append(s, r)[j] = r \/ (j \in DOMAIN s /\ Append(s, r)[j] = s[j])
OBVIOUS

\* A read that gets its text keeps its file.
LEMMA ReadFilled ==
  ASSUME NEW s \in Seq(Reads), NEW i \in DOMAIN s, NEW t \in Texts
  PROVE  /\ [s EXCEPT ![i].text = t] \in Seq(Reads)
         /\ DOMAIN [s EXCEPT ![i].text = t] = DOMAIN s
         /\ [s EXCEPT ![i].text = t][i].file = s[i].file
         /\ [s EXCEPT ![i].text = t][i].text = t
         /\ \A j \in DOMAIN s \ {i} : [s EXCEPT ![i].text = t][j] = s[j]
<1>1. s \in [1 .. Len(s) -> Reads] /\ Len(s) \in Nat /\ i \in 1 .. Len(s)
  OBVIOUS
<1>2. s[i] \in Reads
  BY <1>1
<1>3. [s[i] EXCEPT !.text = t] \in Reads /\ [s[i] EXCEPT !.text = t].file = s[i].file
      /\ [s[i] EXCEPT !.text = t].text = t
  BY <1>2 DEF Reads
<1>4. [s EXCEPT ![i].text = t] = [j \in DOMAIN s |-> IF j = i THEN [s[i] EXCEPT !.text = t] ELSE s[j]]
  OBVIOUS
<1> DEFINE filled == [s EXCEPT ![i].text = t]
<1>5. filled = [j \in 1 .. Len(s) |-> IF j = i THEN [s[i] EXCEPT !.text = t] ELSE s[j]]
  BY <1>1, <1>4
<1> HIDE DEF filled
<1>6. filled \in [1 .. Len(s) -> Reads] /\ filled[i] = [s[i] EXCEPT !.text = t]
  BY <1>1, <1>3, <1>5
<1>7. filled \in Seq(Reads) /\ DOMAIN filled = DOMAIN s
  BY <1>1, <1>6
<1>8. \A j \in DOMAIN s \ {i} : filled[j] = s[j]
  BY <1>1, <1>5
<1>9. QED
  BY <1>3, <1>6, <1>7, <1>8 DEF filled

\* A write joins the end of its file's queue, and leaves from the front.
LEMMA WriteQueued ==
  ASSUME NEW s \in Seq(Texts), NEW t \in Texts
  PROVE  /\ Append(s, t) \in Seq(Texts)
         /\ \A j \in DOMAIN Append(s, t) : Append(s, t)[j] = t \/ (j \in DOMAIN s /\ Append(s, t)[j] = s[j])
OBVIOUS

\* The front of a queue and what is left of it.
LEMMA WriteTaken ==
  ASSUME NEW s \in Seq(Texts), s # <<>>
  PROVE  /\ Tail(s) \in Seq(Texts) /\ Head(s) \in Texts
         /\ 1 \in DOMAIN s /\ Head(s) = s[1]
         /\ \A j \in DOMAIN Tail(s) : j + 1 \in DOMAIN s /\ Tail(s)[j] = s[j + 1]
OBVIOUS

-----------------------------------------------------------------------------
(* The types *)

\* What is accepted of a text is a text of the same file.
LEMMA AcceptedText ==
  ASSUME NEW t \in Texts
  PROVE  /\ Normal[t] \in Texts /\ Home[Normal[t]] = Home[t]
         /\ Accepted(t) \in Texts \cup {NoText}
         /\ Accepted(t) # NoText => Accepted(t) \in Texts /\ Home[Accepted(t)] = Home[t]
<1>1. Normal[t] \in Texts /\ Home[Normal[t]] = Home[t]
  BY TextAssumption
<1>2. QED
  BY <1>1 DEF Accepted

\* A load leaves the old text or the accepted one, and no save without text.
LEMMA LoadedText ==
  ASSUME BridgeTypes, saveTimer => text # NoText,
         NEW t \in Texts, NEW migrated \in BOOLEAN,
         Bridge!LoadFromText(Accepted(t), migrated)
  PROVE  /\ text' \in Texts \cup {NoText} /\ saveTimer' \in BOOLEAN
         /\ saveTimer' => text' # NoText
         /\ IF Replaces(t)
              THEN text' = Accepted(t) /\ text' # NoText /\ text' \in Texts /\ Home[text'] = Home[t]
              ELSE text' = text
<1>1. Accepted(t) \in Texts \cup {NoText} /\ (Accepted(t) # NoText => Home[Accepted(t)] = Home[t])
  BY AcceptedText
<1>2. QED
  BY <1>1, AbsenceAssumption DEF BridgeTypes, Bridge!LoadFromText, Replaces

\* What a change of a model does to the bridge.
LEMMA HeardText ==
  ASSUME BridgeTypes, saveTimer => text # NoText, NEW f \in Files, NEW t \in Texts,
         ContentChanged(f, t)
  PROVE  BridgeTypes' /\ (saveTimer' => text' # NoText)
<1>1. CASE UNCHANGED bridgeVars
  BY <1>1 DEF bridgeVars, BridgeTypes
<1>2. CASE Bridge!Reload(Accepted(t), FALSE)
  <2>1. Bridge!LoadFromText(Accepted(t), FALSE) /\ uri' = uri
    BY <1>2 DEF Bridge!Reload
  <2>2. QED
    BY <2>1, LoadedText DEF BridgeTypes
<1>3. QED
  BY <1>1, <1>2 DEF ContentChanged

\* A history only grows, by known reasons.
LEMMA MissGrows ==
  ASSUME NEW guarded, DOMAIN guarded \subseteq Reasons, missed \subseteq Reasons, Miss(guarded)
  PROVE  missed \subseteq missed' /\ missed' \subseteq Reasons
BY DEF Miss

\* A reason whose guard holds is in the history.
LEMMA MissCounts ==
  ASSUME NEW guarded, NEW r \in DOMAIN guarded, guarded[r], Miss(guarded)
  PROVE  r \in missed'
BY DEF Miss

\* Attaching to a model of a scene.
LEMMA AttachTypes ==
  ASSUME BridgeTypes, ListenTypes, saveTimer => text # NoText, missed \subseteq Reasons,
         NEW f \in Files, NEW t \in Texts, AttachModelListener(f, t)
  PROVE  BridgeTypes' /\ ListenTypes' /\ (saveTimer' => text' # NoText) /\ missed' \subseteq Reasons
<1>1. CASE UNCHANGED bridgeVars /\ UNCHANGED missed /\ watched' = watched
  BY <1>1 DEF AttachModelListener, bridgeVars, listenVars, BridgeTypes, ListenTypes
<1>2. CASE /\ listening' = f /\ live' = TRUE /\ watched' = f
           /\ Bridge!Open(f, Accepted(t), Normal[t] # t)
           /\ Miss([moved |-> KeepsOtherText(f, t),
                    late  |-> Replaces(t) /\ f \notin dirty /\ t # disk[f]])
  <2>1. Bridge!LoadFromText(Accepted(t), Normal[t] # t) /\ uri' = f
    BY <1>2 DEF Bridge!Open
  <2>2. missed' \subseteq Reasons
    BY <1>2, MissGrows DEF Reasons
  <2>3. QED
    BY <1>2, <2>1, <2>2, LoadedText DEF BridgeTypes, ListenTypes
<1>3. QED
  BY <1>1, <1>2 DEF AttachModelListener, listenVars

\* Editors come, go and change places, without a change of their contents.
EditorsMove ==
  FocusEditor \/ \E f \in Files : ShowEditor(f) \/ HideEditor(f) \/ CloseEditor(f)

\* Another editor becomes the active one, or the listener may lose its model.
LEMMA EditorsMoveOn ==
  ASSUME EditorsMove
  PROVE  /\ UNCHANGED <<dirty, diskVars, window, reads, loader>>
         /\ \/ ActiveEditorChanges \/ NothingActivated
            \/ live' \in BOOLEAN /\ UNCHANGED <<bridgeVars, listening, watched, missed>>
BY DEF EditorsMove, FocusEditor, ShowEditor, HideEditor, CloseEditor, editorVars

\* The file that becomes the active one has an open model.
LEMMA ActiveFile ==
  ASSUME EditorTypes', ActiveEditorChanges
  PROVE  front' \in Files /\ front' \in visible' /\ model'[front'] \in Texts
BY DEF EditorTypes, ActiveEditorChanges

\* Another editor becomes the active one, or none does.
LEMMA ActiveTypes ==
  ASSUME BridgeTypes, ListenTypes, EditorTypes', saveTimer => text # NoText, missed \subseteq Reasons,
         ActiveEditorChanges \/ NothingActivated
  PROVE  BridgeTypes' /\ ListenTypes' /\ (saveTimer' => text' # NoText) /\ missed' \subseteq Reasons
<1>1. CASE ActiveEditorChanges
  BY <1>1, ActiveFile, AttachTypes DEF ActiveEditorChanges
<1>2. CASE NothingActivated
  BY <1>2 DEF NothingActivated, bridgeVars, listenVars, BridgeTypes, ListenTypes
<1>3. QED
  BY <1>1, <1>2

\* The steps of the user keep the types.
LEMMA UserTypes ==
  ASSUME TypeOK, User
  PROVE  TypeOK'
<1>1. ASSUME NEW f \in Files, NEW t \in Texts, TypeText(f, t)
      PROVE  TypeOK'
  <2>1. BridgeTypes' /\ (saveTimer' => text' # NoText)
    BY <1>1, HeardText DEF TypeText, TypeOK
  <2>2. EditorTypes'
    BY <1>1, AbsenceAssumption DEF TypeText, TypeOK, EditorTypes
  <2>3. missed' \subseteq Reasons
    BY <1>1, MissGrows DEF TypeText, ContentChanged, TypeOK, Reasons
  <2>4. QED
    BY <1>1, <2>1, <2>2, <2>3
    DEF TypeText, TypeOK, listenVars, diskVars, ListenTypes, DiskTypes, ReadTypes, LoaderTypes
<1>2. ASSUME NEW f \in Files, SaveEditor(f)
      PROVE  TypeOK'
  <2>1. EditorTypes'
    BY <1>2 DEF SaveEditor, TypeOK, EditorTypes
  <2>2. DiskTypes'
    BY <1>2 DEF SaveEditor, TypeOK, EditorTypes, DiskTypes
  <2>3. QED
    BY <1>2, <2>1, <2>2
    DEF SaveEditor, TypeOK, bridgeVars, listenVars, BridgeTypes, ListenTypes, ReadTypes, LoaderTypes
<1>3. CASE EditorsMove
  <2>1. EditorTypes'
    <3>1. ASSUME NEW f \in Files, ShowEditor(f)
          PROVE  EditorTypes'
      <4>1. model'[f] \in Texts
        BY <3>1 DEF ShowEditor, TypeOK, EditorTypes, DiskTypes
      <4>2. QED
        BY <3>1, <4>1, AbsenceAssumption DEF ShowEditor, TypeOK, EditorTypes, DiskTypes
    <3>2. ASSUME NEW f \in Files, HideEditor(f)
          PROVE  EditorTypes'
      BY <3>2 DEF HideEditor, Leaves, TypeOK, EditorTypes
    <3>3. CASE FocusEditor
      BY <3>3 DEF FocusEditor, editorVars, TypeOK, EditorTypes
    <3>4. ASSUME NEW f \in Files, CloseEditor(f)
          PROVE  EditorTypes'
      BY <3>4, AbsenceAssumption DEF CloseEditor, Leaves, TypeOK, EditorTypes
    <3>5. QED
      BY <1>3, <3>1, <3>2, <3>3, <3>4 DEF EditorsMove
  <2>2. BridgeTypes' /\ ListenTypes' /\ (saveTimer' => text' # NoText) /\ missed' \subseteq Reasons
    BY <1>3, <2>1, EditorsMoveOn, ActiveTypes DEF TypeOK, bridgeVars, BridgeTypes, ListenTypes
  <2>3. UNCHANGED <<diskVars, window, reads, loader>>
    BY <1>3, EditorsMoveOn
  <2>4. QED
    BY <2>1, <2>2, <2>3 DEF TypeOK, diskVars, DiskTypes, ReadTypes, LoaderTypes
<1>4. ASSUME NEW f \in Files, DiscardChanges(f)
      PROVE  TypeOK'
  <2>1. EditorTypes'
    BY <1>4 DEF DiscardChanges, TypeOK, EditorTypes
  <2>2. missed' \subseteq Reasons
    BY <1>4, MissGrows DEF DiscardChanges, TypeOK, Reasons
  <2>3. QED
    BY <1>4, <2>1, <2>2
    DEF DiscardChanges, TypeOK, bridgeVars, listenVars, diskVars, BridgeTypes, ListenTypes, DiskTypes,
        ReadTypes, LoaderTypes
<1>5. ASSUME NEW t \in Texts, EditScene(t)
      PROVE  TypeOK'
  <2>1. BridgeTypes' /\ (saveTimer' => text' # NoText)
    BY <1>5, AbsenceAssumption DEF EditScene, Bridge!Edit, TypeOK, BridgeTypes
  <2>2. QED
    BY <1>5, <2>1
    DEF EditScene, TypeOK, editorVars, listenVars, diskVars, EditorTypes, ListenTypes, DiskTypes,
        ReadTypes, LoaderTypes
<1>6. QED
  BY <1>1, <1>2, <1>3, <1>4, <1>5 DEF User, EditorsMove

\* So do failed writes and writes of other programs.
LEMMA OutsideTypes ==
  ASSUME TypeOK, Outside
  PROVE  TypeOK'
<1>1. ASSUME NEW f \in Files, WriteFails(f)
      PROVE  TypeOK'
  <2>1. DiskTypes'
    BY <1>1, WriteTaken DEF WriteFails, TypeOK, DiskTypes
  <2>2. missed' \subseteq Reasons
    BY <1>1, MissGrows DEF WriteFails, TypeOK, Reasons
  <2>3. QED
    BY <1>1, <2>1, <2>2
    DEF WriteFails, TypeOK, bridgeVars, editorVars, listenVars, BridgeTypes, EditorTypes, ListenTypes,
        ReadTypes, LoaderTypes
<1>2. ASSUME NEW f \in Files, NEW t \in Texts, WriteOutside(f, t)
      PROVE  TypeOK'
  <2>1. DiskTypes'
    BY <1>2 DEF WriteOutside, TypeOK, DiskTypes
  <2>2. QED
    BY <1>2, <2>1
    DEF WriteOutside, TypeOK, bridgeVars, editorVars, listenVars, BridgeTypes, EditorTypes, ListenTypes,
        ReadTypes, LoaderTypes
<1>3. ASSUME NEW i \in DOMAIN reads, ReadFails(i)
      PROVE  TypeOK'
  <2>1. reads' \in Seq(Reads)
    BY <1>3, ReadRemoved DEF ReadFails, TypeOK, ReadTypes, Reads
  <2>2. missed' \subseteq Reasons
    BY <1>3, MissGrows DEF ReadFails, TypeOK, Reasons
  <2>3. QED
    BY <1>3, <2>1, <2>2
    DEF ReadFails, TypeOK, bridgeVars, editorVars, listenVars, diskVars, BridgeTypes, EditorTypes,
        ListenTypes, DiskTypes, ReadTypes, LoaderTypes, Reads
<1>4. CASE LoaderFails
  <2>1. LoaderTypes'
    BY <1>4 DEF LoaderFails, TypeOK, LoaderTypes
  <2>2. QED
    BY <1>4, <2>1
    DEF LoaderFails, TypeOK, bridgeVars, editorVars, listenVars, diskVars, BridgeTypes, EditorTypes,
        ListenTypes, DiskTypes, ReadTypes
<1>5. QED
  BY <1>1, <1>2, <1>3, <1>4 DEF Outside

\* The loader keeps its type.
LEMMA LoaderKeepsType ==
  ASSUME TypeOK, LoaderLooks \/ LoaderReads \/ LoaderLoads
  PROVE  LoaderTypes'
<1> DEFINE Loaders == [pc : {"waiting", "reading", "read"}, file : Files \cup {NoFile},
                       text : Texts \cup {NoText}, left : 0 .. Attempts]
<1>1. loader \in Loaders
  BY DEF TypeOK, LoaderTypes
<1>2. ASSUME LoaderEnds
      PROVE  LoaderTypes'
  BY <1>2, AttemptsAssumption DEF LoaderEnds, LoaderTypes
<1>3. CASE LoaderLooks
  <2>1. ASSUME loader.left > 0, NEW f \in Files,
               loader' = [pc |-> "reading", file |-> f, text |-> NoText, left |-> loader.left - 1]
        PROVE  LoaderTypes'
    BY <1>1, <2>1, AttemptsAssumption, AbsenceAssumption DEF LoaderTypes
  <2>2. ASSUME loader.left > 0, loader.pc = "waiting", loader' = [loader EXCEPT !.left = @ - 1]
        PROVE  LoaderTypes'
    BY <1>1, <2>2, AttemptsAssumption DEF LoaderTypes
  <2>3. QED
    BY <1>2, <1>3, <2>1, <2>2 DEF LoaderLooks
<1>4. CASE LoaderReads
  <2>1. loader.file \in Files
    BY <1>1, <1>4 DEF LoaderReads, TypeOK, LoaderTypes
  <2>2. disk[loader.file] \in Texts
    BY <2>1 DEF TypeOK, DiskTypes
  <2>3. loader' = [loader EXCEPT !.pc = "read", !.text = disk[loader.file]]
    BY <1>4 DEF LoaderReads
  <2>4. QED
    BY <1>1, <2>1, <2>2, <2>3, AbsenceAssumption DEF LoaderTypes
<1>5. CASE LoaderLoads
  <2>1. ASSUME loader' = [loader EXCEPT !.pc = "waiting", !.file = NoFile, !.text = NoText]
        PROVE  LoaderTypes'
    BY <1>1, <2>1 DEF LoaderTypes
  <2>2. QED
    BY <1>2, <1>5, <2>1 DEF LoaderLoads
<1>6. QED
  BY <1>3, <1>4, <1>5

\* So do the steps that happen without the user.
LEMMA SystemTypes ==
  ASSUME TypeOK, System
  PROVE  TypeOK'
<1>1. CASE SaveTimerFires
  <2>1. uri \in Files /\ text \in Texts /\ UNCHANGED <<uri, text>> /\ saveTimer' = FALSE
    BY <1>1 DEF SaveTimerFires, Bridge!SaveTimerFires, TypeOK, BridgeTypes
  <2>2. EditorTypes'
    BY <1>1, <2>1, AbsenceAssumption DEF SaveTimerFires, SaveToDisk, TypeOK, EditorTypes
  <2>3. DiskTypes'
    BY <1>1, <2>1, WriteQueued DEF SaveTimerFires, SaveToDisk, TypeOK, DiskTypes
  <2>4. missed' \subseteq Reasons /\ window' = TRUE
    BY <1>1, MissGrows DEF SaveTimerFires, SaveToDisk, TypeOK, Reasons
  <2>5. QED
    BY <1>1, <2>1, <2>2, <2>3, <2>4
    DEF SaveTimerFires, TypeOK, BridgeTypes, listenVars, ListenTypes, ReadTypes, LoaderTypes
<1>2. CASE WindowCloses
  BY <1>2
  DEF WindowCloses, TypeOK, bridgeVars, editorVars, listenVars, diskVars, BridgeTypes, EditorTypes,
      ListenTypes, DiskTypes, ReadTypes, LoaderTypes
<1>3. ASSUME NEW f \in Files, WriteDone(f)
      PROVE  TypeOK'
  <2>1. DiskTypes'
    BY <1>3, WriteTaken DEF WriteDone, TypeOK, DiskTypes
  <2>2. QED
    BY <1>3, <2>1
    DEF WriteDone, TypeOK, bridgeVars, editorVars, listenVars, BridgeTypes, EditorTypes, ListenTypes,
        ReadTypes, LoaderTypes
<1>4. ASSUME NEW f \in Files, FileChanged(f)
      PROVE  TypeOK'
  <2>1. ReadTypes'
    <3>1. [file |-> f, text |-> NoText] \in Reads
      BY DEF Reads
    <3>2. reads \in Seq(Reads)
      BY DEF TypeOK, ReadTypes, Reads
    <3>3. reads' \in Seq(Reads)
      BY <1>4, <3>1, <3>2, ReadAdded DEF FileChanged
    <3>4. QED
      BY <3>3 DEF ReadTypes, Reads
  <2>2. DiskTypes'
    BY <1>4 DEF FileChanged, TypeOK, DiskTypes
  <2>3. missed' \subseteq Reasons
    BY <1>4, MissGrows DEF FileChanged, TypeOK, Reasons
  <2>4. QED
    BY <1>4, <2>1, <2>2, <2>3
    DEF FileChanged, TypeOK, bridgeVars, editorVars, listenVars, BridgeTypes, EditorTypes, ListenTypes,
        LoaderTypes
<1>5. ASSUME NEW f \in Files, ModelReloads(f)
      PROVE  TypeOK'
  <2>1. disk[f] \in Texts
    BY DEF TypeOK, DiskTypes
  <2>2. BridgeTypes' /\ (saveTimer' => text' # NoText)
    BY <1>5, <2>1, HeardText DEF ModelReloads, TypeOK
  <2>3. EditorTypes'
    BY <1>5, <2>1, AbsenceAssumption DEF ModelReloads, TypeOK, EditorTypes
  <2>4. missed' \subseteq Reasons
    BY <1>5, MissGrows DEF ModelReloads, ContentChanged, TypeOK, Reasons
  <2>5. QED
    BY <1>5, <2>2, <2>3, <2>4
    DEF ModelReloads, TypeOK, listenVars, diskVars, ListenTypes, DiskTypes, ReadTypes, LoaderTypes
<1>6. ASSUME NEW i \in DOMAIN reads, ReadFile(i)
      PROVE  TypeOK'
  <2>1. reads \in Seq(Reads)
    BY DEF TypeOK, ReadTypes, Reads
  <2>2. reads[i].file \in Files
    BY <2>1, ReadOfFile
  <2>3. disk[reads[i].file] \in Texts
    BY <2>2 DEF TypeOK, DiskTypes
  <2>4. reads' \in Seq(Reads)
    BY <1>6, <2>1, <2>3, ReadFilled DEF ReadFile
  <2>5. ReadTypes'
    BY <2>4 DEF ReadTypes, Reads
  <2>6. QED
    BY <1>6, <2>5
    DEF ReadFile, TypeOK, bridgeVars, editorVars, listenVars, diskVars, BridgeTypes, EditorTypes,
        ListenTypes, DiskTypes, LoaderTypes
<1>7. ASSUME NEW i \in DOMAIN reads, ReadDone(i)
      PROVE  TypeOK'
  <2>1. reads \in Seq(Reads)
    BY DEF TypeOK, ReadTypes, Reads
  <2>2. reads[i].text \in Texts
    BY <1>7, <2>1, ReadOfFile DEF ReadDone
  <2>3. reads' \in Seq(Reads)
    BY <1>7, <2>1, ReadRemoved DEF ReadDone
  <2>4. BridgeTypes' /\ (saveTimer' => text' # NoText)
    BY <1>7, <2>2, LoadedText DEF ReadDone, Bridge!Reload, TypeOK, BridgeTypes
  <2>5. missed' \subseteq Reasons
    BY <1>7, MissGrows DEF ReadDone, TypeOK, Reasons
  <2>6. ReadTypes'
    BY <2>3 DEF ReadTypes, Reads
  <2>7. QED
    BY <1>7, <2>4, <2>5, <2>6
    DEF ReadDone, TypeOK, editorVars, listenVars, diskVars, EditorTypes, ListenTypes, DiskTypes, LoaderTypes
<1>8. CASE LoaderLooks \/ LoaderReads
  <2>1. LoaderTypes'
    BY <1>8, LoaderKeepsType
  <2>2. QED
    BY <1>8, <2>1
    DEF LoaderLooks, LoaderReads, TypeOK, bridgeVars, editorVars, listenVars, diskVars, BridgeTypes,
        EditorTypes, ListenTypes, DiskTypes, ReadTypes
<1>9. CASE LoaderLoads
  <2>1. LoaderTypes'
    BY <1>9, LoaderKeepsType
  <2>2. loader.file \in Files /\ loader.text \in Texts
    BY <1>9 DEF LoaderLoads, TypeOK, LoaderTypes
  <2>3. BridgeTypes' /\ (saveTimer' => text' # NoText)
    BY <1>9, <2>2, LoadedText DEF LoaderLoads, Bridge!Open, TypeOK, BridgeTypes
  <2>4. ListenTypes'
    BY <1>9, <2>2 DEF LoaderLoads, TypeOK, ListenTypes
  <2>5. missed' \subseteq Reasons
    BY <1>9, MissGrows DEF LoaderLoads, TypeOK, Reasons
  <2>6. QED
    BY <1>9, <2>1, <2>3, <2>4, <2>5
    DEF LoaderLoads, TypeOK, editorVars, diskVars, EditorTypes, DiskTypes, ReadTypes
<1>10. QED
  BY <1>1, <1>2, <1>3, <1>4, <1>5, <1>6, <1>7, <1>8, <1>9 DEF System

\* Every variable keeps its type.  An unsaved edit has a text, a read under
\* way a file, and a dirty or visible editor a model.
THEOREM TypeCorrect == Spec => []TypeOK
<1>1. Init => TypeOK
  <2>1. ASSUME Init
        PROVE  TypeOK
    <3>1. BridgeTypes /\ EditorTypes /\ ListenTypes
      BY <2>1 DEF Init, Bridge!Init, BridgeTypes, EditorTypes, ListenTypes
    <3>2. DiskTypes
      <4>1. <<>> \in Seq(Texts)
        OBVIOUS
      <4>2. QED
        BY <2>1, <4>1 DEF Init, DiskTypes
    <3>3. ReadTypes
      BY <2>1 DEF Init, ReadTypes
    <3>4. LoaderTypes
      BY <2>1, AttemptsAssumption DEF Init, LoaderTypes
    <3>5. QED
      BY <2>1, <3>1, <3>2, <3>3, <3>4 DEF Init, Bridge!Init, TypeOK
  <2>2. QED
    BY <2>1
<1>2. TypeOK /\ [Next]_vars => TypeOK'
  <2>1. ASSUME TypeOK, UNCHANGED vars
        PROVE  TypeOK'
    BY <2>1
    DEF vars, TypeOK, bridgeVars, editorVars, listenVars, diskVars, BridgeTypes, EditorTypes, ListenTypes,
        DiskTypes, ReadTypes, LoaderTypes
  <2>2. QED
    BY <2>1, UserTypes, OutsideTypes, SystemTypes DEF Next
<1>3. QED
  BY <1>1, <1>2, PTL DEF Spec

-----------------------------------------------------------------------------
(* Which file a scene belongs to *)

InOrder == {"foreign", "moved"} \cap missed = {}

\* Strengthening: wherever a text is, on disk, on its way there, in a model,
\* in a read under way, in the loader or in the bridge, it is of the file it
\* will be written to or was read from.
DiskHomes ==
  \A f \in Files : Home[disk[f]] = f /\ \A i \in DOMAIN writes[f] : Home[writes[f][i]] = f
ModelHomes == \A f \in Files : model[f] # NoText => Home[model[f]] = f
ReadHomes == \A i \in DOMAIN reads : reads[i].text # NoText => Home[reads[i].text] = reads[i].file
LoaderHome == loader.pc = "read" => Home[loader.text] = loader.file
TextHome == text # NoText => Home[text] = uri

Homes == DiskHomes /\ ModelHomes /\ ReadHomes /\ LoaderHome /\ TextHome

\* A load into the bridge of its own file's text, or with its file.
LEMMA LoadedHome ==
  ASSUME TypeOK, Homes, NEW t \in Texts, NEW migrated \in BOOLEAN,
         Bridge!LoadFromText(Accepted(t), migrated),
         Replaces(t) => Home[t] = uri',
         ~ Replaces(t) /\ text # NoText => uri' = uri
  PROVE  TextHome'
BY LoadedText DEF TypeOK, Homes, TextHome

\* A change of a model that is not of the bridge's file is counted.
LEMMA HeardHome ==
  ASSUME TypeOK, Homes, InOrder', NEW f \in Files, NEW t \in Texts, Home[t] = f,
         ContentChanged(f, t)
  PROVE  TextHome'
<1>1. CASE UNCHANGED bridgeVars
  BY <1>1 DEF bridgeVars, Homes, TextHome
<1>2. CASE Hears(f) /\ Bridge!Reload(Accepted(t), FALSE)
  <2>1. Bridge!LoadFromText(Accepted(t), FALSE) /\ uri' = uri
    BY <1>2 DEF Bridge!Reload
  <2>2. ~ (uri # f /\ Replaces(t))
    <3> DEFINE guarded == [window  |-> listening = f /\ live /\ window /\ Replaces(t),
                           dead    |-> listening = f /\ ~ live /\ Replaces(t),
                           unheard |-> /\ listening # f /\ f \in dirty' /\ (uri = f \/ text = NoText)
                                       /\ Replaces(t),
                           foreign |-> Hears(f) /\ uri # f /\ Replaces(t)]
    <3>1. Miss(guarded)
      BY DEF ContentChanged
    <3>2. "foreign" \in DOMAIN guarded /\ (guarded["foreign"] <=> Hears(f) /\ uri # f /\ Replaces(t))
      OBVIOUS
    <3> HIDE DEF guarded
    <3>3. QED
      BY <1>2, <3>1, <3>2, MissCounts DEF InOrder
  <2>3. QED
    BY <2>1, <2>2, LoadedHome
<1>3. QED
  BY <1>1, <1>2 DEF ContentChanged

\* Opening a file keeps no other file's text, or that is counted.
LEMMA OpenedHome ==
  ASSUME TypeOK, Homes, NEW f \in Files, NEW t \in Texts, Home[t] = f, ~ KeepsOtherText(f, t),
         Bridge!Open(f, Accepted(t), Normal[t] # t)
  PROVE  TextHome'
<1>1. Bridge!LoadFromText(Accepted(t), Normal[t] # t) /\ uri' = f
  BY DEF Bridge!Open
<1>2. QED
  BY <1>1, LoadedHome DEF KeepsOtherText

\* The steps of the user keep every text with its file.
LEMMA UserHomes ==
  ASSUME TypeOK, Homes, InOrder', User
  PROVE  Homes'
<1>1. ASSUME NEW f \in Files, NEW t \in Texts, TypeText(f, t)
      PROVE  Homes'
  <2>1. TextHome'
    BY <1>1, HeardHome DEF TypeText
  <2>2. ModelHomes'
    BY <1>1 DEF TypeText, Homes, ModelHomes, TypeOK, EditorTypes
  <2>3. QED
    BY <1>1, <2>1, <2>2 DEF TypeText, Homes, diskVars, DiskHomes, ReadHomes, LoaderHome
<1>2. ASSUME NEW f \in Files, SaveEditor(f)
      PROVE  Homes'
  <2>1. DiskHomes'
    BY <1>2 DEF SaveEditor, Homes, DiskHomes, ModelHomes, TypeOK, EditorTypes, DiskTypes
  <2>2. QED
    BY <1>2, <2>1 DEF SaveEditor, Homes, bridgeVars, ModelHomes, ReadHomes, LoaderHome, TextHome
<1>3. CASE EditorsMove
  <2>1. ModelHomes'
    <3>1. \A f \in Files : model'[f] \in {model[f], NoText, disk[f]}
      BY <1>3
      DEF EditorsMove, FocusEditor, ShowEditor, HideEditor, CloseEditor, editorVars, TypeOK, EditorTypes
    <3>2. QED
      BY <3>1 DEF Homes, DiskHomes, ModelHomes
  <2>2. TextHome'
    <3>1. CASE UNCHANGED bridgeVars
      BY <3>1 DEF bridgeVars, Homes, TextHome
    <3>2. CASE ActiveEditorChanges
      <4>1. front' \in Files /\ model'[front'] \in Texts /\ Home[model'[front']] = front'
        <5>1. EditorTypes'
          BY <1>3, UserTypes DEF EditorsMove, User, TypeOK
        <5>2. QED
          BY <2>1, <3>2, <5>1, ActiveFile, AbsenceAssumption DEF ModelHomes
      <4>2. CASE /\ Bridge!Open(front', Accepted(model'[front']), Normal[model'[front']] # model'[front'])
                 /\ ~ KeepsOtherText(front', model'[front'])
        BY <4>1, <4>2, OpenedHome
      <4>3. QED
        BY <3>1, <3>2, <4>2 DEF ActiveEditorChanges, AttachModelListener, Miss, InOrder
    <3>3. QED
      BY <1>3, <3>1, <3>2, EditorsMoveOn DEF NothingActivated
  <2>3. QED
    BY <1>3, <2>1, <2>2, EditorsMoveOn DEF Homes, diskVars, DiskHomes, ReadHomes, LoaderHome
<1>4. ASSUME NEW f \in Files, DiscardChanges(f)
      PROVE  Homes'
  BY <1>4
  DEF DiscardChanges, Homes, bridgeVars, diskVars, DiskHomes, ModelHomes, ReadHomes, LoaderHome, TextHome
<1>5. ASSUME NEW t \in Texts, EditScene(t)
      PROVE  Homes'
  <2>1. TextHome'
    BY <1>5 DEF EditScene, Bridge!Edit, Homes, TextHome
  <2>2. QED
    BY <1>5, <2>1
    DEF EditScene, Homes, editorVars, diskVars, DiskHomes, ModelHomes, ReadHomes, LoaderHome
<1>6. QED
  BY <1>1, <1>2, <1>3, <1>4, <1>5 DEF User, EditorsMove

\* Taking a write from the front of its queue leaves texts of its file.
LEMMA QueueHomes ==
  ASSUME TypeOK, Homes, NEW f \in Files, writes[f] # <<>>
  PROVE  /\ Head(writes[f]) \in Texts /\ Home[Head(writes[f])] = f
         /\ \A i \in DOMAIN Tail(writes[f]) : Home[Tail(writes[f])[i]] = f
BY WriteTaken DEF TypeOK, DiskTypes, Homes, DiskHomes

\* So do failed writes, and writes of other programs, which put a file's own
\* text in it.
LEMMA OutsideHomes ==
  ASSUME TypeOK, Homes, InOrder', Outside
  PROVE  Homes'
<1>1. ASSUME NEW f \in Files, WriteFails(f)
      PROVE  Homes'
  <2>1. DiskHomes'
    BY <1>1, QueueHomes DEF WriteFails, Homes, DiskHomes, TypeOK, DiskTypes
  <2>2. QED
    BY <1>1, <2>1
    DEF WriteFails, Homes, bridgeVars, editorVars, ModelHomes, ReadHomes, LoaderHome, TextHome
<1>2. ASSUME NEW f \in Files, NEW t \in Texts, WriteOutside(f, t)
      PROVE  Homes'
  <2>1. DiskHomes'
    BY <1>2 DEF WriteOutside, Homes, DiskHomes, TypeOK, DiskTypes
  <2>2. QED
    BY <1>2, <2>1
    DEF WriteOutside, Homes, bridgeVars, editorVars, ModelHomes, ReadHomes, LoaderHome, TextHome
<1>3. ASSUME NEW i \in DOMAIN reads, ReadFails(i)
      PROVE  Homes'
  <2>1. reads \in Seq(Reads) /\ reads' = RemoveAt(reads, i)
    BY <1>3 DEF ReadFails, TypeOK, ReadTypes, Reads
  <2>2. ReadHomes'
    BY <2>1, ReadRemoved DEF Homes, ReadHomes
  <2>3. QED
    BY <1>3, <2>2
    DEF ReadFails, Homes, bridgeVars, editorVars, diskVars, DiskHomes, ModelHomes, LoaderHome, TextHome
<1>4. CASE LoaderFails
  <2>1. LoaderHome'
    BY <1>4 DEF LoaderFails, LoaderHome, TypeOK, LoaderTypes
  <2>2. QED
    BY <1>4, <2>1
    DEF LoaderFails, Homes, bridgeVars, editorVars, diskVars, DiskHomes, ModelHomes, ReadHomes, TextHome
<1>5. QED
  BY <1>1, <1>2, <1>3, <1>4 DEF Outside

\* So do the steps that happen without the user.
LEMMA SystemHomes ==
  ASSUME TypeOK, Homes, InOrder', System
  PROVE  Homes'
<1>1. CASE SaveTimerFires
  <2>1. uri \in Files /\ text \in Texts /\ Home[text] = uri /\ UNCHANGED <<uri, text>>
    BY <1>1, AbsenceAssumption
    DEF SaveTimerFires, Bridge!SaveTimerFires, TypeOK, BridgeTypes, Homes, TextHome
  <2>2. DiskHomes'
    <3>1. \A i \in DOMAIN Append(writes[uri], text) : Home[Append(writes[uri], text)[i]] = uri
      BY <2>1, WriteQueued DEF Homes, DiskHomes, TypeOK, DiskTypes
    <3>2. disk' = disk /\ writes' = [writes EXCEPT ![uri] = Append(@, text)]
      BY <1>1 DEF SaveTimerFires, SaveToDisk
    <3>3. QED
      BY <2>1, <3>1, <3>2 DEF Homes, DiskHomes, TypeOK, DiskTypes
  <2>3. ModelHomes'
    BY <1>1, <2>1 DEF SaveTimerFires, SaveToDisk, Homes, ModelHomes, TypeOK, EditorTypes
  <2>4. QED
    BY <1>1, <2>1, <2>2, <2>3 DEF SaveTimerFires, Homes, ReadHomes, LoaderHome, TextHome
<1>2. CASE WindowCloses
  BY <1>2
  DEF WindowCloses, Homes, bridgeVars, editorVars, diskVars, DiskHomes, ModelHomes, ReadHomes,
      LoaderHome, TextHome
<1>3. ASSUME NEW f \in Files, WriteDone(f)
      PROVE  Homes'
  <2>1. DiskHomes'
    BY <1>3, QueueHomes DEF WriteDone, Homes, DiskHomes, TypeOK, DiskTypes
  <2>2. QED
    BY <1>3, <2>1
    DEF WriteDone, Homes, bridgeVars, editorVars, ModelHomes, ReadHomes, LoaderHome, TextHome
<1>4. ASSUME NEW f \in Files, FileChanged(f)
      PROVE  Homes'
  <2>1. [file |-> f, text |-> NoText] \in Reads /\ reads \in Seq(Reads)
    BY DEF TypeOK, ReadTypes, Reads
  <2>2. ReadHomes'
    BY <1>4, <2>1, ReadAdded DEF FileChanged, Homes, ReadHomes
  <2>3. QED
    BY <1>4, <2>2
    DEF FileChanged, Homes, bridgeVars, editorVars, DiskHomes, ModelHomes, LoaderHome, TextHome
<1>5. ASSUME NEW f \in Files, ModelReloads(f)
      PROVE  Homes'
  <2>1. disk[f] \in Texts /\ Home[disk[f]] = f
    BY DEF TypeOK, DiskTypes, Homes, DiskHomes
  <2>2. TextHome'
    BY <1>5, <2>1, HeardHome DEF ModelReloads
  <2>3. ModelHomes'
    BY <1>5, <2>1 DEF ModelReloads, Homes, ModelHomes, TypeOK, EditorTypes
  <2>4. QED
    BY <1>5, <2>2, <2>3 DEF ModelReloads, Homes, diskVars, DiskHomes, ReadHomes, LoaderHome
<1>6. ASSUME NEW i \in DOMAIN reads, ReadFile(i)
      PROVE  Homes'
  <2>1. reads \in Seq(Reads)
    BY DEF TypeOK, ReadTypes, Reads
  <2>2. reads[i].file \in Files
    BY <2>1, ReadOfFile
  <2>3. disk[reads[i].file] \in Texts /\ Home[disk[reads[i].file]] = reads[i].file
    BY <2>2 DEF TypeOK, DiskTypes, Homes, DiskHomes
  <2>4. ReadHomes'
    BY <1>6, <2>1, <2>3, ReadFilled DEF ReadFile, Homes, ReadHomes
  <2>5. QED
    BY <1>6, <2>4
    DEF ReadFile, Homes, bridgeVars, editorVars, diskVars, DiskHomes, ModelHomes, LoaderHome, TextHome
<1>7. ASSUME NEW i \in DOMAIN reads, ReadDone(i)
      PROVE  Homes'
  <2>1. reads \in Seq(Reads)
    BY DEF TypeOK, ReadTypes, Reads
  <2> DEFINE f == reads[i].file
             t == reads[i].text
  <2>2. t \in Texts /\ Home[t] = f
    BY <1>7, <2>1, ReadOfFile DEF ReadDone, Homes, ReadHomes
  <2>3. Bridge!LoadFromText(Accepted(t), Normal[t] # t) /\ uri' = uri
    BY <1>7 DEF ReadDone, Bridge!Reload
  <2>4. ~ (Replaces(t) /\ f # uri)
    <3> DEFINE guarded == [late     |-> Replaces(t) /\ t # disk[f],
                           foreign  |-> Replaces(t) /\ f # uri,
                           conflict |-> Replaces(t) /\ f \in dirty]
    <3>1. Miss(guarded)
      BY <1>7 DEF ReadDone
    <3>2. "foreign" \in DOMAIN guarded /\ (guarded["foreign"] <=> Replaces(t) /\ f # uri)
      OBVIOUS
    <3> HIDE DEF guarded, f, t
    <3>3. QED
      BY <3>1, <3>2, MissCounts DEF InOrder
  <2>5. TextHome'
    <3> HIDE DEF f, t
    <3>1. QED
      BY <2>2, <2>3, <2>4, LoadedHome
  <2>6. ReadHomes'
    BY <1>7, <2>1, ReadRemoved DEF ReadDone, Homes, ReadHomes
  <2>7. QED
    BY <1>7, <2>5, <2>6 DEF ReadDone, Homes, editorVars, diskVars, DiskHomes, ModelHomes, LoaderHome
<1>8. CASE LoaderLooks
  <2>1. LoaderHome'
    BY <1>8 DEF LoaderLooks, LoaderEnds, LoaderHome, TypeOK, LoaderTypes
  <2>2. QED
    BY <1>8, <2>1
    DEF LoaderLooks, Homes, bridgeVars, editorVars, diskVars, DiskHomes, ModelHomes, ReadHomes, TextHome
<1>9. CASE LoaderReads
  <2>1. loader.file \in Files
    BY <1>9 DEF LoaderReads, TypeOK, LoaderTypes
  <2>2. LoaderHome'
    BY <1>9, <2>1 DEF LoaderReads, LoaderHome, Homes, DiskHomes, TypeOK, LoaderTypes
  <2>3. QED
    BY <1>9, <2>2
    DEF LoaderReads, Homes, bridgeVars, editorVars, diskVars, DiskHomes, ModelHomes, ReadHomes, TextHome
<1>10. CASE LoaderLoads
  <2> DEFINE f == loader.file
             t == loader.text
  <2>1. f \in Files /\ t \in Texts /\ Home[t] = f
    BY <1>10 DEF LoaderLoads, TypeOK, LoaderTypes, Homes, LoaderHome
  <2>2. Bridge!Open(f, Accepted(t), Normal[t] # t) /\ ~ KeepsOtherText(f, t)
    BY <1>10 DEF LoaderLoads, Miss, InOrder
  <2>3. TextHome'
    <3> HIDE DEF f, t
    <3>1. QED
      BY <2>1, <2>2, OpenedHome
  <2>4. LoaderHome'
    <3>1. loader'.pc # "read"
      <4>1. CASE LoaderEnds
        BY <4>1 DEF LoaderEnds
      <4>2. CASE loader' = [loader EXCEPT !.pc = "waiting", !.file = NoFile, !.text = NoText]
        BY <4>2 DEF TypeOK, LoaderTypes
      <4>3. QED
        BY <1>10, <4>1, <4>2 DEF LoaderLoads
    <3>2. QED
      BY <3>1 DEF LoaderHome
  <2>5. QED
    BY <1>10, <2>3, <2>4 DEF LoaderLoads, Homes, editorVars, diskVars, DiskHomes, ModelHomes, ReadHomes
<1>11. QED
  BY <1>1, <1>2, <1>3, <1>4, <1>5, <1>6, <1>7, <1>8, <1>9, <1>10 DEF System

\* The history only grows.
LEMMA OrderWasKept ==
  ASSUME TypeOK, Next, InOrder'
  PROVE  InOrder
<1>1. missed \subseteq missed'
  BY DEF Next, User, Outside, System, TypeText, ContentChanged, SaveEditor, DiscardChanges, ShowEditor,
     AttachModelListener, ActiveEditorChanges, NothingActivated, HideEditor, FocusEditor, CloseEditor,
     EditScene, WriteFails, WriteOutside, ReadFails, LoaderFails, SaveTimerFires, SaveToDisk, WindowCloses,
     WriteDone, FileChanged, ModelReloads, ReadFile, ReadDone, LoaderLooks, LoaderReads, LoaderLoads, Miss
<1>2. QED
  BY <1>1 DEF InOrder

\* No file ever holds the scene of another file, whatever saves, reads and
\* loads are under way, unless a foreign text was loaded into the bridge or
\* the bridge was moved with its text.
THEOREM FilesAlwaysKeepTheirScenes == Spec => []FilesKeepTheirScenes
<1>1. Init => (InOrder => Homes)
  BY DEF Init, Bridge!Init, Homes, DiskHomes, ModelHomes, ReadHomes, LoaderHome, TextHome
<1>2. TypeOK /\ (InOrder => Homes) /\ [Next]_vars => (InOrder => Homes)'
  <2>1. ASSUME TypeOK, InOrder => Homes, Next, InOrder'
        PROVE  Homes'
    BY <2>1, OrderWasKept, UserHomes, OutsideHomes, SystemHomes DEF Next
  <2>2. ASSUME UNCHANGED vars, InOrder => Homes
        PROVE  (InOrder => Homes)'
    BY <2>2
    DEF vars, bridgeVars, editorVars, diskVars, InOrder, Homes, DiskHomes, ModelHomes, ReadHomes,
        LoaderHome, TextHome
  <2>3. QED
    BY <2>1, <2>2
<1>3. (InOrder => Homes) => FilesKeepTheirScenes
  BY DEF InOrder, Homes, DiskHomes, FilesKeepTheirScenes
<1>4. QED
  BY <1>1, <1>2, <1>3, TypeCorrect, PTL DEF Spec

-----------------------------------------------------------------------------
(* Whether the text is its file's *)

\* A content that would not replace the text.
Agrees(t) == Accepted(t) \in {NoText, text}

\* Strengthening.  Reads are of a file that is watched, and a text is of a file
\* and one the bridge itself would accept.
Follows ==
  /\ watched = NoFile => reads = <<>>
  /\ text # NoText => uri # NoFile /\ Accepted(text) = text
\* Who is listened to and watched, as long as nothing was passed over.
Attached ==
  IF text = NoText THEN watched = listening /\ watched \in {uri, NoFile} ELSE watched = uri

\* Without a text there is nothing valid to lose in the editors.
NothingUnsaved == text = NoText => \A f \in dirty : Accepted(model[f]) = NoText

\* What the disk has the bridge has too, or something is under way that will
\* tell one of them.
OnItsWay ==
  \/ saveTimer
  \/ writes[uri] # <<>>
  \/ uri \in events
  \/ \E i \in DOMAIN reads : reads[i].file = uri /\ reads[i].text \in {NoText, disk[uri]}
DiskAgrees == text # NoText => uri \in dirty \/ Agrees(disk[uri]) \/ OnItsWay

\* What the user has not saved the bridge has, or will write over.
EditorAgrees == text # NoText /\ uri \in dirty => Agrees(model[uri]) \/ saveTimer

Synced == Attached /\ NothingUnsaved /\ DiskAgrees /\ EditorAgrees
Undisturbed == missed = {}

\* As long as nothing was passed over, no guard of a reason holds.
LEMMA NothingMissed ==
  ASSUME NEW guarded, Miss(guarded), Undisturbed'
  PROVE  \A r \in DOMAIN guarded : ~ guarded[r]
BY DEF Miss, Undisturbed

\* A replaced text is the accepted one, and would accept itself.
LEMMA LoadAgrees ==
  ASSUME TypeOK, Follows, NEW t \in Texts, NEW migrated \in BOOLEAN,
         Bridge!LoadFromText(Accepted(t), migrated)
  PROVE  /\ text' # NoText => Accepted(text') = text'
         /\ Accepted(t) \in {NoText, text'}
         /\ IF Replaces(t) THEN text' # NoText /\ text' = Accepted(t) ELSE UNCHANGED <<text, saveTimer>>
<1>1. Accepted(t) # NoText => Accepted(Accepted(t)) = Accepted(t)
  BY TextAssumption, AbsenceAssumption DEF Accepted
<1>2. QED
  BY <1>1 DEF Bridge!LoadFromText, Replaces, Follows

\* The watch stays with its reads, and the text is one the bridge itself would
\* accept.
LEMMA FollowsKept ==
  ASSUME TypeOK, Follows, Next
  PROVE  Follows'
<1>1. ASSUME NEW f \in Files, NEW t \in Texts, ContentChanged(f, t)
      PROVE  text' # NoText => uri' # NoFile /\ Accepted(text') = text'
  <2>1. CASE UNCHANGED bridgeVars
    BY <2>1 DEF bridgeVars, Follows
  <2>2. CASE Bridge!Reload(Accepted(t), FALSE)
    BY <2>2, LoadAgrees DEF Bridge!Reload
  <2>3. QED
    BY <1>1, <2>1, <2>2 DEF ContentChanged
<1>2. ASSUME NEW f \in Files, NEW t \in Texts, Bridge!Open(f, Accepted(t), Normal[t] # t)
      PROVE  text' # NoText => uri' # NoFile /\ Accepted(text') = text'
  BY <1>2, LoadAgrees, AbsenceAssumption DEF Bridge!Open
<1>3. ASSUME NEW f \in Files, NEW t \in Texts, TypeText(f, t)
      PROVE  Follows'
  BY <1>1, <1>3 DEF TypeText, listenVars, Follows
<1>4. ASSUME NEW f \in Files, ModelReloads(f)
      PROVE  Follows'
  <2>1. disk[f] \in Texts
    BY DEF TypeOK, DiskTypes
  <2>2. QED
    BY <1>1, <1>4, <2>1 DEF ModelReloads, listenVars, Follows
<1>5. CASE EditorsMove
  <2>1. CASE ActiveEditorChanges
    <3>1. front' \in Files /\ model'[front'] \in Texts
      BY <1>5, <2>1, UserTypes, ActiveFile DEF EditorsMove, User, TypeOK
    <3>2. text' # NoText => uri' # NoFile /\ Accepted(text') = text'
      BY <1>2, <2>1, <3>1 DEF ActiveEditorChanges, AttachModelListener, bridgeVars, Follows
    <3>3. watched' = watched \/ watched' = front'
      BY <2>1 DEF ActiveEditorChanges, AttachModelListener, listenVars
    <3>4. QED
      BY <1>5, <3>1, <3>2, <3>3, EditorsMoveOn, AbsenceAssumption DEF Follows
  <2>2. CASE UNCHANGED <<bridgeVars, watched>>
    BY <1>5, <2>2, EditorsMoveOn DEF bridgeVars, Follows
  <2>3. QED
    BY <1>5, <2>1, <2>2, EditorsMoveOn DEF NothingActivated, listenVars
<1>6. ASSUME NEW f \in Files, SaveEditor(f) \/ DiscardChanges(f) \/ WriteFails(f) \/ WriteDone(f)
      PROVE  Follows'
  BY <1>6 DEF SaveEditor, DiscardChanges, WriteFails, WriteDone, bridgeVars, listenVars, Follows
<1>7. CASE SaveTimerFires \/ WindowCloses \/ LoaderLooks \/ LoaderReads \/ LoaderFails
  BY <1>7
  DEF SaveTimerFires, Bridge!SaveTimerFires, WindowCloses, LoaderLooks, LoaderReads, LoaderFails,
      bridgeVars, listenVars, Follows
<1>8. ASSUME NEW t \in Texts, EditScene(t)
      PROVE  Follows'
  BY <1>8, AbsenceAssumption
  DEF EditScene, Bridge!Edit, editorVars, listenVars, Follows, Accepted
<1>9. ASSUME NEW f \in Files, NEW t \in Texts, WriteOutside(f, t)
      PROVE  Follows'
  BY <1>9 DEF WriteOutside, bridgeVars, editorVars, listenVars, Follows
<1>10. ASSUME NEW f \in Files, FileChanged(f)
       PROVE  Follows'
  BY <1>10, AbsenceAssumption DEF FileChanged, bridgeVars, editorVars, listenVars, Follows
<1>11. ASSUME NEW i \in DOMAIN reads, ReadFile(i) \/ ReadFails(i) \/ ReadDone(i)
       PROVE  Follows'
  <2>1. reads \in Seq(Reads)
    BY DEF TypeOK, ReadTypes, Reads
  <2>2. reads # <<>>
    BY <2>1
  <2>3. CASE ReadFile(i) \/ ReadFails(i)
    BY <2>2, <2>3 DEF ReadFile, ReadFails, bridgeVars, listenVars, Follows
  <2>4. CASE ReadDone(i)
    <3>1. reads[i].text \in Texts
      BY <2>1, <2>4, ReadOfFile DEF ReadDone
    <3>2. text' # NoText => uri' # NoFile /\ Accepted(text') = text'
      BY <2>4, <3>1, LoadAgrees DEF ReadDone, Bridge!Reload
    <3>3. QED
      BY <2>2, <2>4, <3>2 DEF ReadDone, editorVars, listenVars, Follows
  <2>5. QED
    BY <1>11, <2>3, <2>4
<1>12. CASE LoaderLoads
  <2>1. loader.file \in Files /\ loader.text \in Texts
    BY <1>12 DEF LoaderLoads, TypeOK, LoaderTypes
  <2>2. text' # NoText => uri' # NoFile /\ Accepted(text') = text'
    BY <1>2, <1>12, <2>1 DEF LoaderLoads
  <2>3. QED
    BY <1>12, <2>1, <2>2, AbsenceAssumption DEF LoaderLoads, editorVars, Follows
<1>13. QED
  BY <1>3, <1>4, <1>5, <1>6, <1>7, <1>8, <1>9, <1>10, <1>11, <1>12
  DEF Next, User, Outside, System, EditorsMove

\* A change of a model reaches the bridge, if it would replace the text and the
\* file is the bridge's or could become it.
LEMMA HeardInSync ==
  ASSUME TypeOK, Follows, Synced, Undisturbed', NEW f \in Files, NEW t \in Texts,
         ContentChanged(f, t)
  PROVE  \/ /\ UNCHANGED bridgeVars
            /\ f \in dirty' /\ (uri = f \/ text = NoText) => ~ Replaces(t)
         \/ /\ uri = f /\ uri' = f /\ watched = f
            /\ text' # NoText /\ Accepted(t) = text'
<1>1. /\ listening = f /\ live /\ window => ~ Replaces(t)
      /\ listening = f /\ ~ live => ~ Replaces(t)
      /\ listening # f /\ f \in dirty' /\ (uri = f \/ text = NoText) => ~ Replaces(t)
      /\ Hears(f) /\ uri # f => ~ Replaces(t)
  <2> DEFINE guarded == [window  |-> listening = f /\ live /\ window /\ Replaces(t),
                         dead    |-> listening = f /\ ~ live /\ Replaces(t),
                         unheard |-> /\ listening # f /\ f \in dirty' /\ (uri = f \/ text = NoText)
                                     /\ Replaces(t),
                         foreign |-> Hears(f) /\ uri # f /\ Replaces(t)]
  <2>1. Miss(guarded)
    BY DEF ContentChanged
  <2>2. /\ DOMAIN guarded = {"window", "dead", "unheard", "foreign"}
        /\ guarded["window"] <=> listening = f /\ live /\ window /\ Replaces(t)
        /\ guarded["dead"] <=> listening = f /\ ~ live /\ Replaces(t)
        /\ guarded["unheard"] <=> /\ listening # f /\ f \in dirty' /\ (uri = f \/ text = NoText)
                                  /\ Replaces(t)
        /\ guarded["foreign"] <=> Hears(f) /\ uri # f /\ Replaces(t)
    OBVIOUS
  <2> HIDE DEF guarded
  <2>3. QED
    BY <2>1, <2>2, NothingMissed
<1>2. CASE ~ Hears(f)
  BY <1>1, <1>2 DEF ContentChanged, Hears
<1>3. CASE Hears(f)
  <2>1. Bridge!LoadFromText(Accepted(t), FALSE) /\ uri' = uri
    BY <1>3 DEF ContentChanged, Bridge!Reload
  <2>2. CASE ~ Replaces(t)
    BY <2>1, <2>2, LoadAgrees DEF bridgeVars
  <2>3. CASE Replaces(t)
    <3>1. uri = f /\ listening = f
      BY <1>1, <1>3, <2>3 DEF Hears
    <3>2. watched = f
      BY <3>1 DEF Synced, Attached
    <3>3. QED
      BY <2>1, <2>3, <3>1, <3>2, LoadAgrees
  <2>4. QED
    BY <2>2, <2>3
<1>4. QED
  BY <1>2, <1>3

\* Another editor becomes the active one: the bridge is pointed at its file,
\* with a text that is on disk or not saved yet.
LEMMA ActiveInSync ==
  ASSUME TypeOK, Follows, Synced, Undisturbed', NEW f \in Files, NEW t \in Texts,
         AttachModelListener(f, t), UNCHANGED <<dirty, diskVars, reads>>,
         model'[f] = t, \A g \in dirty : model'[g] = model[g]
  PROVE  Synced'
<1>1. CASE /\ UNCHANGED bridgeVars /\ watched' = watched
           /\ listening' = listening \/ text # NoText
  BY <1>1
  DEF Synced, Attached, NothingUnsaved, DiskAgrees, OnItsWay, EditorAgrees, Agrees, bridgeVars, diskVars
<1>2. ASSUME /\ Bridge!Open(f, Accepted(t), Normal[t] # t) /\ listening' = f /\ watched' = f
             /\ ~ KeepsOtherText(f, t)
             /\ ~ (Replaces(t) /\ f \notin dirty /\ t # disk[f])
      PROVE  Synced'
  <2>1. Bridge!LoadFromText(Accepted(t), Normal[t] # t) /\ uri' = f
    BY <1>2 DEF Bridge!Open
  <2>2. CASE Replaces(t)
    <3>1. text' # NoText /\ text' = Accepted(t)
      BY <2>1, <2>2, LoadAgrees
    <3>2. QED
      BY <1>2, <2>1, <2>2, <3>1
      DEF Synced, Attached, NothingUnsaved, DiskAgrees, EditorAgrees, Agrees, diskVars
  <2>3. CASE ~ Replaces(t)
    <3>1. UNCHANGED <<text, saveTimer>> /\ (text # NoText => uri = f)
      BY <1>2, <2>1, <2>3, LoadAgrees DEF KeepsOtherText
    <3>2. Attached' /\ NothingUnsaved'
      BY <1>2, <2>1, <3>1 DEF Synced, Attached, NothingUnsaved
    <3>3. CASE text = NoText
      BY <3>1, <3>2, <3>3 DEF Synced, DiskAgrees, EditorAgrees
    <3>4. CASE text # NoText
      BY <2>1, <3>1, <3>2, <3>4
      DEF Synced, DiskAgrees, OnItsWay, EditorAgrees, Agrees, diskVars
    <3>5. QED
      BY <3>3, <3>4
  <2>4. QED
    BY <2>2, <2>3
<1>3. CASE UNCHANGED bridgeVars /\ UNCHANGED listenVars
  BY <1>1, <1>3 DEF listenVars
<1>4. CASE HasScene /\ UNCHANGED bridgeVars /\ watched' = watched
  <2>1. text # NoText
    BY <1>4, TextAssumption, AbsenceAssumption DEF HasScene
  <2>2. QED
    BY <1>1, <1>4, <2>1
<1>5. CASE /\ listening' = f /\ watched' = f /\ Bridge!Open(f, Accepted(t), Normal[t] # t)
           /\ Miss([moved |-> KeepsOtherText(f, t),
                    late  |-> Replaces(t) /\ f \notin dirty /\ t # disk[f]])
  <2> DEFINE guarded == [moved |-> KeepsOtherText(f, t),
                         late  |-> Replaces(t) /\ f \notin dirty /\ t # disk[f]]
  <2>1. Miss(guarded)
    BY <1>5
  <2>2. /\ DOMAIN guarded = {"moved", "late"} /\ (guarded["moved"] <=> KeepsOtherText(f, t))
        /\ guarded["late"] <=> Replaces(t) /\ f \notin dirty /\ t # disk[f]
    OBVIOUS
  <2> HIDE DEF guarded
  <2>3. QED
    BY <1>2, <1>5, <2>1, <2>2, NothingMissed
<1>6. QED
  BY <1>3, <1>4, <1>5 DEF AttachModelListener

\* The steps of the user keep text, disk and editors together.
LEMMA UserInSync ==
  ASSUME TypeOK, Follows, Synced, Undisturbed', User
  PROVE  Synced'
<1>1. text # NoText => uri \in Files
  BY DEF TypeOK, BridgeTypes, Follows
<1>2. ASSUME NEW f \in Files, NEW t \in Texts, TypeText(f, t)
      PROVE  Synced'
  <2>1. ContentChanged(f, t) /\ f \in dirty' /\ f # NoFile
    BY <1>2, AbsenceAssumption DEF TypeText
  <2>2. /\ model'[f] = t /\ \A g \in Files \ {f} : model'[g] = model[g]
        /\ dirty' = dirty \cup {f} /\ dirty \subseteq Files
    BY <1>2 DEF TypeText, TypeOK, EditorTypes
  <2>3. UNCHANGED <<listenVars, diskVars, reads>>
    BY <1>2 DEF TypeText
  <2>4. CASE UNCHANGED bridgeVars /\ (uri = f \/ text = NoText => ~ Replaces(t))
    <3>1. Attached' /\ NothingUnsaved'
      BY <2>2, <2>3, <2>4 DEF Synced, Attached, NothingUnsaved, bridgeVars, listenVars, Replaces
    <3>2. DiskAgrees'
      BY <2>2, <2>3, <2>4 DEF Synced, DiskAgrees, OnItsWay, Agrees, bridgeVars, diskVars
    <3>3. EditorAgrees'
      BY <1>1, <2>2, <2>4 DEF Synced, EditorAgrees, Agrees, bridgeVars, Replaces
    <3>4. QED
      BY <3>1, <3>2, <3>3 DEF Synced
  <2>5. CASE uri' = f /\ watched = f /\ text' # NoText /\ Accepted(t) = text'
    BY <2>2, <2>3, <2>5
    DEF Synced, Attached, NothingUnsaved, DiskAgrees, EditorAgrees, Agrees, listenVars
  <2>6. QED
    BY <2>1, <2>4, <2>5, HeardInSync
<1>3. ASSUME NEW f \in Files, SaveEditor(f)
      PROVE  Synced'
  <2>1. /\ dirty' = dirty \ {f} /\ events' = events \cup {f}
        /\ disk' = [disk EXCEPT ![f] = model[f]]
        /\ UNCHANGED <<bridgeVars, model, listenVars, writes, reads>>
    BY <1>3 DEF SaveEditor
  <2>2. Attached' /\ NothingUnsaved' /\ EditorAgrees'
    BY <2>1 DEF Synced, Attached, NothingUnsaved, EditorAgrees, Agrees, bridgeVars, listenVars
  <2>3. DiskAgrees'
    <3>1. ASSUME text # NoText, uri # f
          PROVE  disk'[uri] = disk[uri] /\ (uri \in dirty' <=> uri \in dirty)
      BY <1>1, <2>1, <3>1 DEF TypeOK, DiskTypes
    <3>2. QED
      BY <2>1, <3>1 DEF Synced, DiskAgrees, OnItsWay, Agrees, bridgeVars
  <2>4. QED
    BY <2>2, <2>3 DEF Synced
<1>4. CASE EditorsMove
  <2>1. UNCHANGED <<dirty, diskVars, reads>>
    BY <1>4, EditorsMoveOn
  <2>2. \A g \in dirty : model'[g] = model[g]
    BY <1>4, AbsenceAssumption
    DEF EditorsMove, FocusEditor, ShowEditor, HideEditor, CloseEditor, editorVars, TypeOK, EditorTypes
  <2>3. CASE ActiveEditorChanges
    <3>1. front' \in Files /\ model'[front'] \in Texts
      BY <1>4, <2>3, UserTypes, ActiveFile DEF EditorsMove, User, TypeOK
    <3>2. QED
      BY <2>1, <2>2, <2>3, <3>1, ActiveInSync DEF ActiveEditorChanges
  <2>4. CASE UNCHANGED <<bridgeVars, listening, watched>>
    BY <2>1, <2>2, <2>4
    DEF Synced, Attached, NothingUnsaved, DiskAgrees, OnItsWay, EditorAgrees, Agrees, bridgeVars, diskVars
  <2>5. QED
    BY <1>4, <2>3, <2>4, EditorsMoveOn DEF NothingActivated, listenVars
<1>5. ASSUME NEW f \in Files, DiscardChanges(f)
      PROVE  FALSE
  <2> DEFINE guarded == [discarded |-> TRUE]
  <2>1. Miss(guarded)
    BY <1>5 DEF DiscardChanges
  <2>2. "discarded" \in DOMAIN guarded /\ guarded["discarded"] = TRUE
    OBVIOUS
  <2> HIDE DEF guarded
  <2>3. QED
    BY <2>1, <2>2, NothingMissed
<1>6. ASSUME NEW t \in Texts, EditScene(t)
      PROVE  Synced'
  BY <1>6, AbsenceAssumption
  DEF EditScene, Bridge!Edit, Synced, Attached, NothingUnsaved, DiskAgrees, OnItsWay, EditorAgrees,
      listenVars
<1>7. QED
  BY <1>2, <1>3, <1>4, <1>5, <1>6 DEF User, EditorsMove

\* So do writes of other programs, whose event is on its way; a write that
\* fails is counted, and a read that fails if the bridge has not what it missed.
LEMMA OutsideInSync ==
  ASSUME TypeOK, Follows, Synced, Undisturbed', Outside
  PROVE  Synced'
<1>1. ASSUME NEW f \in Files, WriteFails(f)
      PROVE  FALSE
  <2> DEFINE guarded == [failed |-> TRUE]
  <2>1. Miss(guarded)
    BY <1>1 DEF WriteFails
  <2>2. "failed" \in DOMAIN guarded /\ guarded["failed"] = TRUE
    OBVIOUS
  <2> HIDE DEF guarded
  <2>3. QED
    BY <2>1, <2>2, NothingMissed
<1>2. ASSUME NEW f \in Files, NEW t \in Texts, WriteOutside(f, t)
      PROVE  Synced'
  <2>1. /\ disk' = [disk EXCEPT ![f] = t] /\ events' = events \cup {f}
        /\ UNCHANGED <<bridgeVars, editorVars, listenVars, writes, reads>>
    BY <1>2 DEF WriteOutside
  <2>2. Attached' /\ NothingUnsaved' /\ EditorAgrees'
    BY <2>1
    DEF Synced, Attached, NothingUnsaved, EditorAgrees, Agrees, bridgeVars, editorVars, listenVars
  <2>3. DiskAgrees'
    <3>1. ASSUME text # NoText, uri # f
          PROVE  disk'[uri] = disk[uri]
      BY <2>1, <3>1 DEF TypeOK, DiskTypes, BridgeTypes, Follows
    <3>2. QED
      BY <2>1, <3>1 DEF Synced, DiskAgrees, OnItsWay, Agrees, bridgeVars, editorVars
  <2>4. QED
    BY <2>2, <2>3 DEF Synced
<1>3. ASSUME NEW i \in DOMAIN reads, ReadFails(i)
      PROVE  Synced'
  <2>1. ~ Replaces(disk[reads[i].file])
    <3> DEFINE guarded == [unread |-> Replaces(disk[reads[i].file])]
    <3>1. Miss(guarded)
      BY <1>3 DEF ReadFails
    <3>2. "unread" \in DOMAIN guarded /\ (guarded["unread"] <=> Replaces(disk[reads[i].file]))
      OBVIOUS
    <3> HIDE DEF guarded
    <3>3. QED
      BY <3>1, <3>2, NothingMissed
  <2>2. reads' = RemoveAt(reads, i) /\ UNCHANGED <<bridgeVars, editorVars, listenVars, diskVars>>
    BY <1>3 DEF ReadFails
  <2>3. \A j \in DOMAIN reads \ {i} : \E k \in DOMAIN reads' : reads'[k] = reads[j]
    BY <2>2, ReadRemoved DEF TypeOK, ReadTypes, Reads
  <2>4. Attached' /\ NothingUnsaved' /\ EditorAgrees'
    BY <2>2
    DEF Synced, Attached, NothingUnsaved, EditorAgrees, Agrees, bridgeVars, editorVars, listenVars
  <2>5. ASSUME NEW j \in DOMAIN reads, reads[j].file = uri, reads[j].text \in {NoText, disk[uri]}
        PROVE  Agrees(disk[uri]) \/ OnItsWay'
    <3>1. CASE j = i
      BY <2>1, <2>5, <3>1 DEF Agrees, Replaces
    <3>2. CASE j # i
      <4>1. PICK k \in DOMAIN reads' : reads'[k] = reads[j]
        BY <2>3, <3>2
      <4>2. QED
        BY <2>2, <2>5, <4>1 DEF OnItsWay, bridgeVars, diskVars
    <3>3. QED
      BY <3>1, <3>2
  <2>6. DiskAgrees'
    <3>1. OnItsWay => Agrees(disk[uri]) \/ OnItsWay'
      BY <2>2, <2>5 DEF OnItsWay, bridgeVars, diskVars
    <3>2. QED
      BY <2>2, <3>1 DEF Synced, DiskAgrees, Agrees, bridgeVars, editorVars, diskVars
  <2>7. QED
    BY <2>4, <2>6 DEF Synced
<1>4. CASE LoaderFails
  BY <1>4
  DEF LoaderFails, Synced, Attached, NothingUnsaved, DiskAgrees, OnItsWay, EditorAgrees, Agrees,
      bridgeVars, editorVars, listenVars, diskVars
<1>5. QED
  BY <1>1, <1>2, <1>3, <1>4 DEF Outside

\* A save puts the text on its way, and in the editor if that is on show.
LEMMA SaveInSync ==
  ASSUME TypeOK, Follows, Synced, Undisturbed', SaveTimerFires
  PROVE  Synced'
<1>1. /\ uri \in Files /\ text \in Texts /\ text # NoText /\ UNCHANGED <<uri, text>>
      /\ Accepted(text) = text
  BY DEF SaveTimerFires, Bridge!SaveTimerFires, TypeOK, BridgeTypes, Follows
<1>2. /\ model' = IF front = uri THEN [model EXCEPT ![uri] = text] ELSE model
      /\ dirty' = IF front = uri /\ model[uri] # text THEN dirty \cup {uri} ELSE dirty
      /\ writes' = [writes EXCEPT ![uri] = Append(@, text)]
      /\ UNCHANGED <<listenVars, reads>>
  BY DEF SaveTimerFires, SaveToDisk
<1>3. ~ (front # uri /\ uri \in dirty /\ model[uri] # text)
  <2> DEFINE guarded == [background |-> front # uri /\ uri \in dirty /\ model[uri] # text]
  <2>1. Miss(guarded)
    BY DEF SaveTimerFires, SaveToDisk
  <2>2. /\ "background" \in DOMAIN guarded
        /\ guarded["background"] <=> front # uri /\ uri \in dirty /\ model[uri] # text
    OBVIOUS
  <2> HIDE DEF guarded
  <2>3. QED
    BY <2>1, <2>2, NothingMissed
<1>4. Attached' /\ NothingUnsaved'
  BY <1>1, <1>2 DEF Synced, Attached, NothingUnsaved, listenVars
<1>5. DiskAgrees'
  <2>1. writes[uri] \in Seq(Texts) /\ writes'[uri] = Append(writes[uri], text)
    BY <1>1, <1>2 DEF TypeOK, DiskTypes
  <2>2. writes'[uri] # <<>>
    BY <1>1, <2>1
  <2>3. QED
    BY <1>1, <2>2 DEF DiskAgrees, OnItsWay
<1>6. EditorAgrees'
  <2>1. CASE front = uri
    <3>1. model'[uri] = text
      BY <1>1, <1>2, <2>1 DEF TypeOK, EditorTypes
    <3>2. QED
      BY <1>1, <3>1 DEF EditorAgrees, Agrees
  <2>2. CASE front # uri
    BY <1>1, <1>2, <1>3, <2>2 DEF EditorAgrees, Agrees
  <2>3. QED
    BY <2>1, <2>2
<1>7. QED
  BY <1>4, <1>5, <1>6 DEF Synced

\* What is written, noticed and read goes on its way.
LEMMA WatchInSync ==
  ASSUME TypeOK, Follows, Synced, Undisturbed',
         \/ \E f \in Files : WriteDone(f) \/ FileChanged(f)
         \/ \E i \in DOMAIN reads : ReadFile(i)
  PROVE  Synced'
<1>1. text # NoText => uri \in Files
  BY DEF TypeOK, BridgeTypes, Follows
<1>2. UNCHANGED <<uri, text, saveTimer, model, dirty, visible, front, listening, live, watched>>
  BY DEF WriteDone, FileChanged, ReadFile, bridgeVars, editorVars, listenVars
<1>3. Attached' /\ NothingUnsaved' /\ EditorAgrees'
  BY <1>2 DEF Synced, Attached, NothingUnsaved, EditorAgrees, Agrees
<1>4. reads \in Seq(Reads)
  BY DEF TypeOK, ReadTypes, Reads
<1>5. ASSUME NEW f \in Files, WriteDone(f)
      PROVE  DiskAgrees'
  <2>1. ASSUME text # NoText, uri # f
        PROVE  disk'[uri] = disk[uri] /\ writes'[uri] = writes[uri]
    BY <1>1, <1>5, <2>1 DEF WriteDone, TypeOK, DiskTypes
  <2>2. events' = events \cup {f} /\ reads' = reads
    BY <1>5 DEF WriteDone
  <2>3. QED
    BY <1>2, <2>1, <2>2 DEF Synced, DiskAgrees, OnItsWay, Agrees
<1>6. ASSUME NEW f \in Files, FileChanged(f), text # NoText, uri \notin dirty
      PROVE  Agrees(disk[uri]) \/ OnItsWay'
  <2>1. /\ events' = events \ {f} /\ UNCHANGED <<disk, writes>> /\ watched = uri
        /\ reads' = IF watched = f /\ ~ window THEN Append(reads, [file |-> f, text |-> NoText]) ELSE reads
    BY <1>6 DEF FileChanged, Synced, Attached
  <2>2. [file |-> f, text |-> NoText] \in Reads
    BY DEF Reads
  <2>3. \A i \in DOMAIN reads : i \in DOMAIN reads' /\ reads'[i] = reads[i]
    BY <1>4, <2>1, <2>2
  <2>4. CASE f = uri /\ ~ window
    <3>1. reads' = Append(reads, [file |-> f, text |-> NoText])
      BY <2>1, <2>4
    <3>2. Len(reads) + 1 \in DOMAIN reads' /\ reads'[Len(reads) + 1] = [file |-> f, text |-> NoText]
      BY <1>4, <2>2, <3>1
    <3>3. QED
      BY <1>2, <2>4, <3>2 DEF OnItsWay
  <2>5. CASE f = uri /\ window
    <3>1. ~ (watched = f /\ window /\ Replaces(disk[f]) /\ ~ saveTimer /\ writes[f] = <<>>)
      <4> DEFINE guarded == [window |-> /\ watched = f /\ window /\ Replaces(disk[f])
                                        /\ ~ saveTimer /\ writes[f] = <<>>]
      <4>1. Miss(guarded)
        BY <1>6 DEF FileChanged
      <4>2. /\ "window" \in DOMAIN guarded
            /\ guarded["window"] <=> /\ watched = f /\ window /\ Replaces(disk[f])
                                     /\ ~ saveTimer /\ writes[f] = <<>>
        OBVIOUS
      <4> HIDE DEF guarded
      <4>3. QED
        BY <4>1, <4>2, NothingMissed
    <3>2. QED
      BY <1>2, <2>1, <2>5, <3>1 DEF OnItsWay, Agrees, Replaces
  <2>6. CASE f # uri
    BY <1>2, <1>6, <2>1, <2>3, <2>6 DEF Synced, DiskAgrees, OnItsWay
  <2>7. QED
    BY <2>4, <2>5, <2>6
<1>7. ASSUME NEW i \in DOMAIN reads, ReadFile(i)
      PROVE  DiskAgrees'
  <2>1. reads[i].file \in Files
    BY <1>4, ReadOfFile
  <2>2. disk[reads[i].file] \in Texts
    BY <2>1 DEF TypeOK, DiskTypes
  <2>3. reads' = [reads EXCEPT ![i].text = disk[reads[i].file]] /\ UNCHANGED diskVars
    BY <1>7 DEF ReadFile
  <2>4. /\ DOMAIN reads' = DOMAIN reads
        /\ reads'[i].file = reads[i].file /\ reads'[i].text = disk[reads[i].file]
        /\ \A j \in DOMAIN reads \ {i} : reads'[j] = reads[j]
    BY <1>4, <2>2, <2>3, ReadFilled
  <2>5. QED
    BY <1>2, <2>3, <2>4 DEF Synced, DiskAgrees, OnItsWay, Agrees, diskVars
<1>8. ASSUME NEW f \in Files, FileChanged(f)
      PROVE  DiskAgrees'
  BY <1>2, <1>6, <1>8 DEF FileChanged, DiskAgrees, Agrees
<1>9. QED
  BY <1>3, <1>5, <1>7, <1>8 DEF Synced

\* What is read is loaded unless the bridge has it.
LEMMA ReadInSync ==
  ASSUME TypeOK, Follows, Synced, Undisturbed', NEW i \in DOMAIN reads, ReadDone(i)
  PROVE  Synced'
<1> DEFINE f == reads[i].file
           t == reads[i].text
<1>1. reads \in Seq(Reads)
  BY DEF TypeOK, ReadTypes, Reads
<1>2. f \in Files /\ t \in Texts
  BY <1>1, ReadOfFile DEF ReadDone
<1>3. /\ Replaces(t) => t = disk[f]
      /\ Replaces(t) => f = uri
      /\ Replaces(t) => f \notin dirty
  <2> DEFINE guarded == [late     |-> Replaces(t) /\ t # disk[f],
                         foreign  |-> Replaces(t) /\ f # uri,
                         conflict |-> Replaces(t) /\ f \in dirty]
  <2>1. Miss(guarded)
    BY DEF ReadDone
  <2>2. /\ DOMAIN guarded = {"late", "foreign", "conflict"}
        /\ guarded["late"] <=> Replaces(t) /\ t # disk[f]
        /\ guarded["foreign"] <=> Replaces(t) /\ f # uri
        /\ guarded["conflict"] <=> Replaces(t) /\ f \in dirty
    OBVIOUS
  <2> HIDE DEF guarded, f, t
  <2>3. QED
    BY <2>1, <2>2, NothingMissed
<1>4. Bridge!LoadFromText(Accepted(t), Normal[t] # t) /\ uri' = uri
  BY DEF ReadDone, Bridge!Reload
<1>5. UNCHANGED <<editorVars, listenVars, diskVars>> /\ reads' = RemoveAt(reads, i)
  BY DEF ReadDone
<1>6. watched # NoFile
  <2>1. reads # <<>>
    BY <1>1
  <2>2. QED
    BY <2>1 DEF Follows
<1>7. \A j \in DOMAIN reads \ {i} : \E k \in DOMAIN reads' : reads'[k] = reads[j]
  BY <1>1, <1>5, ReadRemoved
<1>8. ASSUME NEW j \in DOMAIN reads, reads[j].file = uri, reads[j].text \in {NoText, disk[uri]},
             ~ Replaces(t)
      PROVE  Agrees(disk[uri]) \/ OnItsWay'
  <2>1. CASE j = i
    <3>1. t = disk[uri]
      BY <1>2, <1>8, <2>1, AbsenceAssumption
    <3>2. QED
      BY <1>8, <3>1 DEF Agrees, Replaces
  <2>2. CASE j # i
    <3>1. PICK k \in DOMAIN reads' : reads'[k] = reads[j]
      BY <1>7, <2>2
    <3>2. QED
      BY <1>4, <1>5, <1>8, <3>1 DEF OnItsWay, diskVars
  <2>3. QED
    BY <2>1, <2>2
<1> HIDE DEF f, t
<1>9. CASE Replaces(t)
  <2>1. text' # NoText /\ text' = Accepted(t)
    BY <1>2, <1>4, <1>9, LoadAgrees
  <2>2. watched = uri
    BY <1>6 DEF Synced, Attached
  <2>3. QED
    BY <1>3, <1>4, <1>5, <1>9, <2>1, <2>2
    DEF Synced, Attached, NothingUnsaved, DiskAgrees, EditorAgrees, Agrees, editorVars, listenVars, diskVars
<1>10. CASE ~ Replaces(t)
  <2>1. UNCHANGED <<text, saveTimer>>
    BY <1>2, <1>4, <1>10, LoadAgrees
  <2>2. Attached' /\ NothingUnsaved' /\ EditorAgrees'
    BY <1>4, <1>5, <2>1
    DEF Synced, Attached, NothingUnsaved, EditorAgrees, Agrees, editorVars, listenVars
  <2>3. DiskAgrees'
    <3>1. text # NoText /\ uri \notin dirty /\ OnItsWay => Agrees(disk[uri]) \/ OnItsWay'
      BY <1>4, <1>5, <1>8, <1>10, <2>1 DEF OnItsWay, diskVars
    <3>2. QED
      BY <1>4, <1>5, <2>1, <3>1 DEF Synced, DiskAgrees, Agrees, editorVars, diskVars
  <2>4. QED
    BY <2>2, <2>3 DEF Synced
<1>11. QED
  BY <1>9, <1>10

\* An editor without changes has the text of the disk.
LEMMA ModelInSync ==
  ASSUME TypeOK, Follows, Synced, Undisturbed', NEW f \in Files, ModelReloads(f)
  PROVE  Synced'
<1>1. /\ disk[f] \in Texts /\ f \notin dirty /\ ContentChanged(f, disk[f])
      /\ UNCHANGED <<dirty, listenVars, diskVars, reads>>
      /\ \A g \in dirty : model'[g] = model[g]
  BY DEF ModelReloads, TypeOK, DiskTypes, EditorTypes
<1>2. CASE UNCHANGED bridgeVars
  BY <1>1, <1>2
  DEF Synced, Attached, NothingUnsaved, DiskAgrees, OnItsWay, EditorAgrees, Agrees, bridgeVars,
      listenVars, diskVars
<1>3. CASE uri' = f /\ watched = f /\ text' # NoText /\ Accepted(disk[f]) = text'
  BY <1>1, <1>3
  DEF Synced, Attached, NothingUnsaved, DiskAgrees, EditorAgrees, Agrees, listenVars, diskVars
<1>4. QED
  BY <1>1, <1>2, <1>3, HeardInSync

\* The loader loads what is on disk, and the bridge is then watching it.
LEMMA LoaderInSync ==
  ASSUME TypeOK, Follows, Synced, Undisturbed', LoaderLoads
  PROVE  Synced'
<1> DEFINE f == loader.file
           t == loader.text
<1>1. f \in Files /\ t \in Texts
  BY DEF LoaderLoads, TypeOK, LoaderTypes
<1>2. /\ Replaces(t) => text = NoText /\ t = disk[f]
      /\ ~ KeepsOtherText(f, t)
      /\ ~ Replaces(t) => uri \in {f, NoFile}
  <2> DEFINE guarded == [late   |-> Replaces(t) /\ (text # NoText \/ t # disk[f]),
                         moved  |-> KeepsOtherText(f, t),
                         astray |-> ~ Replaces(t) /\ uri \notin {f, NoFile}]
  <2>1. Miss(guarded)
    BY DEF LoaderLoads
  <2>2. /\ DOMAIN guarded = {"late", "moved", "astray"}
        /\ guarded["late"] <=> Replaces(t) /\ (text # NoText \/ t # disk[f])
        /\ guarded["moved"] <=> KeepsOtherText(f, t)
        /\ guarded["astray"] <=> ~ Replaces(t) /\ uri \notin {f, NoFile}
    OBVIOUS
  <2> HIDE DEF guarded, f, t
  <2>3. QED
    BY <2>1, <2>2, NothingMissed
<1>3. Bridge!LoadFromText(Accepted(t), Normal[t] # t) /\ uri' = f
  BY DEF LoaderLoads, Bridge!Open
<1>4. /\ UNCHANGED <<editorVars, listening, diskVars, reads>>
      /\ watched' = IF Replaces(t) THEN f ELSE watched
  BY DEF LoaderLoads
<1> HIDE DEF f, t
<1>5. CASE Replaces(t)
  <2>1. text' # NoText /\ text' = Accepted(t)
    BY <1>1, <1>3, <1>5, LoadAgrees
  <2>2. f \in dirty => Accepted(model[f]) = NoText
    BY <1>2, <1>5 DEF Synced, NothingUnsaved
  <2>3. QED
    BY <1>2, <1>3, <1>4, <1>5, <2>1, <2>2
    DEF Synced, Attached, NothingUnsaved, DiskAgrees, EditorAgrees, Agrees, editorVars, diskVars
<1>6. CASE ~ Replaces(t)
  <2>1. UNCHANGED <<text, saveTimer>>
    BY <1>1, <1>3, <1>6, LoadAgrees
  <2>2. CASE text = NoText
    BY <1>2, <1>3, <1>4, <1>6, <2>1, <2>2
    DEF Synced, Attached, NothingUnsaved, DiskAgrees, EditorAgrees, editorVars
  <2>3. CASE text # NoText
    <3>1. uri = f
      BY <1>2, <1>6, <2>3 DEF KeepsOtherText
    <3>2. QED
      BY <1>3, <1>4, <1>6, <2>1, <2>3, <3>1
      DEF Synced, Attached, NothingUnsaved, DiskAgrees, OnItsWay, EditorAgrees, Agrees, editorVars, diskVars
  <2>4. QED
    BY <2>2, <2>3
<1>7. QED
  BY <1>5, <1>6

\* The history only grows.
LEMMA WasUndisturbed ==
  ASSUME Next, Undisturbed'
  PROVE  Undisturbed
BY DEF Undisturbed, Next, User, Outside, System, TypeText, ContentChanged, SaveEditor, DiscardChanges,
   ShowEditor, AttachModelListener, ActiveEditorChanges, NothingActivated, HideEditor, FocusEditor,
   CloseEditor, EditScene, WriteFails, WriteOutside, ReadFails, LoaderFails, SaveTimerFires, SaveToDisk,
   WindowCloses, WriteDone, FileChanged, ModelReloads, ReadFile, ReadDone, LoaderLooks, LoaderReads,
   LoaderLoads, Miss

\* As long as no content was passed over in one of the ways the history
\* names, the text of the bridge is that of its file or its unsaved editor
\* whenever nothing is under way that will tell one of them.
THEOREM AlwaysInSync == Spec => []InSync
<1> DEFINE Inv == Follows /\ (Undisturbed => Synced)
<1>1. Init => Inv
  BY DEF Init, Bridge!Init, Follows, Synced, Attached, NothingUnsaved, DiskAgrees, EditorAgrees
<1>2. TypeOK /\ Inv /\ [Next]_vars => Inv'
  <2>1. ASSUME TypeOK, Inv, Next
        PROVE  Follows'
    BY <2>1, FollowsKept
  <2>2. ASSUME TypeOK, Follows, Synced, System, Undisturbed'
        PROVE  Synced'
    <3>1. CASE WindowCloses \/ LoaderLooks \/ LoaderReads
      BY <2>2, <3>1
      DEF WindowCloses, LoaderLooks, LoaderReads, Synced, Attached, NothingUnsaved, DiskAgrees, OnItsWay,
          EditorAgrees, Agrees, bridgeVars, editorVars, listenVars, diskVars
    <3>2. QED
      BY <2>2, <3>1, SaveInSync, WatchInSync, ReadInSync, ModelInSync, LoaderInSync DEF System
  <2>3. ASSUME TypeOK, Inv, Next, Undisturbed'
        PROVE  Synced'
    BY <2>2, <2>3, WasUndisturbed, UserInSync, OutsideInSync DEF Next
  <2>4. ASSUME Inv, UNCHANGED vars
        PROVE  Inv'
    BY <2>4
    DEF vars, bridgeVars, editorVars, listenVars, diskVars, Follows, Undisturbed, Synced, Attached,
        NothingUnsaved, DiskAgrees, OnItsWay, EditorAgrees, Agrees
  <2>5. QED
    BY <2>1, <2>3, <2>4
<1>3. TypeOK /\ Inv => InSync
  <2>1. ASSUME Synced, TypeOK, text # NoText, ~ UnderWay(uri)
        PROVE  /\ model[uri] # NoText => Agrees(model[uri])
               /\ uri \notin dirty => Agrees(disk[uri])
    <3>1. ~ OnItsWay /\ ~ saveTimer
      BY <2>1 DEF UnderWay, OnItsWay
    <3>2. uri \notin dirty => Agrees(disk[uri])
      BY <2>1, <3>1 DEF Synced, DiskAgrees
    <3>3. model[uri] # NoText /\ uri \notin dirty => model[uri] = disk[uri]
      BY <2>1 DEF UnderWay
    <3>4. uri \in dirty => Agrees(model[uri])
      BY <2>1, <3>1 DEF Synced, EditorAgrees
    <3>5. QED
      BY <3>2, <3>3, <3>4
  <2>2. QED
    BY <2>1 DEF InSync, Undisturbed, Agrees
<1> HIDE DEF Inv
<1>4. QED
  BY <1>1, <1>2, <1>3, TypeCorrect, PTL DEF Spec

-----------------------------------------------------------------------------
(* What is left to be done *)

\* Strengthening: neither the bridge nor a write under way has a text that a
\* migration would change.
TextUpToDate == text # NoText => ~ Outdated(text)
QueuesUpToDate == \A f \in Files : \A i \in DOMAIN writes[f] : ~ Outdated(writes[f][i])
UpToDate == TextUpToDate /\ QueuesUpToDate

\* A load leaves an up to date text.
LEMMA LoadedUpToDate ==
  ASSUME TypeOK, TextUpToDate, NEW t \in Texts, NEW migrated \in BOOLEAN,
         Bridge!LoadFromText(Accepted(t), migrated)
  PROVE  TextUpToDate'
<1>1. ~ Outdated(Normal[t])
  BY TextAssumption DEF Outdated
<1>2. text' = text \/ (text' = Accepted(t) /\ text' # NoText)
  BY LoadedText DEF TypeOK
<1>3. QED
  BY <1>1, <1>2 DEF Accepted, TextUpToDate, Outdated

\* So does every step.
LEMMA TextKeptUpToDate ==
  ASSUME TypeOK, UpToDate, Next
  PROVE  TextUpToDate'
<1>1. ASSUME text' = text
      PROVE  TextUpToDate'
  BY <1>1 DEF UpToDate, TextUpToDate, Outdated
<1>2. ASSUME NEW f \in Files, NEW t \in Texts, ContentChanged(f, t)
      PROVE  TextUpToDate'
  BY <1>1, <1>2, LoadedUpToDate DEF ContentChanged, bridgeVars, Bridge!Reload, UpToDate
<1>3. ASSUME NEW f \in Files, NEW t \in Texts, Bridge!Open(f, Accepted(t), Normal[t] # t)
      PROVE  TextUpToDate'
  BY <1>3, LoadedUpToDate DEF Bridge!Open, UpToDate
<1>4. CASE User
  <2>1. CASE EditorsMove
    <3>1. CASE ActiveEditorChanges
      <4>1. front' \in Files /\ model'[front'] \in Texts
        BY <1>4, <3>1, UserTypes, ActiveFile DEF TypeOK
      <4>2. QED
        BY <1>1, <1>3, <3>1, <4>1 DEF ActiveEditorChanges, AttachModelListener, bridgeVars
    <3>2. CASE UNCHANGED bridgeVars
      BY <1>1, <3>2 DEF bridgeVars
    <3>3. QED
      BY <2>1, <3>1, <3>2, EditorsMoveOn DEF NothingActivated
  <2>2. ASSUME NEW t \in Texts, EditScene(t)
        PROVE  TextUpToDate'
    BY <2>2 DEF EditScene, Bridge!Edit, TextUpToDate, Outdated
  <2>3. ASSUME NEW f \in Files, NEW t \in Texts, TypeText(f, t)
        PROVE  TextUpToDate'
    BY <1>2, <2>3 DEF TypeText
  <2>4. QED
    BY <1>1, <1>4, <2>1, <2>2, <2>3 DEF User, EditorsMove, SaveEditor, DiscardChanges, bridgeVars
<1>5. CASE Outside
  BY <1>1, <1>5 DEF Outside, WriteFails, WriteOutside, ReadFails, LoaderFails, bridgeVars
<1>6. CASE System
  <2>1. ASSUME NEW f \in Files, ModelReloads(f)
        PROVE  TextUpToDate'
    BY <1>2, <2>1 DEF ModelReloads, TypeOK, DiskTypes
  <2>2. ASSUME NEW i \in DOMAIN reads, ReadDone(i)
        PROVE  TextUpToDate'
    <3>1. reads[i].text \in Texts
      BY <2>2, ReadOfFile DEF ReadDone, TypeOK, ReadTypes, Reads
    <3>2. Bridge!LoadFromText(Accepted(reads[i].text), Normal[reads[i].text] # reads[i].text)
      BY <2>2 DEF ReadDone, Bridge!Reload
    <3>3. QED
      BY <3>1, <3>2, LoadedUpToDate DEF UpToDate
  <2>3. CASE LoaderLoads
    <3>1. loader.file \in Files /\ loader.text \in Texts
      BY <2>3 DEF LoaderLoads, TypeOK, LoaderTypes
    <3>2. QED
      BY <1>3, <2>3, <3>1 DEF LoaderLoads
  <2>4. QED
    BY <1>1, <1>6, <2>1, <2>2, <2>3
    DEF System, SaveTimerFires, Bridge!SaveTimerFires, WindowCloses, WriteDone, FileChanged, ReadFile,
        LoaderLooks, LoaderReads, bridgeVars
<1>7. QED
  BY <1>4, <1>5, <1>6 DEF Next

\* What is queued for a write is the text of the bridge at the time.
LEMMA QueuesKeptUpToDate ==
  ASSUME TypeOK, UpToDate, Next
  PROVE  QueuesUpToDate'
<1>1. ASSUME writes' = writes
      PROVE  QueuesUpToDate'
  BY <1>1 DEF UpToDate, QueuesUpToDate, Outdated
<1>2. ASSUME NEW f \in Files, writes[f] # <<>>, writes' = [writes EXCEPT ![f] = Tail(@)]
      PROVE  QueuesUpToDate'
  <2>1. \A i \in DOMAIN Tail(writes[f]) : ~ Outdated(Tail(writes[f])[i])
    BY <1>2, WriteTaken DEF UpToDate, QueuesUpToDate, TypeOK, DiskTypes
  <2>2. QED
    BY <1>2, <2>1 DEF UpToDate, QueuesUpToDate, TypeOK, DiskTypes, Outdated
<1>3. CASE SaveTimerFires
  <2>1. uri \in Files /\ text \in Texts /\ ~ Outdated(text)
    BY <1>3 DEF SaveTimerFires, Bridge!SaveTimerFires, TypeOK, BridgeTypes, UpToDate, TextUpToDate
  <2>2. writes' = [writes EXCEPT ![uri] = Append(@, text)]
    BY <1>3 DEF SaveTimerFires, SaveToDisk
  <2>3. \A i \in DOMAIN Append(writes[uri], text) : ~ Outdated(Append(writes[uri], text)[i])
    BY <2>1, WriteQueued DEF UpToDate, QueuesUpToDate, TypeOK, DiskTypes
  <2>4. QED
    BY <2>1, <2>2, <2>3 DEF UpToDate, QueuesUpToDate, TypeOK, DiskTypes, Outdated
<1>4. QED
  BY <1>1, <1>2, <1>3
  DEF Next, User, TypeText, ShowEditor, HideEditor, FocusEditor, CloseEditor, SaveEditor, DiscardChanges,
      EditScene, Outside, WriteFails, WriteOutside, ReadFails, LoaderFails, System, WindowCloses, WriteDone, FileChanged, ModelReloads, ReadFile,
      ReadDone, LoaderLooks, LoaderReads, LoaderLoads, diskVars

\* All that is counted is finite.
LEMMA WorkIsFinite ==
  ASSUME TypeOK
  PROVE  /\ LoaderWork \in Nat /\ reads \in Seq(Reads) /\ Len(reads) \in Nat
         /\ IsFiniteSet(OutdatedEvents) /\ IsFiniteSet(OutdatedUnread) /\ IsFiniteSet(OutdatedReads)
         /\ IsFiniteSet(Queued) /\ IsFiniteSet(events) /\ IsFiniteSet(Unread) /\ IsFiniteSet(Following)
<1>1. LoaderWork \in Nat
  BY AttemptsAssumption DEF TypeOK, LoaderTypes, LoaderWork
<1>2. reads \in Seq(Reads) /\ Len(reads) \in Nat /\ DOMAIN reads = 1 .. Len(reads)
  BY DEF TypeOK, ReadTypes, Reads
<1>3. IsFiniteSet(DOMAIN reads)
  BY <1>2, FS_Interval
<1>4. IsFiniteSet(OutdatedUnread) /\ IsFiniteSet(OutdatedReads) /\ IsFiniteSet(Unread)
  BY <1>3, FS_Subset DEF OutdatedUnread, OutdatedReads, Unread
<1>5. IsFiniteSet(OutdatedEvents) /\ IsFiniteSet(events) /\ IsFiniteSet(Following)
  BY FinitelyManyFiles, FS_Subset DEF TypeOK, DiskTypes, OutdatedEvents, Following
<1>6. IsFiniteSet(Queued)
  <2> DEFINE queue == [f \in Files |-> DOMAIN writes[f]]
  <2>1. \A f \in Files : IsFiniteSet(queue[f])
    <3>1. SUFFICES ASSUME NEW f \in Files
                   PROVE  IsFiniteSet(DOMAIN writes[f])
      OBVIOUS
    <3>2. Len(writes[f]) \in Nat /\ DOMAIN writes[f] = 1 .. Len(writes[f])
      BY DEF TypeOK, DiskTypes
    <3>3. QED
      BY <3>2, FS_Interval
  <2>2. Queued = UNION {{f} \X queue[f] : f \in Files}
    BY DEF Queued
  <2> HIDE DEF queue
  <2>3. QED
    BY <2>1, <2>2, FinitelyManyFiles, FamilyIsFinite
<1>7. QED
  BY <1>1, <1>2, <1>4, <1>5, <1>6

\* Eleven numbers are a tuple of numbers.
LEMMA ElevenNumbers ==
  ASSUME NEW a \in Nat, NEW b \in Nat, NEW c \in Nat, NEW d \in Nat, NEW e \in Nat, NEW f \in Nat,
         NEW g \in Nat, NEW h \in Nat, NEW i \in Nat, NEW j \in Nat, NEW k \in Nat
  PROVE  <<a, b, c, d, e, f, g, h, i, j, k>> \in [1 .. 11 -> Nat]
OBVIOUS

\* The work is one.
LEMMA WorkIsNumbers == TypeOK => Work \in [1 .. 11 -> Nat]
<1> SUFFICES ASSUME TypeOK PROVE Work \in [1 .. 11 -> Nat]
  OBVIOUS
<1>1. /\ LoaderWork \in Nat /\ Len(reads) \in Nat
      /\ Cardinality(OutdatedEvents) \in Nat /\ Cardinality(OutdatedUnread) \in Nat
      /\ Cardinality(OutdatedReads) \in Nat /\ Cardinality(Queued) \in Nat
      /\ Cardinality(events) \in Nat /\ Cardinality(Unread) \in Nat /\ Cardinality(Following) \in Nat
  BY WorkIsFinite, FS_CardinalityType
<1>2. Indicator(saveTimer) \in Nat /\ Indicator(window) \in Nat
  BY DEF Indicator
<1>3. QED
  BY <1>1, <1>2, ElevenNumbers, Zenon DEF Work

\* And stays one.
LEMMA WorkStaysNumbers == (TypeOK => Work \in [1 .. 11 -> Nat])'
BY WorkIsNumbers, PTL

\* Work descends if one number gets less and none before it more.
LEMMA WorkDescends ==
  ASSUME TypeOK, TypeOK', NEW k \in 1 .. 11,
         Work'[k] < Work[k], \A j \in 1 .. k - 1 : Work'[j] = Work[j] \/ Work'[j] <= Work[j]
  PROVE  Descends(Work', Work)
<1>1. Work \in [1 .. 11 -> Nat] /\ Work' \in [1 .. 11 -> Nat] /\ 11 \in Nat
  BY WorkIsNumbers, WorkStaysNumbers
<1>2. \A j \in 1 .. k - 1 : Work'[j] <= Work[j]
  BY <1>1
<1>3. QED
  BY <1>1, <1>2, LessSomewhere

\* The save timer leaves a write to do and closes nothing before it.
LEMMA SaveDescends ==
  ASSUME TypeOK, TypeOK', SaveTimerFires
  PROVE  Descends(Work', Work)
<1>1. saveTimer = TRUE /\ saveTimer' = FALSE
  BY DEF SaveTimerFires, Bridge!SaveTimerFires, TypeOK, BridgeTypes
<1>2. Indicator(saveTimer') < Indicator(saveTimer)
  BY <1>1 DEF Indicator
<1>3. UNCHANGED <<LoaderWork, OutdatedEvents, OutdatedUnread, OutdatedReads>>
  BY DEF SaveTimerFires, SaveToDisk, LoaderWork, OutdatedEvents, OutdatedUnread, OutdatedReads, Unread,
         Outdated
<1>5. Work'[5] < Work[5]
  BY <1>2 DEF Work
<1>6. \A j \in 1 .. 4 : Work'[j] = Work[j]
  BY <1>3 DEF Work
<1>7. QED
  BY <1>5, <1>6, WorkDescends

\* The window closes, and nothing else.
LEMMA WindowDescends ==
  ASSUME TypeOK, TypeOK', WindowCloses
  PROVE  Descends(Work', Work)
<1>1. Indicator(window') < Indicator(window)
  BY DEF WindowCloses, Indicator
<1>2. UNCHANGED <<LoaderWork, OutdatedEvents, OutdatedUnread, OutdatedReads, Queued, events, Unread, reads,
                  Following, saveTimer>>
  BY DEF WindowCloses, LoaderWork, OutdatedEvents, OutdatedUnread, OutdatedReads, Unread, Outdated, Queued,
         Following, diskVars, editorVars, bridgeVars
<1>5. Work'[11] < Work[11]
  BY <1>1 DEF Work
<1>6. \A j \in 1 .. 10 : Work'[j] = Work[j]
  BY <1>2 DEF Work
<1>7. QED
  BY <1>5, <1>6, WorkDescends

\* A write is done.
LEMMA WriteDescends ==
  ASSUME TypeOK, TypeOK', UpToDate, NEW f \in Files, WriteDone(f)
  PROVE  Descends(Work', Work)
<1>1. /\ writes[f] \in Seq(Texts) /\ writes[f] # <<>>
      /\ writes' = [writes EXCEPT ![f] = Tail(writes[f])] /\ disk' = [disk EXCEPT ![f] = writes[f][1]]
      /\ ~ Outdated(writes[f][1]) /\ events' = events \cup {f}
  BY WriteTaken DEF WriteDone, TypeOK, DiskTypes, UpToDate, QueuesUpToDate
<1>2. Cardinality(Queued') < Cardinality(Queued)
  <2>1. DOMAIN Tail(writes[f]) \subseteq DOMAIN writes[f]
    BY <1>1
  <2>2. Len(writes[f]) \in DOMAIN writes[f] \ DOMAIN Tail(writes[f])
    BY <1>1
  <2>3. Queued' \subseteq Queued
    BY <1>1, <2>1 DEF Queued, TypeOK, DiskTypes
  <2>4. <<f, Len(writes[f])>> \in Queued \ Queued'
    BY <1>1, <2>2 DEF Queued, TypeOK, DiskTypes
  <2>5. QED
    BY <2>3, <2>4, WorkIsFinite, PartIsLess
<1>3. \A g \in Files : Outdated(disk[g])' => Outdated(disk[g])
  BY <1>1 DEF TypeOK, DiskTypes, Outdated
<1>4. ~ Outdated(disk[f])'
  BY <1>1 DEF TypeOK, DiskTypes, Outdated
<1>5. OutdatedEvents' \subseteq OutdatedEvents
  BY <1>1, <1>3, <1>4 DEF OutdatedEvents, TypeOK, DiskTypes
<1>6. reads' = reads /\ UNCHANGED <<LoaderWork, Unread, OutdatedReads, saveTimer>>
  BY DEF WriteDone, LoaderWork, Unread, OutdatedReads, Outdated, bridgeVars
<1>7. OutdatedUnread' \subseteq OutdatedUnread
  BY <1>3, <1>6, WorkIsFinite, ReadOfFile DEF OutdatedUnread, Unread
<1>8. /\ Cardinality(OutdatedEvents') <= Cardinality(OutdatedEvents)
      /\ Cardinality(OutdatedUnread') <= Cardinality(OutdatedUnread)
  BY <1>5, <1>7, WorkIsFinite, PartIsLess
<1>10. Work'[6] < Work[6]
  BY <1>2 DEF Work
<1>11. \A j \in 1 .. 5 : Work'[j] = Work[j] \/ Work'[j] <= Work[j]
  <2>1. Work'[1] = Work[1] /\ Work'[4] = Work[4] /\ Work'[5] = Work[5]
    BY <1>6 DEF Work
  <2>2. Work'[2] <= Work[2] /\ Work'[3] <= Work[3]
    BY <1>8 DEF Work
  <2>3. QED
    BY <2>1, <2>2
<1>12. QED
  BY <1>10, <1>11, WorkDescends

\* An event is taken up: nothing after it counts as much as what it leaves.
LEMMA EventDescends ==
  ASSUME TypeOK, TypeOK', NEW f \in Files, FileChanged(f)
  PROVE  Descends(Work', Work)
<1> DEFINE new == [file |-> f, text |-> NoText]
<1>1. f \in events /\ events' = events \ {f}
  BY DEF FileChanged
<1>2. UNCHANGED <<disk, writes, loader, saveTimer>>
  BY DEF FileChanged, bridgeVars
<1>3. UNCHANGED <<LoaderWork, Queued>>
  BY <1>2 DEF LoaderWork, Queued
<1>4. CASE Outdated(disk[f])
  <2>1. OutdatedEvents' = OutdatedEvents \ {f} /\ f \in OutdatedEvents
    BY <1>1, <1>2, <1>4 DEF OutdatedEvents, Outdated
  <2>2. Cardinality(OutdatedEvents') < Cardinality(OutdatedEvents)
    BY <2>1, WorkIsFinite, PartIsLess
  <2>3. Work'[2] < Work[2] /\ Work'[1] = Work[1]
    BY <1>3, <2>2 DEF Work
  <2>4. QED
    BY <2>3, WorkDescends
<1>5. CASE ~ Outdated(disk[f])
  <2>1. OutdatedEvents' \subseteq OutdatedEvents
    BY <1>1, <1>2 DEF OutdatedEvents, Outdated
  <2>2. \A i \in DOMAIN reads' : reads'[i] = new \/ (i \in DOMAIN reads /\ reads'[i] = reads[i])
    <3>1. new \in Reads /\ reads \in Seq(Reads)
      BY WorkIsFinite DEF Reads
    <3>2. reads' = reads \/ reads' = Append(reads, new)
      BY DEF FileChanged
    <3>3. QED
      BY <3>1, <3>2, ReadAdded
  <2>3. OutdatedUnread' \subseteq OutdatedUnread
    BY <1>2, <1>5, <2>2 DEF OutdatedUnread, Unread, Outdated
  <2>4. OutdatedReads' \subseteq OutdatedReads
    BY <2>2 DEF OutdatedReads, Unread, Outdated
  <2>5. Cardinality(events') < Cardinality(events)
    BY <1>1, WorkIsFinite, PartIsLess
  <2>6. /\ Cardinality(OutdatedEvents') <= Cardinality(OutdatedEvents)
        /\ Cardinality(OutdatedUnread') <= Cardinality(OutdatedUnread)
        /\ Cardinality(OutdatedReads') <= Cardinality(OutdatedReads)
    BY <2>1, <2>3, <2>4, WorkIsFinite, PartIsLess
  <2>7. Work'[7] < Work[7]
    BY <2>5 DEF Work
  <2>8. \A j \in 1 .. 6 : Work'[j] = Work[j] \/ Work'[j] <= Work[j]
    <3>1. Work'[1] = Work[1] /\ Work'[5] = Work[5] /\ Work'[6] = Work[6]
      BY <1>2, <1>3 DEF Work
    <3>2. Work'[2] <= Work[2] /\ Work'[3] <= Work[3] /\ Work'[4] <= Work[4]
      BY <2>6 DEF Work
    <3>3. QED
      BY <3>1, <3>2
  <2>9. QED
    BY <2>7, <2>8, WorkDescends
<1>6. QED
  BY <1>4, <1>5

\* An editor follows the disk: what it makes the bridge load is not saved.
LEMMA ModelDescends ==
  ASSUME TypeOK, TypeOK', NEW f \in Files, ModelReloads(f)
  PROVE  Descends(Work', Work)
<1>1. UNCHANGED <<disk, writes, events, loader, reads, dirty>>
  BY DEF ModelReloads, diskVars
<1>2. saveTimer' = saveTimer
  BY DEF ModelReloads, ContentChanged, bridgeVars, Bridge!Reload, Bridge!LoadFromText, TypeOK, BridgeTypes
<1>3. Following' = Following \ {f} /\ f \in Following
  BY <1>1 DEF ModelReloads, Following, TypeOK, EditorTypes
<1>4. Cardinality(Following') < Cardinality(Following)
  BY <1>3, WorkIsFinite, PartIsLess
<1>5. UNCHANGED <<LoaderWork, OutdatedEvents, OutdatedUnread, OutdatedReads, Queued, Unread>>
  BY <1>1 DEF LoaderWork, OutdatedEvents, OutdatedUnread, OutdatedReads, Queued, Unread, Outdated
<1>6. Work'[10] < Work[10]
  BY <1>4 DEF Work
<1>7. \A j \in 1 .. 9 : Work'[j] = Work[j]
  BY <1>1, <1>2, <1>5 DEF Work
<1>8. QED
  BY <1>6, <1>7, WorkDescends

\* A file is read.
LEMMA ReadFileDescends ==
  ASSUME TypeOK, TypeOK', NEW i \in DOMAIN reads, ReadFile(i)
  PROVE  Descends(Work', Work)
<1> DEFINE f == reads[i].file
<1>1. UNCHANGED <<disk, writes, events, loader, saveTimer>>
  BY DEF ReadFile, diskVars, bridgeVars
<1>2. reads \in Seq(Reads) /\ reads[i].text = NoText /\ f \in Files /\ disk[f] \in Texts
  BY WorkIsFinite, ReadOfFile DEF ReadFile, TypeOK, DiskTypes
<1>3. /\ DOMAIN reads' = DOMAIN reads
      /\ reads'[i].file = f /\ reads'[i].text = disk[f] /\ disk[f] # NoText
      /\ \A j \in DOMAIN reads \ {i} : reads'[j] = reads[j]
  <2>1. reads' = [reads EXCEPT ![i].text = disk[f]]
    BY DEF ReadFile
  <2> HIDE DEF f
  <2>2. QED
    BY <1>2, <2>1, ReadFilled, AbsenceAssumption DEF f
<1>4. UNCHANGED <<LoaderWork, OutdatedEvents, Queued>>
  BY <1>1 DEF LoaderWork, OutdatedEvents, Queued, Outdated
<1>5. Unread' = Unread \ {i} /\ i \in Unread
  BY <1>2, <1>3 DEF Unread
<1>6. OutdatedUnread' = OutdatedUnread \ {i}
  BY <1>1, <1>3, <1>5 DEF OutdatedUnread, Unread, Outdated
<1>7. CASE Outdated(disk[f])
  <2>1. i \in OutdatedUnread
    BY <1>5, <1>7 DEF OutdatedUnread
  <2>2. Cardinality(OutdatedUnread') < Cardinality(OutdatedUnread)
    BY <1>6, <2>1, WorkIsFinite, PartIsLess
  <2>3. Work'[3] < Work[3]
    BY <2>2 DEF Work
  <2>4. \A j \in 1 .. 2 : Work'[j] = Work[j]
    BY <1>4 DEF Work
  <2>5. QED
    BY <2>3, <2>4, WorkDescends
<1>8. CASE ~ Outdated(disk[f])
  <2>1. OutdatedReads' \subseteq OutdatedReads
    BY <1>3, <1>5, <1>8 DEF OutdatedReads, Unread, Outdated
  <2>2. /\ Cardinality(OutdatedUnread') <= Cardinality(OutdatedUnread)
        /\ Cardinality(OutdatedReads') <= Cardinality(OutdatedReads)
        /\ Cardinality(Unread') < Cardinality(Unread)
    BY <1>5, <1>6, <2>1, WorkIsFinite, PartIsLess
  <2>3. Work'[8] < Work[8]
    BY <2>2 DEF Work
  <2>4. \A j \in 1 .. 7 : Work'[j] = Work[j] \/ Work'[j] <= Work[j]
    <3>1. /\ Work'[1] = Work[1] /\ Work'[2] = Work[2] /\ Work'[5] = Work[5]
          /\ Work'[6] = Work[6] /\ Work'[7] = Work[7]
      BY <1>1, <1>4 DEF Work
    <3>2. Work'[3] <= Work[3] /\ Work'[4] <= Work[4]
      BY <2>2 DEF Work
    <3>3. QED
      BY <3>1, <3>2
  <2>5. QED
    BY <2>3, <2>4, WorkDescends
<1>9. QED
  BY <1>7, <1>8

\* What was read is loaded: it asks for a save only if migration changes it.
LEMMA ReadDoneDescends ==
  ASSUME TypeOK, TypeOK', NEW i \in DOMAIN reads, ReadDone(i)
  PROVE  Descends(Work', Work)
<1> DEFINE t == reads[i].text
           n == Len(reads)
           was(j) == IF j < i THEN j ELSE j + 1
<1>1. UNCHANGED <<disk, writes, events, loader>>
  BY DEF ReadDone, diskVars
<1>2. reads \in Seq(Reads) /\ n \in Nat /\ DOMAIN reads = 1 .. n /\ t # NoText
  BY WorkIsFinite DEF ReadDone
<1>3. /\ Len(reads') = n - 1 /\ DOMAIN reads' = 1 .. n - 1
      /\ \A j \in 1 .. n - 1 : was(j) \in 1 .. n \ {i} /\ reads'[j] = reads[was(j)]
  <2>1. reads' = RemoveAt(reads, i)
    BY DEF ReadDone
  <2>2. reads' \in Seq(Reads) /\ Len(reads') = n - 1
    BY <1>2, <2>1, ReadsLeft
  <2>3. \A j \in 1 .. n - 1 : reads'[j] = IF j < i THEN reads[j] ELSE reads[j + 1]
    BY <1>2, <2>1, ReadsLeft
  <2>4. \A j \in 1 .. n - 1 : was(j) \in 1 .. n \ {i}
    BY <1>2
  <2>5. \A j \in 1 .. n - 1 : reads'[j] = reads[was(j)]
    BY <2>3
  <2>6. QED
    BY <2>2, <2>4, <2>5
<1>4. UNCHANGED <<LoaderWork, OutdatedEvents, Queued>>
  BY <1>1 DEF LoaderWork, OutdatedEvents, Queued, Outdated
<1>5. /\ \A j \in Unread' : was(j) \in Unread
      /\ \A j \in OutdatedUnread' : was(j) \in OutdatedUnread
      /\ \A j \in OutdatedReads' : was(j) \in OutdatedReads
      /\ Unread' \subseteq 1 .. n - 1
      /\ OutdatedUnread' \subseteq 1 .. n - 1 /\ OutdatedReads' \subseteq 1 .. n - 1
      /\ Unread \subseteq 1 .. n /\ OutdatedUnread \subseteq 1 .. n /\ OutdatedReads \subseteq 1 .. n
  <2> HIDE DEF was, n
  <2>1. QED
    BY <1>1, <1>2, <1>3 DEF Unread, OutdatedUnread, OutdatedReads, Outdated
<1>6. /\ Cardinality(Unread') <= Cardinality(Unread)
      /\ Cardinality(OutdatedUnread') <= Cardinality(OutdatedUnread)
      /\ Cardinality(OutdatedReads') <= Cardinality(OutdatedReads)
      /\ i \in OutdatedReads => Cardinality(OutdatedReads') < Cardinality(OutdatedReads)
  BY <1>2, <1>5, PositionsLeft
<1>7. CASE Outdated(t)
  <2>1. i \in OutdatedReads
    BY <1>2, <1>7 DEF OutdatedReads, Unread
  <2>2. Work'[4] < Work[4]
    BY <1>6, <2>1 DEF Work
  <2>3. \A j \in 1 .. 3 : Work'[j] = Work[j] \/ Work'[j] <= Work[j]
    <3>1. Work'[1] = Work[1] /\ Work'[2] = Work[2]
      BY <1>4 DEF Work
    <3>2. Work'[3] <= Work[3]
      BY <1>6 DEF Work
    <3>3. QED
      BY <3>1, <3>2
  <2>4. QED
    BY <2>2, <2>3, WorkDescends
<1>8. CASE ~ Outdated(t)
  <2>1. saveTimer' = saveTimer
    BY <1>8 DEF ReadDone, Bridge!Reload, Bridge!LoadFromText, Outdated, TypeOK, BridgeTypes
  <2>2. Work'[9] < Work[9]
    BY <1>2, <1>3 DEF Work
  <2>3. \A j \in 1 .. 8 : Work'[j] = Work[j] \/ Work'[j] <= Work[j]
    <3>1. /\ Work'[1] = Work[1] /\ Work'[2] = Work[2] /\ Work'[5] = Work[5]
          /\ Work'[6] = Work[6] /\ Work'[7] = Work[7]
      BY <1>1, <1>4, <2>1 DEF Work
    <3>2. Work'[3] <= Work[3] /\ Work'[4] <= Work[4] /\ Work'[8] <= Work[8]
      BY <1>6 DEF Work
    <3>3. QED
      BY <3>1, <3>2
  <2>4. QED
    BY <2>2, <2>3, WorkDescends
<1>9. QED
  BY <1>7, <1>8

\* The loader has one attempt less, or is nearer to the end of this one.
LEMMA LoaderDescends ==
  ASSUME TypeOK, TypeOK', LoaderLooks \/ LoaderReads \/ LoaderLoads
  PROVE  Descends(Work', Work)
<1>1. loader.left \in Nat
  BY AttemptsAssumption DEF TypeOK, LoaderTypes
<1>2. ASSUME LoaderEnds
      PROVE  LoaderWork' = 0
  BY <1>2 DEF LoaderEnds, LoaderWork
<1>3. LoaderWork' < LoaderWork
  <2>1. CASE LoaderLooks
    <3>1. LoaderWork = 3 * loader.left /\ loader.left > 0
      BY <1>1, <2>1 DEF LoaderLooks, LoaderWork
    <3>2. ASSUME NEW f \in Files,
                 loader' = [pc |-> "reading", file |-> f, text |-> NoText, left |-> loader.left - 1]
          PROVE  LoaderWork' = 3 * (loader.left - 1) + 2
      BY <3>2 DEF LoaderWork
    <3>3. ASSUME loader' = [loader EXCEPT !.left = @ - 1]
          PROVE  LoaderWork' = 3 * (loader.left - 1)
      BY <1>1, <2>1, <3>3 DEF LoaderLooks, LoaderWork, TypeOK, LoaderTypes
    <3>4. QED
      BY <1>1, <1>2, <2>1, <3>1, <3>2, <3>3 DEF LoaderLooks
  <2>2. CASE LoaderReads
    <3>1. LoaderWork = 3 * loader.left + 2
      BY <2>2 DEF LoaderReads, LoaderWork
    <3>2. LoaderWork' = 3 * loader.left + 1
      BY <2>2 DEF LoaderReads, LoaderWork, TypeOK, LoaderTypes
    <3>3. QED
      BY <1>1, <3>1, <3>2
  <2>3. CASE LoaderLoads
    <3>1. LoaderWork = 3 * loader.left + 1
      BY <2>3 DEF LoaderLoads, LoaderWork
    <3>2. ASSUME loader' = [loader EXCEPT !.pc = "waiting", !.file = NoFile, !.text = NoText]
          PROVE  LoaderWork' = 3 * loader.left
      BY <1>1, <3>2 DEF LoaderWork, TypeOK, LoaderTypes
    <3>3. QED
      BY <1>1, <1>2, <2>3, <3>1, <3>2 DEF LoaderLoads
  <2>4. QED
    BY <2>1, <2>2, <2>3
<1>4. Work'[1] < Work[1]
  BY <1>3 DEF Work
<1>5. QED
  BY <1>4, WorkDescends

\* Whatever the system does next, there is less work left after it, for any
\* number of files, saves, events and reads: it comes to an end.
THEOREM WorkAlwaysRunsOut == Spec => WorkRunsOut
<1>1. Init => UpToDate
  <2>1. SUFFICES ASSUME Init PROVE UpToDate
    OBVIOUS
  <2>2. text = NoText /\ \A f \in Files : writes[f] = <<>>
    BY <2>1 DEF Init, Bridge!Init
  <2>3. QED
    BY <2>2 DEF UpToDate, TextUpToDate, QueuesUpToDate
<1>2. TypeOK /\ UpToDate /\ [Next]_vars => UpToDate'
  <2>1. ASSUME UpToDate, UNCHANGED vars
        PROVE  UpToDate'
    BY <2>1 DEF vars, bridgeVars, diskVars, UpToDate, TextUpToDate, QueuesUpToDate, Outdated
  <2>2. QED
    BY <2>1, TextKeptUpToDate, QueuesKeptUpToDate DEF UpToDate
<1>3. TypeOK /\ TypeOK' /\ UpToDate /\ [Next]_vars => [System => Descends(Work', Work)]_vars
  <2>1. SUFFICES ASSUME TypeOK, TypeOK', UpToDate, System
                 PROVE  Descends(Work', Work)
    OBVIOUS
  <2>2. QED
    BY <2>1, SaveDescends, WindowDescends, WriteDescends, EventDescends, ModelDescends, ReadFileDescends,
       ReadDoneDescends, LoaderDescends DEF System
<1>4. QED
  BY <1>1, <1>2, <1>3, TypeCorrect, PTL DEF Spec, WorkRunsOut
=============================================================================
