------------------------------ MODULE TextBridge ------------------------------
(***************************************************************************)
(* What the files and editors around the scene bridge see of it: the file  *)
(* it is pointed at, the text of its scene, and whether a save is due.     *)
(* SceneBridge implements it; SceneSync composes it with the text editors, *)
(* the disk and the file watcher.                                          *)
(***************************************************************************)

CONSTANTS Files, NoFile, Texts, NoText

VARIABLES uri, text, saveTimer

bridgeVars == <<uri, text, saveTimer>>

Init == uri = NoFile /\ text = NoText /\ saveTimer = FALSE

\* Faulty: content the bridge already has is loaded and saved again.
LoadFromTextAgain(t, migrated) ==
  /\ text' = IF t = NoText THEN text ELSE t
  /\ saveTimer' = (saveTimer \/ t # NoText)

\* t is the normalised content, NoText when it is refused.  Content the
\* bridge already has is skipped.  A migrated content is saved in its new form.
LoadFromText(t, migrated) ==
  \/ /\ t \in {NoText, text}
     /\ UNCHANGED <<text, saveTimer>>
  \/ /\ t \notin {NoText, text}
     /\ text' = t
     /\ saveTimer' = (saveTimer \/ migrated)

\* setUri comes before the load and stays if the load is refused.
Open(f, t, migrated) == uri' = f /\ LoadFromText(t, migrated)

Reload(t, migrated) == uri # NoFile /\ uri' = uri /\ LoadFromText(t, migrated)

\* An edit of the panels, an undo or a redo.
Edit(t) == text # NoText /\ text' = t /\ saveTimer' = TRUE /\ uri' = uri

SaveTimerFires == saveTimer /\ saveTimer' = FALSE /\ UNCHANGED <<uri, text>>

Next ==
  \/ \E t \in Texts \cup {NoText}, migrated \in BOOLEAN :
       (\E f \in Files : Open(f, t, migrated)) \/ Reload(t, migrated)
  \/ \E t \in Texts : Edit(t)
  \/ SaveTimerFires

Spec == Init /\ [][Next]_bridgeVars
=============================================================================
