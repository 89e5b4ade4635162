----------------------------- MODULE MCSceneSync -----------------------------
EXTENDS SceneSync

CONSTANTS main, other, MaxSteps, Kinds, OtherKinds

VARIABLE steps

mcvars == <<vars, steps>>

MCTexts == [home : {main}, kind : Kinds] \cup [home : {other}, kind : OtherKinds]
MCHome == [t \in MCTexts |-> t.home]
MCNormal == [t \in MCTexts |-> IF t.kind = "old" THEN [t EXCEPT !.kind = "ok"] ELSE t]
MCValid == {t \in MCTexts : t.kind # "broken"}
MCPopulated == {t \in MCValid : t.kind # "empty"}

MCInit == Init /\ disk[other].kind = "ok" /\ steps = 0

MCNext ==
  \/ steps < MaxSteps /\ (User \/ Outside) /\ steps' = steps + 1
  \/ System /\ UNCHANGED steps

MCSpec == MCInit /\ [][MCNext]_mcvars

MCFairSpec == MCSpec /\ WF_vars(System)
=============================================================================
