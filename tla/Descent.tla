------------------------------- MODULE Descent -------------------------------
(***************************************************************************)
(* Work left to be done, as a tuple of numbers of which the first count    *)
(* most.  Steps that descend can only be taken finitely often in a row.    *)
(***************************************************************************)
EXTENDS Naturals, FiniteSets

\* n is less than m in the first number in which they differ.
Descends(n, m) == \E i \in DOMAIN m : n[i] < m[i] /\ \A j \in 1 .. i - 1 : n[j] = m[j]

Indicator(b) == IF b THEN 1 ELSE 0
=============================================================================
