--------------------------- MODULE Descent_proofs ---------------------------
(***************************************************************************)
(* A descent of tuples of numbers comes to an end, and how to see that     *)
(* a tuple descends whose numbers count the elements of sets.              *)
(***************************************************************************)
EXTENDS Descent, FiniteSetTheorems, WellFoundedInduction, TLAPS

NatLess == {p \in Nat \X Nat : p[1] < p[2]}

\* The numbers have no endless descent.
LEMMA NatLessWellFounded == IsWellFoundedOn(NatLess, Nat)
BY NatLessThanWellFounded DEF OpToRel, NatLess

\* n descends from m if it is less in one place and not more in those before.
LEMMA LessSomewhere ==
  ASSUME NEW N \in Nat, NEW n \in [1 .. N -> Nat], NEW m \in [1 .. N -> Nat], NEW k \in 1 .. N,
         n[k] < m[k], \A j \in 1 .. k - 1 : n[j] <= m[j]
  PROVE  Descends(n, m)
<1> DEFINE D == {i \in 1 .. k : n[i] < m[i]}
<1>1. D \subseteq Nat /\ D # {}
  <2>1. k \in D
    OBVIOUS
  <2>2. D \subseteq 1 .. k /\ 1 .. k \subseteq Nat
    OBVIOUS
  <2> HIDE DEF D
  <2>3. QED
    BY <2>1, <2>2
<1>2. PICK i \in D : \A j \in D : <<j, i>> \notin NatLess
  <2> HIDE DEF D
  <2>1. QED
    BY <1>1, NatLessWellFounded, WFMin
<1>3. \A j \in D : ~ (j < i)
  BY <1>1, <1>2 DEF NatLess
<1>4. i \in 1 .. k /\ n[i] < m[i]
  OBVIOUS
<1>5. ASSUME NEW j \in 1 .. i - 1
      PROVE  n[j] = m[j]
  <2>1. j \in 1 .. k - 1 /\ j \in 1 .. N
    BY <1>4
  <2>2. n[j] <= m[j] /\ ~ (n[j] < m[j])
    BY <1>3, <2>1
  <2>3. QED
    BY <2>1, <2>2
<1>6. QED
  BY <1>4, <1>5 DEF Descends

\* There is no endless descent.
THEOREM DescentEnds ==
  ASSUME NEW N \in Nat
  PROVE  ~ \E f \in [Nat -> [1 .. N -> Nat]] : \A n \in Nat : Descends(f[n + 1], f[n])
<1> DEFINE lex == LexProductOrdering(NatLess, Nat, N)
<1>1. ASSUME NEW n \in [1 .. N -> Nat], NEW m \in [1 .. N -> Nat], Descends(n, m)
      PROVE  <<n, m>> \in lex
  <2>1. PICK i \in 1 .. N : n[i] < m[i] /\ \A j \in 1 .. i - 1 : n[j] = m[j]
    BY <1>1 DEF Descends
  <2>2. <<n[i], m[i]>> \in NatLess
    BY <2>1 DEF NatLess
  <2>3. QED
    BY <2>1, <2>2 DEF LexProductOrdering
<1>2. IsWellFoundedOn(lex, [1 .. N -> Nat])
  BY NatLessWellFounded, WFLexProductOrdering
<1>3. QED
  <2> HIDE DEF lex
  <2>1. SUFFICES ASSUME NEW f \in [Nat -> [1 .. N -> Nat]], \A n \in Nat : Descends(f[n + 1], f[n])
                 PROVE  FALSE
    OBVIOUS
  <2>2. \A n \in Nat : <<f[n + 1], f[n]>> \in lex
    <3>1. SUFFICES ASSUME NEW n \in Nat PROVE <<f[n + 1], f[n]>> \in lex
      OBVIOUS
    <3>2. f[n + 1] \in [1 .. N -> Nat] /\ f[n] \in [1 .. N -> Nat]
      OBVIOUS
    <3>3. QED
      BY <1>1, <2>1, <3>2
  <2>3. QED
    BY <1>2, <2>2 DEF IsWellFoundedOn

\* A part has no more elements than the whole, and fewer without one of them.
LEMMA PartIsLess ==
  ASSUME NEW S, IsFiniteSet(S), NEW T, T \subseteq S
  PROVE  /\ Cardinality(T) \in Nat /\ Cardinality(S) \in Nat /\ Cardinality(T) <= Cardinality(S)
         /\ T # S => Cardinality(T) < Cardinality(S)
BY FS_Subset, FS_CardinalityType

\* A finite family of finite sets is finite.
LEMMA FamilyIsFinite ==
  ASSUME NEW I, IsFiniteSet(I), NEW f, \A i \in I : IsFiniteSet(f[i]),
         NEW F, F = UNION {{i} \X f[i] : i \in I}
  PROVE  IsFiniteSet(F)
<1> DEFINE part == [i \in I |-> {i} \X f[i]]
           parts == {part[i] : i \in I}
<1>1. part \in Surjection(I, parts)
  BY DEF Surjection
<1>2. \A p \in parts : IsFiniteSet(p)
  <2>1. \A i \in I : IsFiniteSet({i} \X f[i])
    BY FS_Singleton, FS_Product
  <2>2. QED
    BY <2>1
<1>3. F = UNION parts
  OBVIOUS
<1> HIDE DEF part, parts
<1>4. IsFiniteSet(parts)
  BY <1>1, FS_Surjection
<1>5. QED
  BY <1>2, <1>3, <1>4, FS_UNION

\* Positions after one was taken out come from as many before, without it.
LEMMA PositionsLeft ==
  ASSUME NEW n \in Nat, NEW i \in 1 .. n, NEW Q, Q \subseteq 1 .. n, NEW P, P \subseteq 1 .. n - 1,
         \A j \in P : (IF j < i THEN j ELSE j + 1) \in Q
  PROVE  /\ Cardinality(P) <= Cardinality(Q)
         /\ i \in Q => Cardinality(P) < Cardinality(Q)
<1> DEFINE back == [j \in P |-> IF j < i THEN j ELSE j + 1]
<1>1. back \in Injection(P, Q \ {i})
  <2>1. back \in [P -> Q \ {i}]
    OBVIOUS
  <2>2. \A a, b \in P : back[a] = back[b] => a = b
    OBVIOUS
  <2>3. QED
    BY <2>1, <2>2 DEF Injection, IsInjective
<1>2. IsFiniteSet(Q) /\ IsFiniteSet(Q \ {i}) /\ IsFiniteSet(P)
  <2>1. IsFiniteSet(1 .. n) /\ P \subseteq 1 .. n
    BY FS_Interval
  <2>2. QED
    BY <2>1, FS_Subset
<1>3. Cardinality(P) <= Cardinality(Q \ {i})
  BY <1>1, <1>2, FS_Injection
<1>4. QED
  BY <1>2, <1>3, FS_RemoveElement, FS_CardinalityType
=============================================================================
