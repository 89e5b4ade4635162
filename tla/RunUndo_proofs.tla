---------------------------- MODULE RunUndo_proofs ----------------------------
(***************************************************************************)
(* The undo of an undisturbed run restores its files, for every set of     *)
(* files, contents and tool calls, and any number of runs, reads and cards.*)
(***************************************************************************)
EXTENDS RunUndo, SequenceTheorems, WellFoundedInduction, TLAPS

-----------------------------------------------------------------------------
(* Sequences *)

\* The front of a sequence and what is left of it.
LEMMA Taken ==
  ASSUME NEW S, NEW s \in Seq(S), s # <<>>
  PROVE  /\ Tail(s) \in Seq(S) /\ Head(s) \in S /\ Head(s) = s[1]
         /\ Len(s) \in Nat /\ 1 \in DOMAIN s /\ Len(Tail(s)) = Len(s) - 1
         /\ \A j \in DOMAIN Tail(s) : j + 1 \in DOMAIN s /\ Tail(s)[j] = s[j + 1]
OBVIOUS

\* A new element comes last.
LEMMA Added ==
  ASSUME NEW S, NEW s \in Seq(S), NEW x \in S
  PROVE  /\ Append(s, x) \in Seq(S) /\ Len(Append(s, x)) = Len(s) + 1
         /\ Len(s) + 1 \in DOMAIN Append(s, x) /\ Append(s, x)[Len(s) + 1] = x
         /\ \A j \in DOMAIN s : j \in DOMAIN Append(s, x) /\ Append(s, x)[j] = s[j]
         /\ \A j \in DOMAIN Append(s, x) : j = Len(s) + 1 \/ (j \in DOMAIN s /\ Append(s, x)[j] = s[j])
OBVIOUS

\* An element that is replaced.
LEMMA Replaced ==
  ASSUME NEW S, NEW s \in Seq(S), NEW i \in DOMAIN s, NEW x \in S
  PROVE  /\ [s EXCEPT ![i] = x] \in Seq(S)
         /\ DOMAIN [s EXCEPT ![i] = x] = DOMAIN s
         /\ Len([s EXCEPT ![i] = x]) = Len(s)
         /\ [s EXCEPT ![i] = x][i] = x
         /\ \A j \in DOMAIN s \ {i} : [s EXCEPT ![i] = x][j] = s[j]
<1>1. s \in [1 .. Len(s) -> S] /\ Len(s) \in Nat /\ i \in 1 .. Len(s)
  OBVIOUS
<1> DEFINE new == [s EXCEPT ![i] = x]
<1>2. new = [j \in 1 .. Len(s) |-> IF j = i THEN x ELSE s[j]]
  BY <1>1
<1> HIDE DEF new
<1>3. new \in [1 .. Len(s) -> S] /\ new[i] = x /\ \A j \in 1 .. Len(s) \ {i} : new[j] = s[j]
  BY <1>1, <1>2
<1>4. new \in Seq(S) /\ Len(new) = Len(s) /\ DOMAIN new = DOMAIN s
  BY <1>1, <1>3
<1>5. \A j \in DOMAIN s \ {i} : new[j] = s[j]
  BY <1>1, <1>3
<1>6. QED
  BY <1>3, <1>4, <1>5 DEF new

\* A function on the indices of a sequence is a sequence.
LEMMA Mapped ==
  ASSUME NEW S, NEW T, NEW s \in Seq(S), NEW t \in [DOMAIN s -> T]
  PROVE  t \in Seq(T) /\ Len(t) = Len(s) /\ DOMAIN t = DOMAIN s
<1>1. Len(s) \in Nat /\ DOMAIN s = 1 .. Len(s)
  OBVIOUS
<1>2. t \in [1 .. Len(s) -> T]
  BY <1>1
<1>3. t \in Seq(T)
  BY <1>1, <1>2
<1>4. Len(t) \in Nat /\ DOMAIN t = 1 .. Len(t)
  BY <1>3
<1>5. Len(t) = Len(s) /\ DOMAIN t = DOMAIN s
  BY <1>1, <1>2, <1>4
<1>6. QED
  BY <1>3, <1>5

\* The elements left when one is taken out.
LEMMA Removed ==
  ASSUME NEW S, NEW s \in Seq(S), NEW i \in DOMAIN s
  PROVE  /\ RemoveAt(s, i) \in Seq(S) /\ Len(RemoveAt(s, i)) = Len(s) - 1
         /\ \A j \in 1 .. Len(s) - 1 : RemoveAt(s, i)[j] = IF j < i THEN s[j] ELSE s[j + 1]
<1>1. Len(s) \in Nat /\ i \in 1 .. Len(s)
  OBVIOUS
<1> DEFINE front == SubSeq(s, 1, i - 1)
           rest  == SubSeq(s, i + 1, Len(s))
<1>2. front \in Seq(S) /\ rest \in Seq(S)
  BY <1>1
<1>3. Len(front) = i - 1 /\ \A j \in 1 .. i - 1 : front[j] = s[j]
  BY <1>1
<1>4. Len(rest) = Len(s) - i /\ \A j \in 1 .. Len(s) - i : rest[j] = s[j + i]
  BY <1>1
<1>5. RemoveAt(s, i) = front \o rest
  BY DEF RemoveAt
<1> HIDE DEF front, rest
<1>6. RemoveAt(s, i) \in Seq(S) /\ Len(RemoveAt(s, i)) = Len(s) - 1
  BY <1>1, <1>2, <1>3, <1>4, <1>5
<1>7. ASSUME NEW j \in 1 .. Len(s) - 1
      PROVE  RemoveAt(s, i)[j] = IF j < i THEN s[j] ELSE s[j + 1]
  <2>1. (front \o rest)[j] = IF j <= Len(front) THEN front[j] ELSE rest[j - Len(front)]
    BY <1>1, <1>2, <1>3, <1>4
  <2>2. CASE j < i
    BY <1>1, <1>3, <1>5, <2>1, <2>2
  <2>3. CASE ~ (j < i)
    <3>1. j - (i - 1) \in 1 .. Len(s) - i /\ j - (i - 1) + i = j + 1
      BY <1>1, <2>3
    <3>2. rest[j - (i - 1)] = s[j + 1]
      BY <1>4, <3>1
    <3>3. QED
      BY <1>1, <1>3, <1>5, <2>1, <2>3, <3>2
  <2>4. QED
    BY <2>2, <2>3
<1>8. QED
  BY <1>6, <1>7

\* Where the elements come from when one is taken out and perhaps goes on at
\* the end: from is one to one, and meets the taken one only there.
GoesOn(s, i, e, new, from) ==
  /\ from \in [DOMAIN new -> DOMAIN s]
  /\ \A j, k \in DOMAIN new : from[j] = from[k] => j = k
  /\ \A j \in DOMAIN new : from[j] # i => new[j] = s[from[j]]
  /\ \A j \in DOMAIN new : from[j] = i => e # <<>> /\ new[j] = e[1]
  /\ \A k \in DOMAIN s \ {i} : \E j \in DOMAIN new : from[j] = k
  /\ e # <<>> => \E j \in DOMAIN new : from[j] = i

\* The empty sequence, or one element.
AtMostOne(e, S) == e = <<>> \/ \E x \in S : e = <<x>>

\* At most one element is a short sequence.
LEMMA FewIsSeq ==
  ASSUME NEW S, NEW e, AtMostOne(e, S)
  PROVE  e \in Seq(S) /\ (Len(e) = 0 \/ Len(e) = 1) /\ (e # <<>> <=> Len(e) = 1)
<1>1. ASSUME NEW x \in S, e = <<x>>
      PROVE  e \in Seq(S) /\ Len(e) = 1 /\ e # <<>>
  BY <1>1
<1>2. CASE e = <<>>
  <2>1. Len(<<>>) = 0 /\ <<>> \in Seq(S)
    OBVIOUS
  <2>2. QED
    BY <1>2, <2>1
<1>3. QED
  BY <1>1, <1>2 DEF AtMostOne

\* Taking an element out and adding at most one goes on with the others.
LEMMA TakenGoesOn ==
  ASSUME NEW S, NEW s \in Seq(S), NEW i \in DOMAIN s, NEW e, AtMostOne(e, S)
  PROVE  /\ RemoveAt(s, i) \o e \in Seq(S)
         /\ \E from : GoesOn(s, i, e, RemoveAt(s, i) \o e, from)
<1> DEFINE left == RemoveAt(s, i)
           new  == left \o e
<1>1. /\ left \in Seq(S) /\ Len(left) = Len(s) - 1
      /\ \A j \in 1 .. Len(s) - 1 : left[j] = IF j < i THEN s[j] ELSE s[j + 1]
  BY Removed
<1> HIDE DEF left
<1>2. Len(s) \in Nat /\ DOMAIN s = 1 .. Len(s) /\ i \in Nat /\ 1 <= i /\ i <= Len(s)
  OBVIOUS
<1>20. e \in Seq(S) /\ (Len(e) = 0 \/ Len(e) = 1)
  BY FewIsSeq
<1>21. e # <<>> <=> Len(e) = 1
  BY FewIsSeq
<1>3. /\ new \in Seq(S) /\ Len(new) = Len(s) - 1 + Len(e)
      /\ \A j \in 1 .. Len(s) - 1 + Len(e) : new[j] = IF j <= Len(s) - 1 THEN left[j] ELSE e[j - (Len(s) - 1)]
  <2>1. /\ new \in Seq(S) /\ Len(new) = Len(left) + Len(e)
        /\ \A j \in 1 .. Len(left) + Len(e) : new[j] = IF j <= Len(left) THEN left[j] ELSE e[j - Len(left)]
    BY <1>1, <1>20, ConcatProperties, Zenon
  <2> HIDE DEF new
  <2>2. QED
    BY <1>1, <1>2, <1>20, <2>1
<1> HIDE DEF new
<1>4. DOMAIN new = 1 .. Len(s) - 1 + Len(e)
  <2>1. Len(new) \in Nat /\ DOMAIN new = 1 .. Len(new)
    BY <1>3
  <2>2. QED
    BY <1>3, <2>1
<1>22. DOMAIN new = (IF e = <<>> THEN 1 .. Len(s) - 1 ELSE 1 .. Len(s))
  <2>1. CASE Len(e) = 0
    <3>1. Len(s) - 1 + Len(e) = Len(s) - 1
      BY <1>2, <2>1
    <3>2. QED
      BY <1>4, <1>21, <2>1, <3>1
  <2>2. CASE Len(e) = 1
    <3>1. Len(s) - 1 + Len(e) = Len(s)
      BY <1>2, <2>2
    <3>2. QED
      BY <1>4, <1>21, <2>2, <3>1
  <2>3. QED
    BY <1>20, <2>1, <2>2
<1> DEFINE from == [j \in DOMAIN new |-> IF j = Len(s) THEN i ELSE IF j < i THEN j ELSE j + 1]
<1>5. from \in [DOMAIN new -> DOMAIN s]
  BY <1>2, <1>22, <1>20
<1>6. \A j, k \in DOMAIN new : from[j] = from[k] => j = k
  BY <1>2, <1>22, <1>20
<1>7. ASSUME NEW j \in DOMAIN new, from[j] # i
      PROVE  new[j] = s[from[j]]
  <2>1. j \in 1 .. Len(s) - 1
    BY <1>2, <1>22, <1>20, <1>7
  <2>2. new[j] = left[j]
    BY <1>2, <1>3, <1>20, <2>1
  <2>3. QED
    BY <1>1, <1>2, <2>1, <2>2
<1>8. ASSUME NEW j \in DOMAIN new, from[j] = i
      PROVE  e # <<>> /\ new[j] = e[1]
  <2>1. j = Len(s) /\ Len(e) = 1
    BY <1>2, <1>22, <1>20, <1>8
  <2>2. new[j] = e[j - (Len(s) - 1)] /\ j - (Len(s) - 1) = 1
    BY <1>2, <1>3, <1>20, <2>1
  <2>3. QED
    BY <1>21, <2>1, <2>2
<1>9. ASSUME NEW k \in DOMAIN s \ {i}
      PROVE  \E j \in DOMAIN new : from[j] = k
  <2>1. CASE k < i
    <3>1. k \in DOMAIN new /\ from[k] = k
      BY <1>2, <1>22, <1>20, <2>1
    <3>2. QED
      BY <3>1
  <2>2. CASE ~ (k < i)
    <3>1. k - 1 \in DOMAIN new /\ from[k - 1] = k
      BY <1>2, <1>22, <1>20, <2>2
    <3>2. QED
      BY <3>1
  <2>3. QED
    BY <2>1, <2>2
<1>10. ASSUME e # <<>>
       PROVE  \E j \in DOMAIN new : from[j] = i
  <2>1. DOMAIN new = 1 .. Len(s)
    BY <1>22, <1>10
  <2>2. Len(s) \in DOMAIN new /\ from[Len(s)] = i
    BY <1>2, <2>1
  <2>3. QED
    BY <2>2
<1> HIDE DEF from
<1>11. GoesOn(s, i, e, new, from)
  BY <1>5, <1>6, <1>7, <1>8, <1>9, <1>10 DEF GoesOn
<1>12. QED
  BY <1>3, <1>11 DEF new, left

-----------------------------------------------------------------------------
(* Captures *)

\* Known finds the first path whose old content is not known.
LEMMA KnownFacts ==
  ASSUME NEW left \in Seq(Paths), NEW s
  PROVE  /\ Known(left, s) \in Nat /\ Known(left, s) <= Len(left)
         /\ \A i \in 1 .. Known(left, s) : left[i] \in DOMAIN s
         /\ Known(left, s) < Len(left) => left[Known(left, s) + 1] \notin DOMAIN s
<1> DEFINE T == {n \in Nat : n <= Len(left) /\ (n < Len(left) => left[n + 1] \notin DOMAIN s)}
<1>1. Len(left) \in Nat
  OBVIOUS
<1>2. Len(left) \in T
  BY <1>1
<1>3. PICK x \in T : \A y \in T : ~ (<<y, x>> \in OpToRel(<, Nat))
  <2>1. IsWellFoundedOn(OpToRel(<, Nat), Nat)
    BY NatLessThanWellFounded
  <2>2. T \subseteq Nat /\ T # {}
    BY <1>2
  <2> HIDE DEF T
  <2>3. QED
    BY <2>1, <2>2, WFMin, Zenon
<1>4. x \in 0 .. Len(left) /\ (x < Len(left) => left[x + 1] \notin DOMAIN s)
  BY <1>1
<1>5. ASSUME NEW i \in 1 .. x
      PROVE  left[i] \in DOMAIN s
  <2>1. i - 1 \in Nat /\ x \in Nat /\ i - 1 < x /\ i - 1 <= Len(left) /\ (i - 1) + 1 = i
    BY <1>1, <1>4
  <2>2. <<i - 1, x>> \in OpToRel(<, Nat)
    BY <2>1 DEF OpToRel
  <2>3. i - 1 \notin T
    BY <1>3, <2>2
  <2>4. QED
    BY <2>1, <2>3
<1> DEFINE First(n) == /\ \A i \in 1 .. n : left[i] \in DOMAIN s
                       /\ n < Len(left) => left[n + 1] \notin DOMAIN s
<1>6. First(x)
  BY <1>4, <1>5
<1>7. Known(left, s) = CHOOSE n \in 0 .. Len(left) : First(n)
  BY DEF Known
<1> HIDE DEF First
<1>8. Known(left, s) \in 0 .. Len(left) /\ First(Known(left, s))
  BY <1>4, <1>6, <1>7
<1>9. Known(left, s) \in Nat /\ Known(left, s) <= Len(left)
  BY <1>1, <1>8
<1>10. QED
  BY <1>8, <1>9 DEF First

\* The end of a sequence.
LEMMA Rest ==
  ASSUME NEW S, NEW s \in Seq(S), NEW n \in Nat, n < Len(s)
  PROVE  /\ SubSeq(s, n + 1, Len(s)) \in Seq(S) \ {<<>>}
         /\ Head(SubSeq(s, n + 1, Len(s))) = s[n + 1]
         /\ ToSet(SubSeq(s, n + 1, Len(s))) \subseteq ToSet(s)
<1> DEFINE rest == SubSeq(s, n + 1, Len(s))
<1>1. Len(s) \in Nat /\ DOMAIN s = 1 .. Len(s)
  OBVIOUS
<1>2. \A i \in (n + 1) .. Len(s) : s[i] \in S
  BY <1>1
<1>3. rest \in Seq(S)
  BY <1>1
<1>4. Len(rest) = Len(s) - n /\ \A i \in 1 .. Len(s) - n : rest[i] = s[n + i]
  <2>1. n + 1 \in Int /\ Len(s) \in Int /\ n + 1 <= Len(s)
    BY <1>1
  <2>2. /\ Len(rest) = IF n + 1 <= Len(s) THEN Len(s) - (n + 1) + 1 ELSE 0
        /\ \A i \in 1 .. Len(s) - (n + 1) + 1 : rest[i] = s[n + 1 + i - 1]
    BY <1>2, <2>1, SubSeqProperties
  <2> HIDE DEF rest
  <2>3. Len(s) - (n + 1) + 1 = Len(s) - n /\ \A i \in 1 .. Len(s) - n : n + 1 + i - 1 = n + i
    BY <1>1
  <2>4. QED
    BY <2>1, <2>2, <2>3
<1> HIDE DEF rest
<1>5. Len(rest) > 0 /\ DOMAIN rest = 1 .. Len(rest)
  BY <1>1, <1>3, <1>4
<1>6. rest # <<>>
  BY <1>3, <1>5
<1>7. Head(rest) = rest[1] /\ rest[1] = s[n + 1]
  BY <1>1, <1>3, <1>4, <1>6
<1>8. \A i \in DOMAIN rest : n + i \in DOMAIN s /\ rest[i] = s[n + i]
  BY <1>1, <1>4, <1>5
<1>9. ToSet(rest) \subseteq ToSet(s)
  BY <1>8 DEF ToSet
<1>10. QED
  BY <1>3, <1>6, <1>7, <1>9 DEF rest

\* A capture goes on with the first path that is not known, and has touched
\* it and those before it.
LEMMA CaptureFromFacts ==
  ASSUME NEW left \in Seq(Paths), NEW s
  PROVE  /\ AtMostOne(CaptureFrom(left, s), Captures)
         /\ Reached(left, s) \subseteq Paths
         /\ CaptureFrom(left, s) = <<>> => Reached(left, s) \subseteq DOMAIN s
         /\ CaptureFrom(left, s) # <<>> =>
              LET c == CaptureFrom(left, s)[1] IN
              /\ c \in Captures /\ c.text = Unread
              /\ Head(c.left) \notin DOMAIN s
              /\ ToSet(c.left) \subseteq ToSet(left)
              /\ Head(c.left) \in Reached(left, s)
              /\ Reached(left, s) \subseteq DOMAIN s \cup {Head(c.left)}
<1> DEFINE k == Known(left, s)
<1>1. Len(left) \in Nat /\ DOMAIN left = 1 .. Len(left) /\ \A i \in DOMAIN left : left[i] \in Paths
  OBVIOUS
<1>2. /\ k \in Nat /\ k <= Len(left)
      /\ \A i \in 1 .. k : left[i] \in DOMAIN s
      /\ k < Len(left) => left[k + 1] \notin DOMAIN s
  BY KnownFacts
<1>3. Reached(left, s) = {left[i] : i \in {j \in DOMAIN left : j <= k + 1}}
  BY DEF Reached
<1>4. Reached(left, s) \subseteq Paths
  BY <1>1, <1>3
<1>5. CaptureFrom(left, s) =
        IF k = Len(left) THEN <<>>
        ELSE <<[left |-> SubSeq(left, k + 1, Len(left)), text |-> Unread]>>
  BY DEF CaptureFrom
<1> HIDE DEF k
<1>6. CASE k = Len(left)
  <2>1. CaptureFrom(left, s) = <<>>
    BY <1>5, <1>6
  <2>2. Reached(left, s) \subseteq DOMAIN s
    BY <1>1, <1>2, <1>3, <1>6
  <2>3. QED
    BY <1>4, <2>1, <2>2 DEF AtMostOne
<1>7. CASE k # Len(left)
  <2> DEFINE c == [left |-> SubSeq(left, k + 1, Len(left)), text |-> Unread]
  <2>1. k \in Nat /\ k < Len(left)
    <3>1. k \in Nat /\ k <= Len(left)
      BY <1>2
    <3>2. Len(left) \in Nat
      BY <1>1
    <3>3. QED
      BY <1>7, <3>1, <3>2
  <2>2. /\ SubSeq(left, k + 1, Len(left)) \in Seq(Paths) \ {<<>>}
        /\ Head(SubSeq(left, k + 1, Len(left))) = left[k + 1]
        /\ ToSet(SubSeq(left, k + 1, Len(left))) \subseteq ToSet(left)
    BY <2>1, Rest
  <2>3. c \in Captures /\ c.text = Unread
    BY <2>2 DEF Captures
  <2>4. Head(c.left) = left[k + 1] /\ ToSet(c.left) \subseteq ToSet(left)
    BY <2>2
  <2>5. CaptureFrom(left, s) = <<c>>
    BY <1>5, <1>7
  <2> HIDE DEF c
  <2>6. CaptureFrom(left, s) # <<>> /\ CaptureFrom(left, s)[1] = c
    BY <2>5
  <2>7. left[k + 1] \notin DOMAIN s /\ left[k + 1] \in Reached(left, s)
    BY <1>1, <1>2, <1>3, <2>1
  <2>8. Reached(left, s) \subseteq DOMAIN s \cup {left[k + 1]}
    BY <1>1, <1>2, <1>3, <2>1
  <2>9. AtMostOne(CaptureFrom(left, s), Captures)
    BY <2>3, <2>5 DEF AtMostOne
  <2>10. QED
    BY <1>4, <2>3, <2>4, <2>6, <2>7, <2>8, <2>9
<1>8. QED
  BY <1>6, <1>7

-----------------------------------------------------------------------------
(* Runs *)

\* new tells of the same runs as runs does; some may be disturbed by now.
Keeps(new) ==
  /\ new \in Seq(Runs) /\ Len(new) = Len(runs) /\ DOMAIN new = DOMAIN runs
  /\ \A r \in DOMAIN runs :
       /\ new[r].base = runs[r].base /\ new[r].safe = runs[r].safe /\ new[r].done = runs[r].done
       /\ new[r].spoilt = "no" => runs[r].spoilt = "no"

\* What is known of a run.
LEMMA RunFacts ==
  ASSUME runs \in Seq(Runs), NEW r \in DOMAIN runs
  PROVE  /\ runs[r] \in Runs
         /\ runs[r].base \in Files /\ runs[r].safe \subseteq Paths /\ runs[r].done \in BOOLEAN
         /\ runs[r].spoilt \in Disturbances
         /\ r \in 1 .. Len(runs) /\ Len(runs) \in Nat
<1>1. runs[r] \in Runs /\ r \in 1 .. Len(runs) /\ Len(runs) \in Nat
  OBVIOUS
<1>2. QED
  BY <1>1 DEF Runs

\* Runs that nothing happens to.
LEMMA SameRuns ==
  ASSUME runs \in Seq(Runs)
  PROVE  Keeps(runs)
BY DEF Keeps

\* Disturbing runs.
LEMMA SpoilFacts ==
  ASSUME runs \in Seq(Runs), NEW R, NEW how \in Disturbances, how # "no"
  PROVE  /\ Keeps(Spoil(R, how))
         /\ \A r \in DOMAIN runs : Spoil(R, how)[r].spoilt = "no" => r \notin R
         /\ \A r \in DOMAIN runs \ R : Spoil(R, how)[r] = runs[r]
<1> DEFINE new == Spoil(R, how)
<1>1. new = [r \in DOMAIN runs |->
               IF r \in R /\ runs[r].spoilt = "no" THEN [runs[r] EXCEPT !.spoilt = how] ELSE runs[r]]
  BY DEF Spoil
<1> HIDE DEF new
<1>2. ASSUME NEW r \in DOMAIN runs
      PROVE  /\ new[r] \in Runs
             /\ new[r].base = runs[r].base /\ new[r].safe = runs[r].safe /\ new[r].done = runs[r].done
             /\ new[r].spoilt = "no" => runs[r].spoilt = "no" /\ r \notin R
             /\ r \notin R => new[r] = runs[r]
  <2>1. runs[r] \in Runs
    BY RunFacts
  <2>2. CASE r \in R /\ runs[r].spoilt = "no"
    <3>1. new[r] = [runs[r] EXCEPT !.spoilt = how]
      BY <1>1, <2>2
    <3>2. QED
      BY <2>1, <2>2, <3>1 DEF Runs
  <2>3. CASE ~ (r \in R /\ runs[r].spoilt = "no")
    <3>1. new[r] = runs[r]
      BY <1>1, <2>3
    <3>2. QED
      BY <2>1, <2>3, <3>1
  <2>4. QED
    BY <2>2, <2>3
<1>3. DOMAIN new = DOMAIN runs /\ new = [r \in DOMAIN runs |-> new[r]]
  BY <1>1
<1>4. new \in Seq(Runs) /\ Len(new) = Len(runs)
  <2>1. new \in [DOMAIN runs -> Runs]
    BY <1>2, <1>3
  <2>2. QED
    BY <2>1, Mapped
<1>5. Keeps(new)
  BY <1>2, <1>3, <1>4 DEF Keeps
<1>6. QED
  BY <1>2, <1>5 DEF new

-----------------------------------------------------------------------------
(* The types *)

\* Old contents are of paths.
LEMMA OldFacts ==
  ASSUME NEW s \in OldContents
  PROVE  DOMAIN s \subseteq Paths /\ \A p \in DOMAIN s : s[p] \in Contents \cup {Absent}
<1>1. PICK D \in SUBSET Paths : s \in [D -> Contents \cup {Absent}]
  BY DEF OldContents
<1>2. QED
  BY <1>1

\* None at all.
LEMMA NoContents ==
  <<>> \in OldContents /\ DOMAIN <<>> = {}
<1>1. <<>> \in [{} -> Contents \cup {Absent}] /\ DOMAIN <<>> = {}
  OBVIOUS
<1>2. {} \in SUBSET Paths
  OBVIOUS
<1>3. QED
  BY <1>1, <1>2 DEF OldContents

\* One more.
LEMMA OneMore ==
  ASSUME NEW s \in OldContents, NEW p \in Paths, NEW c \in Contents \cup {Absent}
  PROVE  LET t == [q \in DOMAIN s \cup {p} |-> IF q = p THEN c ELSE s[q]] IN
         /\ t \in OldContents
         /\ DOMAIN t = DOMAIN s \cup {p}
         /\ t[p] = c /\ \A q \in DOMAIN s \ {p} : t[q] = s[q]
<1>1. DOMAIN s \subseteq Paths /\ \A q \in DOMAIN s : s[q] \in Contents \cup {Absent}
  BY OldFacts
<1> DEFINE D == DOMAIN s \cup {p}
           t == [q \in D |-> IF q = p THEN c ELSE s[q]]
<1>2. D \in SUBSET Paths /\ t \in [D -> Contents \cup {Absent}]
  BY <1>1
<1>3. t \in OldContents
  BY <1>2 DEF OldContents
<1>4. QED
  BY <1>3

\* There are more runs, containers and events later on.
LEMMA MoreOf ==
  ASSUME NEW n \in Nat, NEW n2 \in Nat, n <= n2, NEW m \in Nat, NEW m2 \in Nat, m <= m2
  PROVE  /\ EventsOf(n) \subseteq EventsOf(n2)
         /\ SummariesOf(n) \subseteq SummariesOf(n2)
         /\ CardsOf(n, m) \subseteq CardsOf(n2, m2)
<1>1. 1 .. n \subseteq 1 .. n2 /\ 1 .. m \subseteq 1 .. m2
  OBVIOUS
<1>2. EventsOf(n) \subseteq EventsOf(n2)
  BY <1>1 DEF EventsOf
<1>3. SummariesOf(n) \subseteq SummariesOf(n2)
  BY <1>1 DEF SummariesOf
<1>4. CardsOf(n, m) \subseteq CardsOf(n2, m2)
  BY <1>1 DEF CardsOf
<1>5. QED
  BY <1>2, <1>3, <1>4

\* A sequence over a set is one over a larger set.
LEMMA LargerSeq ==
  ASSUME NEW S, NEW T, S \subseteq T, NEW s \in Seq(S)
  PROVE  s \in Seq(T)
OBVIOUS

\* Cards are cards still when there are more containers.
LEMMA MoreCards ==
  ASSUME TypeOK, NEW m \in Nat, made <= m
  PROVE  CardsOf(Len(runs), made) \subseteq CardsOf(Len(runs), m)
<1>1. runs \in Seq(Runs) /\ made \in Nat
  BY DEF TypeOK
<1>2. Len(runs) \in Nat /\ Len(runs) <= Len(runs)
  BY <1>1
<1>3. QED
  BY <1>1, <1>2, MoreOf

\* What is known of a capture, a summary, a card and an event.
LEMMA CaptureFacts ==
  ASSUME captures \in Seq(Captures), NEW i \in DOMAIN captures
  PROVE  /\ captures[i] \in Captures
         /\ captures[i].left \in Seq(Paths) /\ captures[i].left # <<>>
         /\ Head(captures[i].left) \in Paths
         /\ Tail(captures[i].left) \in Seq(Paths)
         /\ captures[i].text \in Contents \cup {Absent, Unread}
<1>1. captures[i] \in Captures
  OBVIOUS
<1>2. /\ captures[i].left \in Seq(Paths) /\ captures[i].left # <<>>
      /\ captures[i].text \in Contents \cup {Absent, Unread}
  BY <1>1 DEF Captures
<1>3. QED
  BY <1>1, <1>2, Taken

\* What is known of a summary.
LEMMA SummaryFacts ==
  ASSUME TypeOK, NEW i \in DOMAIN summaries
  PROVE  /\ summaries[i] \in SummariesOf(Len(runs))
         /\ summaries[i].run \in DOMAIN runs /\ summaries[i].seen \subseteq Paths /\ summaries[i].path \in Paths
         /\ summaries[i].before \in Contents \cup {Absent} /\ summaries[i].changes \in OldContents
<1>1. summaries \in Seq(SummariesOf(Len(runs))) /\ DOMAIN runs = 1 .. Len(runs)
  BY DEF TypeOK
<1>2. summaries[i] \in SummariesOf(Len(runs))
  BY <1>1
<1>3. QED
  BY <1>1, <1>2 DEF SummariesOf

\* What is known of a card.
LEMMA CardFacts ==
  ASSUME TypeOK, NEW i \in DOMAIN cards
  PROVE  /\ cards[i] \in CardsOf(Len(runs), made)
         /\ cards[i].run \in DOMAIN runs /\ cards[i].changes \in OldContents
         /\ cards[i].left \subseteq Paths
<1>1. cards \in Seq(CardsOf(Len(runs), made)) /\ DOMAIN runs = 1 .. Len(runs)
  BY DEF TypeOK
<1>2. cards[i] \in CardsOf(Len(runs), made)
  BY <1>1
<1>3. QED
  BY <1>1, <1>2 DEF CardsOf

\* What is known of an event on its way.
LEMMA EventFacts ==
  ASSUME TypeOK, NEW i \in DOMAIN down
  PROVE  /\ down[i] \in EventsOf(Len(runs))
         /\ down[i].run \in DOMAIN runs
         /\ down[i].kind \in {"call", "result", "answer"}
         /\ down[i].kind = "call" => down[i].paths \in Calls
<1>1. down \in Seq(EventsOf(Len(runs))) /\ DOMAIN runs = 1 .. Len(runs)
  BY DEF TypeOK
<1>2. down[i] \in EventsOf(Len(runs))
  BY <1>1
<1>3. QED
  BY <1>1, <1>2 DEF EventsOf

\* Runs of which no new one begins leave all types that count them.
LEMMA KeptTypes ==
  ASSUME TypeOK, Keeps(runs')
  PROVE  /\ runs' \in Seq(Runs) /\ Len(runs') = Len(runs) /\ Len(runs) \in Nat
         /\ DOMAIN runs' = DOMAIN runs
BY DEF TypeOK, Keeps

\* What is read is a text, or nothing.
LEMMA AsTextFacts ==
  ASSUME NEW c \in Contents \cup {Absent}
  PROVE  AsText(c) \in Contents \cup {Absent} /\ AsText(c) # Unread
<1>1. CASE c = Absent
  BY <1>1, ContentAssumption DEF AsText
<1>2. CASE c \in Contents
  <2>1. c # Absent /\ Decoded[c] \in Contents
    BY <1>2, ContentAssumption, DecodedAssumption
  <2>2. QED
    BY <2>1, ContentAssumption DEF AsText
<1>3. QED
  BY <1>1, <1>2

\* Each step keeps the types.
LEMMA CaptureReadsTypes ==
  ASSUME TypeOK, NEW i, CaptureReads(i)
  PROVE  TypeOK'
<1> DEFINE p == Head(captures[i].left)
<1>1. i \in DOMAIN captures /\ captures \in Seq(Captures) /\ runs \in Seq(Runs)
  BY DEF CaptureReads, TypeOK
<1>2. captures[i] \in Captures /\ p \in Paths
  BY <1>1, CaptureFacts
<1>3. AsText(file[p]) \in Contents \cup {Absent}
  BY <1>2, AsTextFacts DEF TypeOK, Files
<1>4. captures' \in Seq(Captures)
  <2>1. [captures[i] EXCEPT !.text = AsText(file[p])] \in Captures
    BY <1>2, <1>3 DEF Captures
  <2>2. captures' = [captures EXCEPT ![i] = [captures[i] EXCEPT !.text = AsText(file[p])]]
    BY DEF CaptureReads
  <2> HIDE DEF p
  <2>3. QED
    BY <1>1, <2>1, <2>2, Replaced
<1>5. runs' \in Seq(Runs) /\ Len(runs') = Len(runs)
  <2>1. runs' = [r \in DOMAIN runs |-> IF r = Len(runs) THEN [runs[r] EXCEPT !.safe = @ \cup {p}] ELSE runs[r]]
    BY DEF CaptureReads
  <2>2. ASSUME NEW r \in DOMAIN runs
        PROVE  [runs[r] EXCEPT !.safe = @ \cup {p}] \in Runs /\ runs[r] \in Runs
    <3>1. runs[r] \in Runs
      BY <1>1, RunFacts
    <3>2. QED
      BY <1>2, <3>1 DEF Runs
  <2> HIDE DEF p
  <2>3. runs' \in [DOMAIN runs -> Runs]
    BY <2>1, <2>2
  <2>4. QED
    BY <1>1, <2>3, Mapped
<1>6. QED
  BY <1>4, <1>5 DEF CaptureReads, TypeOK, serviceVars, paneVars

\* A failed read keeps the types.
LEMMA CaptureFailsTypes ==
  ASSUME TypeOK, NEW i, CaptureFails(i)
  PROVE  TypeOK'
<1>1. i \in DOMAIN captures /\ captures \in Seq(Captures) /\ captures[i] \in Captures
  BY CaptureFacts DEF CaptureFails, TypeOK
<1>2. captures' \in Seq(Captures)
  <2>1. [captures[i] EXCEPT !.text = Absent] \in Captures
    BY <1>1 DEF Captures
  <2>2. captures' = [captures EXCEPT ![i] = [captures[i] EXCEPT !.text = Absent]]
    BY DEF CaptureFails
  <2>3. QED
    BY <1>1, <2>1, <2>2, Replaced
<1>3. runs' \in Seq(Runs) /\ Len(runs') = Len(runs)
  BY SpoilFacts, KeptTypes DEF CaptureFails, TypeOK, Disturbances
<1>4. QED
  BY <1>2, <1>3 DEF CaptureFails, TypeOK, serviceVars, paneVars

\* A capture that goes on keeps the types.
LEMMA CaptureDoneTypes ==
  ASSUME TypeOK, NEW i, CaptureDone(i)
  PROVE  TypeOK'
<1> DEFINE left == Tail(captures[i].left)
           p == Head(captures[i].left)
           s == [q \in DOMAIN snapshots \cup {p} |-> IF q = p THEN captures[i].text ELSE snapshots[q]]
<1>1. i \in DOMAIN captures /\ captures \in Seq(Captures) /\ snapshots \in OldContents
  BY DEF CaptureDone, TypeOK
<1>2. left \in Seq(Paths) /\ p \in Paths /\ captures[i].text \in Contents \cup {Absent}
  BY <1>1, CaptureFacts DEF CaptureDone
<1>3. s \in OldContents
  BY <1>1, <1>2, OneMore
<1>4. snapshots' = s /\ touched' = touched \cup Reached(left, s)
      /\ captures' = RemoveAt(captures, i) \o CaptureFrom(left, s)
  BY DEF CaptureDone
<1> HIDE DEF left, p, s
<1>5. AtMostOne(CaptureFrom(left, s), Captures) /\ Reached(left, s) \subseteq Paths
  BY <1>2, CaptureFromFacts
<1>6. captures' \in Seq(Captures)
  BY <1>1, <1>4, <1>5, TakenGoesOn
<1>7. QED
  BY <1>3, <1>4, <1>5, <1>6 DEF CaptureDone, TypeOK, serviceVars, ghostVars

\* Loops that begin anew.
LEMMA SeenAgain ==
  ASSUME TypeOK, summaries' = [i \in DOMAIN summaries |-> [summaries[i] EXCEPT !.seen = {}]]
  PROVE  /\ summaries' \in Seq(SummariesOf(Len(runs))) /\ DOMAIN summaries' = DOMAIN summaries
         /\ \A i \in DOMAIN summaries : summaries'[i].run = summaries[i].run
<1>1. ASSUME NEW i \in DOMAIN summaries
      PROVE  [summaries[i] EXCEPT !.seen = {}] \in SummariesOf(Len(runs))
             /\ [summaries[i] EXCEPT !.seen = {}].run = summaries[i].run
  <2>1. summaries[i] \in SummariesOf(Len(runs))
    BY SummaryFacts
  <2>2. QED
    BY <2>1 DEF SummariesOf
<1>2. summaries' \in [DOMAIN summaries -> SummariesOf(Len(runs))]
  BY <1>1
<1>3. summaries \in Seq(SummariesOf(Len(runs)))
  BY DEF TypeOK
<1>4. summaries' \in Seq(SummariesOf(Len(runs)))
  BY <1>2, <1>3, Mapped
<1>5. QED
  BY <1>1, <1>4

\* A message keeps the types.
LEMMA SendMessageTypes ==
  ASSUME TypeOK, SendMessage
  PROVE  TypeOK'
<1>1. Keeps(runs')
  BY SpoilFacts DEF SendMessage, TypeOK, Disturbances
<1>2. runs' \in Seq(Runs) /\ Len(runs') = Len(runs) /\ Len(runs) \in Nat
  BY <1>1, KeptTypes
<1>3. summaries' \in Seq(SummariesOf(Len(runs)))
  BY SeenAgain DEF SendMessage, Clear
<1>4. snapshots' \in OldContents
  BY NoContents DEF SendMessage, Clear
<1>5. stray' \in BOOLEAN
  BY DEF SendMessage, TypeOK
<1>6. /\ container' = 0 /\ touched' = {} /\ rendered' = FALSE /\ sending' = sending + 1
      /\ UNCHANGED <<file, agents, down, processing, made, complete, captures, cards>>
  BY DEF SendMessage, Clear
<1>7. container' \in 0 .. made' /\ sending' \in Nat
  BY <1>6 DEF TypeOK
<1>8. QED
  BY <1>2, <1>3, <1>4, <1>5, <1>6, <1>7 DEF TypeOK

\* A run that begins keeps the types.
LEMMA SubmitTypes ==
  ASSUME TypeOK, Submit
  PROVE  TypeOK'
<1>1. CASE processing # 0
  BY <1>1 DEF Submit, TypeOK, paneVars, awaitVars, ghostVars
<1>2. CASE processing = 0
  <2> DEFINE run == [base |-> file, safe |-> {}, done |-> FALSE, spoilt |-> IF stray THEN "cleared" ELSE "no"]
             spoilt == Spoil(Open, "overtaken")
  <2>1. run \in Runs
    BY DEF Runs, TypeOK, Disturbances
  <2>2. /\ runs' = Append(spoilt, run) /\ processing' = Len(runs) + 1 /\ stray' = (sending > 1)
        /\ agents' = [r \in DOMAIN agents \cup {Len(runs) + 1} |-> IF r \in DOMAIN agents THEN agents[r] ELSE <<>>]
    BY <1>2 DEF Submit
  <2>3. Keeps(spoilt)
    BY SpoilFacts DEF TypeOK, Disturbances
  <2> HIDE DEF run, spoilt
  <2>4. spoilt \in Seq(Runs) /\ Len(spoilt) = Len(runs) /\ Len(runs) \in Nat
    BY <2>3 DEF Keeps, TypeOK
  <2>5. runs' \in Seq(Runs) /\ Len(runs') = Len(runs) + 1
    BY <2>1, <2>2, <2>4, Added
  <2>6. /\ EventsOf(Len(runs)) \subseteq EventsOf(Len(runs'))
        /\ SummariesOf(Len(runs)) \subseteq SummariesOf(Len(runs'))
        /\ CardsOf(Len(runs), made) \subseteq CardsOf(Len(runs'), made)
    <3>1. Len(runs') \in Nat /\ Len(runs) <= Len(runs') /\ made \in Nat
      BY <2>4, <2>5 DEF TypeOK
    <3>2. QED
      BY <2>4, <3>1, MoreOf
  <2>7. /\ sending' = sending - 1 /\ sending > 0
        /\ UNCHANGED <<file, down, container, made, complete, touched, snapshots, rendered,
                       captures, summaries, cards>>
    BY DEF Submit, paneVars, awaitVars
  <2>8. down' \in Seq(EventsOf(Len(runs'))) /\ summaries' \in Seq(SummariesOf(Len(runs')))
        /\ cards' \in Seq(CardsOf(Len(runs'), made'))
    BY <2>6, <2>7, LargerSeq DEF TypeOK
  <2>9. sending' \in Nat /\ stray' \in BOOLEAN /\ processing' \in 0 .. Len(runs')
    BY <2>2, <2>4, <2>5, <2>7 DEF TypeOK
  <2>10. agents' \in [DOMAIN agents' -> Seq(Paths)] /\ DOMAIN agents' \subseteq 1 .. Len(runs')
    <3>1. agents \in [DOMAIN agents -> Seq(Paths)] /\ DOMAIN agents \subseteq 1 .. Len(runs) /\ <<>> \in Seq(Paths)
      BY DEF TypeOK
    <3>2. agents' \in [DOMAIN agents \cup {Len(runs) + 1} -> Seq(Paths)]
      BY <2>2, <3>1
    <3>3. DOMAIN agents' = DOMAIN agents \cup {Len(runs) + 1}
      BY <3>2
    <3>4. QED
      BY <2>4, <2>5, <3>1, <3>2, <3>3
  <2>11. QED
    BY <2>2, <2>5, <2>7, <2>8, <2>9, <2>10 DEF TypeOK
<1>3. QED
  BY <1>1, <1>2

\* The calls of a session that is shown.
LEMMA RecapturedFacts ==
  ASSUME NEW replayed \in Seq(Calls)
  PROVE  /\ Recaptured(replayed) \in Seq(Captures)
         /\ {Head(replayed[i]) : i \in DOMAIN replayed} \subseteq Paths
<1>1. ASSUME NEW i \in DOMAIN replayed
      PROVE  [left |-> replayed[i], text |-> Unread] \in Captures /\ Head(replayed[i]) \in Paths
  <2>1. replayed[i] \in Seq(Paths) \ {<<>>}
    BY CallAssumption
  <2>2. Head(replayed[i]) \in Paths
    BY <2>1, Taken
  <2>3. QED
    BY <2>1, <2>2 DEF Captures
<1>2. Recaptured(replayed) \in [DOMAIN replayed -> Captures]
  BY <1>1 DEF Recaptured
<1>3. Recaptured(replayed) \in Seq(Captures)
  BY <1>2, Mapped
<1>4. QED
  BY <1>1, <1>3

\* What a session that is shown does to the pane.
LEMMA ShowSessionTypes ==
  ASSUME TypeOK, NEW replayed \in Seq(Calls), NEW answered \in BOOLEAN, ShowSession(replayed, answered)
  PROVE  /\ container' \in 0 .. made' /\ made' \in Nat /\ made \in Nat /\ made <= made' /\ complete \subseteq 1 .. made'
         /\ snapshots' \in OldContents /\ rendered' \in BOOLEAN /\ touched' \subseteq Paths
<1>1. made \in Nat /\ made' \in Nat /\ made <= made' /\ container' \in 0 .. made' /\ complete \subseteq 1 .. made'
  BY DEF ShowSession, TypeOK
<1>2. snapshots' \in OldContents /\ rendered' \in BOOLEAN /\ touched' \subseteq Paths
  BY NoContents, RecapturedFacts DEF ShowSession
<1>3. QED
  BY <1>1, <1>2

\* Cards that are only hidden, or whose undo is cut short as well.
LEMMA HiddenTypes ==
  ASSUME TypeOK, NEW m \in Nat, made <= m, NEW new, DOMAIN new = DOMAIN cards,
         \/ new = [i \in DOMAIN cards |-> [cards[i] EXCEPT !.shown = FALSE]]
         \/ new = [i \in DOMAIN cards |-> [cards[i] EXCEPT !.shown = FALSE, !.left = {}]]
  PROVE  new \in Seq(CardsOf(Len(runs), m))
<1>1. ASSUME NEW i \in DOMAIN cards
      PROVE  /\ [cards[i] EXCEPT !.shown = FALSE] \in CardsOf(Len(runs), made)
             /\ [cards[i] EXCEPT !.shown = FALSE, !.left = {}] \in CardsOf(Len(runs), made)
  <2>1. cards[i] \in CardsOf(Len(runs), made)
    BY CardFacts
  <2>2. QED
    BY <2>1 DEF CardsOf
<1>2. new \in [DOMAIN cards -> CardsOf(Len(runs), made)]
  BY <1>1
<1>3. new \in Seq(CardsOf(Len(runs), made))
  BY <1>2, Mapped DEF TypeOK
<1>4. CardsOf(Len(runs), made) \subseteq CardsOf(Len(runs), m)
  BY MoreCards
<1>5. QED
  BY <1>3, <1>4, LargerSeq

\* A session that is opened keeps the types.
LEMMA OpenSessionTypes ==
  ASSUME TypeOK, NEW replayed \in Seq(Calls), NEW answered \in BOOLEAN, OpenSession(replayed, answered)
  PROVE  TypeOK'
<1>1. runs' \in Seq(Runs) /\ Len(runs') = Len(runs) /\ Len(runs) \in Nat
  BY SpoilFacts, KeptTypes DEF OpenSession, TypeOK, Disturbances
<1>2. summaries' \in Seq(SummariesOf(Len(runs)))
  BY SeenAgain DEF OpenSession
<1>3. /\ container' \in 0 .. made' /\ made' \in Nat /\ made <= made' /\ complete \subseteq 1 .. made'
      /\ snapshots' \in OldContents /\ rendered' \in BOOLEAN /\ touched' \subseteq Paths
  BY ShowSessionTypes DEF OpenSession
<1>4. captures' \in Seq(Captures)
  BY RecapturedFacts DEF OpenSession, TypeOK
<1>5. cards' \in Seq(CardsOf(Len(runs), made'))
  <2>1. cards' = [i \in DOMAIN cards |-> [cards[i] EXCEPT !.shown = FALSE]]
    BY DEF OpenSession
  <2>2. DOMAIN cards' = DOMAIN cards
    BY <2>1
  <2>3. QED
    BY <1>3, <2>1, <2>2, HiddenTypes
<1>6. stray' = (stray \/ sending > 0) /\ UNCHANGED <<file, agents, down, processing, sending, complete>>
  BY DEF OpenSession, serviceVars
<1>7. QED
  BY <1>1, <1>2, <1>3, <1>4, <1>5, <1>6 DEF TypeOK

\* What loading the page does to the runs.
LEMMA ReloadRuns ==
  ASSUME TypeOK, NEW replayed, NEW answered, Reload(replayed, answered)
  PROVE  /\ runs' \in Seq(Runs) /\ Len(runs') = Len(runs) /\ DOMAIN runs' = DOMAIN runs
         /\ \A r \in DOMAIN runs :
              /\ runs'[r].base = runs[r].base /\ runs'[r].done
              /\ runs'[r].spoilt = "no" => runs[r].spoilt = "no" /\ r \notin Open
<1> DEFINE spoilt == Spoil(Open, "cleared")
<1>1. Keeps(spoilt) /\ \A r \in DOMAIN runs : spoilt[r].spoilt = "no" => r \notin Open
  BY SpoilFacts DEF TypeOK, Disturbances
<1>2. runs' = [r \in DOMAIN runs |-> [spoilt[r] EXCEPT !.done = TRUE]]
  BY DEF Reload
<1> HIDE DEF spoilt
<1>3. ASSUME NEW r \in DOMAIN runs
      PROVE  /\ runs'[r] \in Runs /\ runs'[r].base = runs[r].base /\ runs'[r].done
             /\ runs'[r].spoilt = "no" => runs[r].spoilt = "no" /\ r \notin Open
  <2>1. spoilt[r] \in Runs /\ spoilt[r].base = runs[r].base
    BY <1>1 DEF Keeps
  <2>2. runs'[r] = [spoilt[r] EXCEPT !.done = TRUE]
    BY <1>2
  <2>3. runs'[r] \in Runs /\ runs'[r].base = runs[r].base /\ runs'[r].done /\ runs'[r].spoilt = spoilt[r].spoilt
    BY <2>1, <2>2 DEF Runs
  <2>4. QED
    BY <1>1, <2>3 DEF Keeps
<1>4. runs' \in [DOMAIN runs -> Runs] /\ runs \in Seq(Runs)
  BY <1>2, <1>3 DEF TypeOK
<1>5. runs' \in Seq(Runs) /\ Len(runs') = Len(runs) /\ DOMAIN runs' = DOMAIN runs
  BY <1>4, Mapped
<1>6. QED
  BY <1>3, <1>5

\* A page that is loaded again keeps the types.
LEMMA ReloadTypes ==
  ASSUME TypeOK, NEW replayed \in Seq(Calls), NEW answered \in BOOLEAN, Reload(replayed, answered)
  PROVE  TypeOK'
<1>1. runs' \in Seq(Runs) /\ Len(runs') = Len(runs)
  BY ReloadRuns
<1>2. /\ container' \in 0 .. made' /\ made' \in Nat /\ made <= made' /\ complete \subseteq 1 .. made'
      /\ snapshots' \in OldContents /\ rendered' \in BOOLEAN /\ touched' \subseteq Paths
  BY ShowSessionTypes DEF Reload
<1>3. captures' \in Seq(Captures)
  BY RecapturedFacts DEF Reload
<1>4. cards' \in Seq(CardsOf(Len(runs), made'))
  <2>1. cards' = [i \in DOMAIN cards |-> [cards[i] EXCEPT !.shown = FALSE, !.left = {}]]
    BY DEF Reload
  <2>2. DOMAIN cards' = DOMAIN cards
    BY <2>1
  <2>3. QED
    BY <1>2, <2>1, <2>2, HiddenTypes
<1>5. /\ summaries' = <<>> /\ down' = <<>> /\ processing' = 0 /\ sending' = 0 /\ stray' = FALSE
      /\ UNCHANGED <<file, agents, complete>>
  BY DEF Reload
<1>6. <<>> \in Seq(SummariesOf(Len(runs))) /\ <<>> \in Seq(EventsOf(Len(runs))) /\ 0 \in 0 .. Len(runs)
  BY DEF TypeOK
<1>7. QED
  BY <1>1, <1>2, <1>3, <1>4, <1>5, <1>6 DEF TypeOK

\* A write by others keeps the types.
LEMMA WriteElsewhereTypes ==
  ASSUME TypeOK, NEW p \in Paths, NEW c \in Contents \cup {Absent}, WriteElsewhere(p, c)
  PROVE  TypeOK'
<1>1. runs' \in Seq(Runs) /\ Len(runs') = Len(runs)
  BY SpoilFacts, KeptTypes DEF WriteElsewhere, TypeOK, Disturbances
<1>2. file' \in Files
  BY DEF WriteElsewhere, TypeOK, Files
<1>3. UNCHANGED <<agents, down, processing, sending, container, made, complete, touched, snapshots,
                  rendered, captures, summaries, cards, stray>>
  BY DEF WriteElsewhere, serviceVars, paneVars, awaitVars
<1>4. QED
  BY <1>1, <1>2, <1>3 DEF TypeOK

\* What is known of an agent at work.
LEMMA AgentFacts ==
  ASSUME TypeOK, NEW r \in DOMAIN agents
  PROVE  /\ r \in DOMAIN runs /\ r \in 1 .. Len(runs) /\ r # 0
         /\ agents[r] \in Seq(Paths)
<1>1. agents \in [DOMAIN agents -> Seq(Paths)] /\ DOMAIN agents \subseteq 1 .. Len(runs) /\ runs \in Seq(Runs)
  BY DEF TypeOK
<1>2. DOMAIN runs = 1 .. Len(runs) /\ r \in 1 .. Len(runs) /\ agents[r] \in Seq(Paths)
  BY <1>1
<1>3. QED
  BY <1>2

\* Calls of an agent that change, and keep their type.
LEMMA AgentNow ==
  ASSUME TypeOK, NEW r \in DOMAIN agents, NEW s \in Seq(Paths), agents' = [agents EXCEPT ![r] = s],
         Len(runs') = Len(runs)
  PROVE  agents' \in [DOMAIN agents' -> Seq(Paths)] /\ DOMAIN agents' = DOMAIN agents
         /\ DOMAIN agents' \subseteq 1 .. Len(runs')
BY DEF TypeOK

\* A call that is announced keeps the types.
LEMMA AnnounceTypes ==
  ASSUME TypeOK, NEW r, NEW paths \in Calls, Announce(r, paths)
  PROVE  TypeOK'
<1>1. r \in DOMAIN agents /\ r \in 1 .. Len(runs) /\ agents[r] \in Seq(Paths)
  BY AgentFacts DEF Announce
<1>2. down' \in Seq(EventsOf(Len(runs)))
  <2>1. [kind |-> "call", run |-> r, paths |-> paths] \in EventsOf(Len(runs))
    BY <1>1 DEF EventsOf
  <2>2. QED
    BY <2>1, Added DEF Announce, TypeOK
<1>3. UNCHANGED <<file, processing, sending, container, made, complete, touched, snapshots,
                  rendered, captures, summaries, cards, runs, stray>>
  BY DEF Announce, serviceVars, paneVars, awaitVars, ghostVars
<1>4. agents' \in [DOMAIN agents' -> Seq(Paths)] /\ DOMAIN agents' \subseteq 1 .. Len(runs)
  <2>1. agents[r] \o paths \in Seq(Paths)
    BY <1>1, CallAssumption
  <2>2. agents' = [agents EXCEPT ![r] = agents[r] \o paths] /\ Len(runs') = Len(runs)
    BY <1>3 DEF Announce
  <2>3. QED
    BY <1>1, <2>1, <2>2, AgentNow
<1>5. QED
  BY <1>2, <1>3, <1>4 DEF TypeOK

\* What carrying out a call disturbs.
LEMMA CarryOutRuns ==
  ASSUME TypeOK, NEW a, NEW c \in Contents \cup {Absent}, CarryOut(a, c)
  PROVE  /\ Keeps(runs') /\ a \in DOMAIN runs
         /\ \A r \in DOMAIN runs : runs'[r].spoilt = "no" => r = a /\ Head(agents[a]) \in runs[a].safe
<1> DEFINE others == Spoil(DOMAIN runs \ {a}, "overtaken")
           raced == Spoil({a}, "raced")
<1>1. a \in DOMAIN runs /\ runs \in Seq(Runs)
  BY AgentFacts DEF CarryOut, TypeOK
<1>2. Keeps(others) /\ \A r \in DOMAIN runs : others[r].spoilt = "no" => r = a
  BY <1>1, SpoilFacts DEF Disturbances
<1>3. Keeps(raced) /\ raced[a].spoilt # "no"
  BY <1>1, SpoilFacts DEF Disturbances
<1>4. runs' = IF Head(agents[a]) \in runs[a].safe THEN others ELSE [others EXCEPT ![a] = raced[a]]
  BY DEF CarryOut
<1> HIDE DEF others, raced
<1>5. CASE Head(agents[a]) \in runs[a].safe
  <2>1. runs' = others
    BY <1>4, <1>5
  <2>2. QED
    BY <1>1, <1>2, <1>5, <2>1
<1>6. CASE Head(agents[a]) \notin runs[a].safe
  <2>1. runs' = [others EXCEPT ![a] = raced[a]]
    BY <1>4, <1>6
  <2>2. others \in Seq(Runs) /\ DOMAIN others = DOMAIN runs /\ raced[a] \in Runs
    BY <1>1, <1>2, <1>3 DEF Keeps
  <2>3. /\ runs' \in Seq(Runs) /\ DOMAIN runs' = DOMAIN others /\ Len(runs') = Len(others)
        /\ runs'[a] = raced[a] /\ \A r \in DOMAIN others \ {a} : runs'[r] = others[r]
    BY <1>1, <2>1, <2>2, Replaced
  <2>4. ASSUME NEW r \in DOMAIN runs
        PROVE  /\ runs'[r].base = runs[r].base /\ runs'[r].safe = runs[r].safe /\ runs'[r].done = runs[r].done
               /\ runs'[r].spoilt # "no"
    <3>1. CASE r = a
      BY <1>1, <1>3, <2>3, <3>1 DEF Keeps
    <3>2. CASE r # a
      <4>1. runs'[r] = others[r]
        BY <2>2, <2>3, <3>2
      <4>2. QED
        BY <1>2, <3>2, <4>1 DEF Keeps
    <3>3. QED
      BY <3>1, <3>2
  <2>5. Keeps(runs')
    BY <1>2, <2>2, <2>3, <2>4 DEF Keeps
  <2>6. QED
    BY <1>1, <2>4, <2>5
<1>7. QED
  BY <1>5, <1>6

\* A call that is carried out keeps the types.
LEMMA CarryOutTypes ==
  ASSUME TypeOK, NEW a, NEW c \in Contents \cup {Absent}, CarryOut(a, c)
  PROVE  TypeOK'
<1>1. runs' \in Seq(Runs) /\ Len(runs') = Len(runs)
  BY CarryOutRuns, KeptTypes
<1>2. a \in DOMAIN agents /\ agents[a] \in Seq(Paths) /\ agents[a] # <<>>
      /\ agents' = [agents EXCEPT ![a] = Tail(agents[a])]
  BY AgentFacts DEF CarryOut
<1>3. Head(agents[a]) \in Paths /\ Tail(agents[a]) \in Seq(Paths)
  BY <1>2, Taken
<1>4. file' \in Files
  BY <1>3 DEF CarryOut, TypeOK, Files
<1>5. agents' \in [DOMAIN agents' -> Seq(Paths)] /\ DOMAIN agents' \subseteq 1 .. Len(runs')
  BY <1>1, <1>2, <1>3, AgentNow
<1>6. UNCHANGED <<down, processing, sending, container, made, complete, touched, snapshots,
                  rendered, captures, summaries, cards, stray>>
  BY DEF CarryOut, serviceVars, paneVars, awaitVars
<1>7. QED
  BY <1>1, <1>4, <1>5, <1>6 DEF TypeOK

\* The end of an agent keeps the types.
LEMMA AgentEndsTypes ==
  ASSUME TypeOK, NEW a, NEW well \in BOOLEAN, AgentEnds(a, well)
  PROVE  TypeOK'
<1>1. a \in 1 .. Len(runs) /\ runs \in Seq(Runs)
  BY AgentFacts DEF AgentEnds, TypeOK
<1>2. runs' \in Seq(Runs) /\ Len(runs') = Len(runs)
  BY <1>1, SameRuns, SpoilFacts, KeptTypes DEF AgentEnds, Disturbances
<1>3. /\ <<[kind |-> "result", run |-> a]>> \in Seq(EventsOf(Len(runs)))
      /\ <<[kind |-> "answer", run |-> a]>> \in Seq(EventsOf(Len(runs)))
  <2>1. /\ [kind |-> "result", run |-> a] \in EventsOf(Len(runs))
        /\ [kind |-> "answer", run |-> a] \in EventsOf(Len(runs))
    BY <1>1 DEF EventsOf
  <2>2. QED
    BY <2>1
<1>4. down' \in Seq(EventsOf(Len(runs)))
  BY <1>3 DEF AgentEnds, TypeOK
<1>5. agents' \in [DOMAIN agents' -> Seq(Paths)] /\ DOMAIN agents' \subseteq 1 .. Len(runs')
  BY <1>2 DEF AgentEnds, TypeOK
<1>6. UNCHANGED <<file, processing, sending, container, made, complete, touched, snapshots,
                  rendered, captures, summaries, cards, stray>>
  BY DEF AgentEnds, serviceVars, paneVars, awaitVars
<1>7. QED
  BY <1>2, <1>4, <1>5, <1>6 DEF TypeOK

\* A call that arrives keeps the types.
LEMMA CallArrivesTypes ==
  ASSUME TypeOK, CallArrives
  PROVE  TypeOK'
<1>1. runs \in Seq(Runs) /\ down \in Seq(EventsOf(Len(runs))) /\ down # <<>>
  BY DEF CallArrives, TypeOK
<1>2. Keeps(runs')
  BY <1>1, SameRuns, SpoilFacts DEF CallArrives, Disturbances
<1>3. runs' \in Seq(Runs) /\ Len(runs') = Len(runs) /\ Len(runs) \in Nat
  BY <1>2, KeptTypes
<1>4. down' \in Seq(EventsOf(Len(runs))) /\ 1 \in DOMAIN down /\ Head(down) = down[1]
  BY <1>1, Taken DEF CallArrives
<1>5. Head(down).paths \in Seq(Paths)
  BY <1>4, EventFacts, CallAssumption DEF CallArrives
<1>6. /\ AtMostOne(CaptureFrom(Head(down).paths, snapshots), Captures)
      /\ Reached(Head(down).paths, snapshots) \subseteq Paths
  BY <1>5, CaptureFromFacts
<1>7. captures' \in Seq(Captures) /\ touched' \subseteq Paths
  <2>1. CaptureFrom(Head(down).paths, snapshots) \in Seq(Captures)
    BY <1>6, FewIsSeq
  <2>2. QED
    BY <1>6, <2>1 DEF CallArrives, BeginCapture, TypeOK
<1>8. made \in Nat /\ made' \in Nat /\ made <= made' /\ container' \in 0 .. made' /\ complete \subseteq 1 .. made'
  BY DEF CallArrives, TypeOK
<1>9. cards \in Seq(CardsOf(Len(runs), made'))
  BY <1>8, MoreCards, LargerSeq DEF TypeOK
<1>10. UNCHANGED <<file, agents, processing, sending, complete, snapshots, rendered, summaries,
                   cards, stray>>
  BY DEF CallArrives, serviceVars
<1>11. QED
  BY <1>3, <1>4, <1>7, <1>8, <1>9, <1>10 DEF TypeOK

\* A result that arrives keeps the types.
LEMMA ResultArrivesTypes ==
  ASSUME TypeOK, ResultArrives
  PROVE  TypeOK'
<1>1. runs \in Seq(Runs) /\ down \in Seq(EventsOf(Len(runs))) /\ down # <<>>
  BY DEF ResultArrives, TypeOK
<1>2. Keeps(runs')
  BY <1>1, SameRuns, SpoilFacts DEF ResultArrives, Disturbances
<1>3. runs' \in Seq(Runs) /\ Len(runs') = Len(runs) /\ Len(runs) \in Nat
  BY <1>2, KeptTypes
<1>4. down' \in Seq(EventsOf(Len(runs))) /\ 1 \in DOMAIN down /\ Head(down) = down[1]
  BY <1>1, Taken DEF ResultArrives
<1>5. Head(down).run \in DOMAIN runs /\ DOMAIN runs = 1 .. Len(runs)
  BY <1>1, <1>4, EventFacts
<1>6. summaries' \in Seq(SummariesOf(Len(runs)))
  <2>1. CASE UNCHANGED summaries
    BY <2>1 DEF TypeOK
  <2>2. ASSUME NEW p \in touched,
               summaries' = Append(summaries,
                 [run |-> Head(down).run, seen |-> {p}, path |-> p, before |-> Before(p), changes |-> <<>>])
        PROVE  summaries' \in Seq(SummariesOf(Len(runs)))
    <3>1. p \in Paths
      BY DEF TypeOK
    <3>2. Before(p) \in Contents \cup {Absent}
      BY OldFacts DEF Before, TypeOK
    <3>3. [run |-> Head(down).run, seen |-> {p}, path |-> p, before |-> Before(p), changes |-> <<>>]
            \in SummariesOf(Len(runs))
      BY <1>5, <3>1, <3>2, NoContents DEF SummariesOf
    <3>4. QED
      BY <2>2, <3>3, Added DEF TypeOK
  <2>3. QED
    BY <2>1, <2>2 DEF ResultArrives
<1>7. complete' \subseteq 1 .. made
  BY DEF ResultArrives, TypeOK
<1>8. UNCHANGED <<file, agents, processing, sending, container, made, touched, snapshots, rendered,
                   captures, cards, stray>>
  BY DEF ResultArrives, serviceVars
<1>9. QED
  BY <1>3, <1>4, <1>6, <1>7, <1>8 DEF TypeOK

\* What an answer does to the runs.
LEMMA AnswerRuns ==
  ASSUME TypeOK, AnswerArrives
  PROVE  /\ runs' \in Seq(Runs) /\ Len(runs') = Len(runs) /\ DOMAIN runs' = DOMAIN runs
         /\ 1 \in DOMAIN down /\ Head(down) = down[1] /\ Head(down).run \in DOMAIN runs
         /\ runs'[Head(down).run].done
         /\ \A r \in DOMAIN runs :
              /\ runs'[r].base = runs[r].base /\ runs'[r].safe = runs[r].safe
              /\ runs'[r].spoilt = runs[r].spoilt
              /\ r # Head(down).run => runs'[r].done = runs[r].done
<1> DEFINE n == Head(down).run
<1>1. runs \in Seq(Runs) /\ down \in Seq(EventsOf(Len(runs))) /\ down # <<>>
  BY DEF AnswerArrives, TypeOK
<1>2. 1 \in DOMAIN down /\ Head(down) = down[1] /\ n \in DOMAIN runs
  BY <1>1, Taken, EventFacts
<1>3. runs[n] \in Runs
  BY <1>1, <1>2, RunFacts
<1>4. [runs[n] EXCEPT !.done = TRUE] \in Runs
  BY <1>3 DEF Runs
<1>5. runs' = [runs EXCEPT ![n] = [runs[n] EXCEPT !.done = TRUE]]
  BY DEF AnswerArrives
<1> HIDE DEF n
<1>6. /\ runs' \in Seq(Runs) /\ DOMAIN runs' = DOMAIN runs /\ Len(runs') = Len(runs)
      /\ runs'[n] = [runs[n] EXCEPT !.done = TRUE]
      /\ \A r \in DOMAIN runs \ {n} : runs'[r] = runs[r]
  BY <1>1, <1>2, <1>4, <1>5, Replaced
<1>7. /\ runs'[n].base = runs[n].base /\ runs'[n].safe = runs[n].safe
      /\ runs'[n].spoilt = runs[n].spoilt /\ runs'[n].done
  BY <1>3, <1>6 DEF Runs
<1>8. QED
  BY <1>2, <1>6, <1>7 DEF n

\* An answer that arrives keeps the types.
LEMMA AnswerArrivesTypes ==
  ASSUME TypeOK, AnswerArrives
  PROVE  TypeOK'
<1>1. runs' \in Seq(Runs) /\ Len(runs') = Len(runs)
  BY AnswerRuns
<1>2. down \in Seq(EventsOf(Len(runs))) /\ down # <<>> /\ down' = Tail(down)
  BY DEF AnswerArrives, TypeOK
<1>3. down' \in Seq(EventsOf(Len(runs)))
  BY <1>2, Taken
<1>4. /\ processing' = 0
      /\ UNCHANGED <<file, agents, sending, container, made, complete, touched, snapshots, rendered,
                     captures, summaries, cards, stray>>
  BY DEF AnswerArrives, paneVars, awaitVars
<1>5. 0 \in 0 .. Len(runs)
  BY DEF TypeOK
<1>6. QED
  BY <1>1, <1>3, <1>4, <1>5 DEF TypeOK

\* The changes a summary has found, once it has read another file.
Changes(s, after) ==
  IF s.before = after THEN s.changes
  ELSE [p \in DOMAIN s.changes \cup {s.path} |-> IF p = s.path THEN s.before ELSE s.changes[p]]

\* The file read last joins the changes if it differs.
LEMMA ChangesFacts ==
  ASSUME TypeOK, NEW i \in DOMAIN summaries, NEW after
  PROVE  LET s == summaries[i] IN
         /\ Changes(s, after) \in OldContents
         /\ s.before = after => Changes(s, after) = s.changes
         /\ s.before # after =>
              /\ DOMAIN Changes(s, after) = DOMAIN s.changes \cup {s.path}
              /\ Changes(s, after)[s.path] = s.before
              /\ \A p \in DOMAIN s.changes \ {s.path} : Changes(s, after)[p] = s.changes[p]
<1> DEFINE s == summaries[i]
<1>1. s.path \in Paths /\ s.before \in Contents \cup {Absent} /\ s.changes \in OldContents
  BY SummaryFacts
<1> HIDE DEF s
<1>2. CASE s.before = after
  BY <1>1, <1>2 DEF Changes, s
<1>3. CASE s.before # after
  <2> DEFINE c == Changes(s, after)
             old == s.changes
             path == s.path
             before == s.before
  <2>1. c = [p \in DOMAIN old \cup {path} |-> IF p = path THEN before ELSE old[p]]
    BY <1>3 DEF Changes
  <2>2. path \in Paths /\ before \in Contents \cup {Absent} /\ old \in OldContents
    BY <1>1
  <2> HIDE DEF c, old, path, before
  <2>3. c \in OldContents /\ DOMAIN c = DOMAIN old \cup {path} /\ c[path] = before
        /\ \A p \in DOMAIN old \ {path} : c[p] = old[p]
    BY <2>1, <2>2, OneMore
  <2>4. QED
    BY <1>3, <2>3 DEF s, c, old, path, before
<1>4. QED
  BY <1>2, <1>3

\* A summary goes on with the next file.
NextFile(i, p, after) ==
  /\ summaries' = [summaries EXCEPT ![i] =
       [summaries[i] EXCEPT !.seen = @ \cup {p}, !.path = p, !.before = Before(p), !.changes = Changes(summaries[i], after)]]
  /\ UNCHANGED <<rendered, cards>>

\* A summary has seen all files.
LastFile(i, after) ==
  /\ touched \subseteq summaries[i].seen
  /\ summaries' = RemoveAt(summaries, i)
  /\ rendered' = TRUE
  /\ cards' = IF DOMAIN Changes(summaries[i], after) = {} \/ container = 0 THEN cards
              ELSE Append(cards, [run |-> summaries[i].run, container |-> container, shown |-> TRUE,
                                  changes |-> Changes(summaries[i], after), left |-> {}, button |-> "Undo"])

\* A summary that has read a file goes on with the next one or ends.
LEMMA SummaryReadsCases ==
  ASSUME TypeOK, NEW i, NEW after, SummaryReads(i, after)
  PROVE  /\ i \in DOMAIN summaries
         /\ (\E p \in touched \ summaries[i].seen : NextFile(i, p, after)) \/ LastFile(i, after)
         /\ UNCHANGED <<file, agents, down, processing, sending, container, made, complete, touched,
                        snapshots, captures, stray>>
         /\ Keeps(runs')
         /\ runs'[summaries[i].run].spoilt = "no" => after = AsText(file[summaries[i].path])
<1>1. i \in DOMAIN summaries
  BY DEF SummaryReads
<1>2. UNCHANGED <<file, agents, down, processing, sending, container, made, complete, touched,
                  snapshots, captures, stray>>
  BY DEF SummaryReads, serviceVars
<1>3. (\E p \in touched \ summaries[i].seen : NextFile(i, p, after)) \/ LastFile(i, after)
  BY Zenon DEF SummaryReads, NextFile, LastFile, Changes
<1>4. Keeps(runs') /\ (runs'[summaries[i].run].spoilt = "no" => after = AsText(file[summaries[i].path]))
  <2>1. runs' = IF after = AsText(file[summaries[i].path]) THEN runs ELSE Spoil({summaries[i].run}, "unread")
    BY DEF SummaryReads
  <2>2. runs \in Seq(Runs) /\ summaries[i].run \in DOMAIN runs
    BY <1>1, SummaryFacts DEF TypeOK
  <2>3. CASE after = AsText(file[summaries[i].path])
    BY <2>1, <2>2, <2>3, SameRuns
  <2>4. CASE after # AsText(file[summaries[i].path])
    <3>1. /\ Keeps(Spoil({summaries[i].run}, "unread"))
          /\ \A r \in DOMAIN runs : Spoil({summaries[i].run}, "unread")[r].spoilt = "no" => r \notin {summaries[i].run}
      BY <2>2, SpoilFacts DEF Disturbances
    <3>2. QED
      BY <2>1, <2>2, <2>4, <3>1
  <2>5. QED
    BY <2>3, <2>4
<1>5. QED
  BY <1>1, <1>2, <1>3, <1>4

\* A summary that reads keeps the types.
LEMMA SummaryReadsTypes ==
  ASSUME TypeOK, NEW i, NEW after, SummaryReads(i, after)
  PROVE  TypeOK'
<1>1. i \in DOMAIN summaries /\ summaries \in Seq(SummariesOf(Len(runs)))
  BY DEF TypeOK, SummaryReads
<1>2. summaries[i] \in SummariesOf(Len(runs)) /\ Changes(summaries[i], after) \in OldContents
  BY <1>1, SummaryFacts, ChangesFacts
<1>3. UNCHANGED <<file, agents, down, processing, sending, container, made, complete, touched,
                  snapshots, captures, stray>>
  BY SummaryReadsCases
<1>4. ASSUME NEW p \in touched \ summaries[i].seen, NextFile(i, p, after)
      PROVE  summaries' \in Seq(SummariesOf(Len(runs))) /\ rendered' \in BOOLEAN
             /\ cards' \in Seq(CardsOf(Len(runs), made))
  <2>1. p \in Paths /\ Before(p) \in Contents \cup {Absent}
    BY OldFacts DEF Before, TypeOK
  <2> DEFINE s == [summaries[i] EXCEPT !.seen = @ \cup {p}, !.path = p, !.before = Before(p),
                                       !.changes = Changes(summaries[i], after)]
  <2>2. s \in SummariesOf(Len(runs))
    BY <1>2, <2>1 DEF SummariesOf
  <2>3. summaries' = [summaries EXCEPT ![i] = s]
    BY <1>4 DEF NextFile
  <2> HIDE DEF s
  <2>4. summaries' \in Seq(SummariesOf(Len(runs)))
    BY <1>1, <2>2, <2>3, Replaced
  <2>5. QED
    BY <1>4, <2>4 DEF NextFile, TypeOK
<1>5. ASSUME LastFile(i, after)
      PROVE  summaries' \in Seq(SummariesOf(Len(runs))) /\ rendered' \in BOOLEAN
             /\ cards' \in Seq(CardsOf(Len(runs), made))
  <2>1. summaries' \in Seq(SummariesOf(Len(runs)))
    BY <1>1, <1>5, Removed DEF LastFile
  <2> DEFINE card == [run |-> summaries[i].run, container |-> container, shown |-> TRUE,
                      changes |-> Changes(summaries[i], after), left |-> {}, button |-> "Undo"]
  <2>2. CASE cards' = cards
    BY <1>5, <2>1, <2>2 DEF LastFile, TypeOK
  <2>3. CASE container # 0 /\ cards' = Append(cards, card)
    <3>1. container \in 1 .. made
      BY <2>3 DEF TypeOK
    <3>2. summaries[i].run \in 1 .. Len(runs)
      BY <1>2 DEF SummariesOf
    <3>3. card \in CardsOf(Len(runs), made)
      BY <1>2, <3>1, <3>2 DEF CardsOf
    <3> HIDE DEF card
    <3>4. cards' \in Seq(CardsOf(Len(runs), made))
      BY <2>3, <3>3, Added DEF TypeOK
    <3>5. QED
      BY <1>5, <2>1, <3>4 DEF LastFile
  <2>4. QED
    BY <1>5, <2>2, <2>3 DEF LastFile
<1>6. summaries' \in Seq(SummariesOf(Len(runs))) /\ rendered' \in BOOLEAN
      /\ cards' \in Seq(CardsOf(Len(runs), made))
  BY <1>4, <1>5, SummaryReadsCases
<1>7. runs' \in Seq(Runs) /\ Len(runs') = Len(runs)
  BY SummaryReadsCases, KeptTypes
<1>8. QED
  BY <1>3, <1>6, <1>7 DEF TypeOK

\* What a button says.
Buttons == {"Undo", "Undoing...", "Undone", "Undo failed"}

\* What a step of an undo does to the cards.
CardNow(i, left, button) ==
  cards' = [cards EXCEPT ![i] = [cards[i] EXCEPT !.left = left, !.button = button]]

\* Only that card has changed, in what is left and what its button says.
OnlyCard(i, left, button) ==
  /\ cards' \in Seq(CardsOf(Len(runs), made))
  /\ DOMAIN cards' = DOMAIN cards
  /\ cards'[i].left = left /\ cards'[i].button = button
  /\ \A j \in DOMAIN cards :
       /\ cards'[j].run = cards[j].run /\ cards'[j].changes = cards[j].changes
       /\ j # i => cards'[j] = cards[j]

\* A card given new values is the only one that changes.
LEMMA CardNowFacts ==
  ASSUME TypeOK, NEW i \in DOMAIN cards, NEW left, left \subseteq Paths,
         NEW button \in Buttons, CardNow(i, left, button)
  PROVE  OnlyCard(i, left, button)
<1> DEFINE card == [cards[i] EXCEPT !.left = left, !.button = button]
<1>1. cards[i] \in CardsOf(Len(runs), made)
  BY CardFacts
<1>2. /\ card \in CardsOf(Len(runs), made)
      /\ card.run = cards[i].run /\ card.changes = cards[i].changes
      /\ card.left = left /\ card.button = button
  BY <1>1 DEF CardsOf, Buttons
<1>3. cards \in Seq(CardsOf(Len(runs), made)) /\ cards' = [cards EXCEPT ![i] = card]
  BY DEF TypeOK, CardNow
<1> HIDE DEF card
<1>4. /\ cards' \in Seq(CardsOf(Len(runs), made)) /\ DOMAIN cards' = DOMAIN cards
      /\ cards'[i] = card /\ \A j \in DOMAIN cards \ {i} : cards'[j] = cards[j]
  BY <1>2, <1>3, Replaced
<1>5. ASSUME NEW j \in DOMAIN cards
      PROVE  /\ cards'[j].run = cards[j].run /\ cards'[j].changes = cards[j].changes
             /\ j # i => cards'[j] = cards[j]
  BY <1>2, <1>4
<1>6. QED
  BY <1>2, <1>4, <1>5 DEF OnlyCard

\* What the button says after a file, given what it said.
After(i, p) == IF cards[i].left = {p} THEN "Undone" ELSE cards[i].button

\* What each step of an undo writes into its card.
LEMMA UndoCards ==
  ASSUME TypeOK, NEW i \in DOMAIN cards
  PROVE  /\ cards[i].left \subseteq Paths
         /\ cards[i].button \in Buttons
         /\ PressUndo(i) => CardNow(i, DOMAIN cards[i].changes, "Undoing...") /\ DOMAIN cards[i].changes \subseteq Paths
         /\ \A p \in cards[i].left : Past(i, p) => CardNow(i, cards[i].left \ {p}, After(i, p))
         /\ [cards EXCEPT ![i].left = {}, ![i].button = "Undo failed"] = cards' => CardNow(i, {}, "Undo failed")
<1>1. cards[i] \in CardsOf(Len(runs), made) /\ cards[i].changes \in OldContents
  BY CardFacts
<1>2. cards[i].left \subseteq Paths /\ cards[i].button \in Buttons
  BY <1>1 DEF CardsOf, Buttons
<1>3. DOMAIN cards[i].changes \subseteq Paths
  BY <1>1, OldFacts
<1>4. PressUndo(i) => CardNow(i, DOMAIN cards[i].changes, "Undoing...")
  BY <1>1 DEF PressUndo, CardNow, CardsOf
<1>5. ASSUME NEW p \in cards[i].left, Past(i, p)
      PROVE  CardNow(i, cards[i].left \ {p}, After(i, p))
  BY <1>1, <1>5 DEF Past, CardNow, CardsOf, After
<1>6. ASSUME cards' = [cards EXCEPT ![i].left = {}, ![i].button = "Undo failed"]
      PROVE  CardNow(i, {}, "Undo failed")
  BY <1>1, <1>6 DEF CardNow, CardsOf
<1>7. QED
  BY <1>2, <1>3, <1>4, <1>5, <1>6

\* What a step of an undo does to the cards, in short.
LEMMA CardsUndone ==
  ASSUME TypeOK, NEW i \in DOMAIN cards
  PROVE  /\ PressUndo(i) => OnlyCard(i, DOMAIN cards[i].changes, "Undoing...")
         /\ \A p \in cards[i].left : Past(i, p) => OnlyCard(i, cards[i].left \ {p}, After(i, p))
         /\ \A p : UndoFails(i, p) =>
              \E left \in SUBSET cards[i].left, button \in Buttons : OnlyCard(i, left, button)
<1>1. cards[i].left \subseteq Paths /\ cards[i].button \in Buttons /\ "Undoing..." \in Buttons
      /\ "Undone" \in Buttons /\ "Undo failed" \in Buttons
  BY UndoCards DEF Buttons
<1>2. \A p : After(i, p) \in Buttons
  BY <1>1 DEF After
<1>3. ASSUME PressUndo(i)
      PROVE  OnlyCard(i, DOMAIN cards[i].changes, "Undoing...")
  <2>1. CardNow(i, DOMAIN cards[i].changes, "Undoing...") /\ DOMAIN cards[i].changes \subseteq Paths
    BY <1>3, UndoCards
  <2>2. QED
    BY <1>1, <2>1, CardNowFacts
<1>4. ASSUME NEW p \in cards[i].left, Past(i, p)
      PROVE  OnlyCard(i, cards[i].left \ {p}, After(i, p))
  <2>1. CardNow(i, cards[i].left \ {p}, After(i, p))
    BY <1>4, UndoCards
  <2>2. cards[i].left \ {p} \subseteq Paths
    BY <1>1
  <2>3. QED
    BY <1>2, <2>1, <2>2, CardNowFacts
<1>5. ASSUME NEW p, UndoFails(i, p)
      PROVE  \E left \in SUBSET cards[i].left, button \in Buttons : OnlyCard(i, left, button)
  <2>1. p \in cards[i].left
    BY <1>5 DEF UndoFails
  <2>2. CASE Past(i, p)
    BY <1>2, <1>4, <2>1, <2>2
  <2>3. CASE cards' = [cards EXCEPT ![i].left = {}, ![i].button = "Undo failed"]
    <3>1. CardNow(i, {}, "Undo failed")
      BY <2>3, UndoCards
    <3>2. OnlyCard(i, {}, "Undo failed")
      BY <1>1, <3>1, CardNowFacts
    <3>3. QED
      BY <1>1, <3>2
  <2>4. QED
    BY <1>5, <2>2, <2>3 DEF UndoFails
<1>6. QED
  BY <1>3, <1>4, <1>5

\* An undo has nothing left but changes of its card.
LeftIsChanged == \A i \in DOMAIN cards : cards[i].left \subseteq DOMAIN cards[i].changes

\* The steps of an undo keep the types.
LEMMA UndoTypes ==
  ASSUME TypeOK, LeftIsChanged, NEW i \in DOMAIN cards,
         PressUndo(i) \/ \E p \in cards[i].left : UndoOne(i, p) \/ UndoFails(i, p)
  PROVE  TypeOK'
<1>1. cards[i].left \subseteq Paths
  BY UndoCards
<1>2. (\E left, button : OnlyCard(i, left, button)) => cards' \in Seq(CardsOf(Len(runs), made))
  BY DEF OnlyCard
<1>3. CASE PressUndo(i)
  <2>1. cards' \in Seq(CardsOf(Len(runs), made))
    BY <1>2, <1>3, CardsUndone
  <2>2. UNCHANGED <<file, agents, down, processing, sending, container, made, complete, touched,
                    snapshots, rendered, captures, summaries, runs, stray>>
    BY <1>3 DEF PressUndo, undoVars, serviceVars, paneVars, awaitVars
  <2>3. QED
    BY <2>1, <2>2 DEF TypeOK
<1>4. ASSUME NEW p \in cards[i].left, UndoOne(i, p)
      PROVE  TypeOK'
  <2>1. cards' \in Seq(CardsOf(Len(runs), made))
    BY <1>2, <1>4, CardsUndone DEF UndoOne
  <2>2. runs' \in Seq(Runs) /\ Len(runs') = Len(runs)
    BY <1>4, SpoilFacts, KeptTypes DEF UndoOne, TypeOK, Disturbances
  <2>3. file' \in Files
    <3>1. p \in Paths /\ file \in Files
      BY <1>1 DEF TypeOK
    <3>2. file' = [file EXCEPT ![p] = cards[i].changes[p]]
      BY <1>4 DEF UndoOne
    <3>3. cards[i].changes[p] \in Contents \cup {Absent}
      BY CardFacts, OldFacts DEF LeftIsChanged
    <3>4. QED
      BY <3>1, <3>2, <3>3 DEF Files
  <2>4. UNCHANGED <<agents, down, processing, sending, container, made, complete, touched,
                    snapshots, rendered, captures, summaries, stray>>
    BY <1>4 DEF UndoOne, undoVars, serviceVars, paneVars, awaitVars
  <2>5. QED
    BY <2>1, <2>2, <2>3, <2>4 DEF TypeOK
<1>5. ASSUME NEW p \in cards[i].left, UndoFails(i, p)
      PROVE  TypeOK'
  <2>1. cards' \in Seq(CardsOf(Len(runs), made))
    BY <1>2, <1>5, CardsUndone
  <2>2. runs' \in Seq(Runs) /\ Len(runs') = Len(runs)
    BY <1>5, SpoilFacts, KeptTypes DEF UndoFails, TypeOK, Disturbances
  <2>3. UNCHANGED <<file, agents, down, processing, sending, container, made, complete, touched,
                    snapshots, rendered, captures, summaries, stray>>
    BY <1>5 DEF UndoFails, undoVars, serviceVars, paneVars, awaitVars
  <2>4. QED
    BY <2>1, <2>2, <2>3 DEF TypeOK
<1>6. QED
  BY <1>3, <1>4, <1>5

\* Cards that are hidden, and have no more left to write than before.
Hidden ==
  /\ DOMAIN cards' = DOMAIN cards
  /\ \A i \in DOMAIN cards :
       /\ cards'[i].run = cards[i].run /\ cards'[i].changes = cards[i].changes
       /\ cards'[i].left \in {{}, cards[i].left} /\ cards'[i].button = cards[i].button

\* What a session that is shown leaves of the cards.
LEMMA CardsShown ==
  ASSUME TypeOK, NEW replayed, NEW answered, OpenSession(replayed, answered) \/ Reload(replayed, answered)
  PROVE  Hidden
<1>1. \/ cards' = [i \in DOMAIN cards |-> [cards[i] EXCEPT !.shown = FALSE]]
      \/ cards' = [i \in DOMAIN cards |-> [cards[i] EXCEPT !.shown = FALSE, !.left = {}]]
  BY DEF OpenSession, Reload
<1>2. DOMAIN cards' = DOMAIN cards
  BY <1>1
<1>3. ASSUME NEW i \in DOMAIN cards
      PROVE  /\ cards'[i].run = cards[i].run /\ cards'[i].changes = cards[i].changes
             /\ cards'[i].left \in {{}, cards[i].left} /\ cards'[i].button = cards[i].button
  <2>1. cards[i] \in CardsOf(Len(runs), made)
    BY CardFacts
  <2>2. \/ cards'[i] = [cards[i] EXCEPT !.shown = FALSE]
        \/ cards'[i] = [cards[i] EXCEPT !.shown = FALSE, !.left = {}]
    BY <1>1
  <2>3. QED
    BY <2>1, <2>2 DEF CardsOf
<1>4. QED
  BY <1>2, <1>3 DEF Hidden

\* The cards there are when a summary has read a file.
LEMMA CardsRead ==
  ASSUME TypeOK, NEW i, NEW after, SummaryReads(i, after)
  PROVE  /\ \A j \in DOMAIN cards : j \in DOMAIN cards' /\ cards'[j] = cards[j]
         /\ \A j \in DOMAIN cards' :
              \/ j \in DOMAIN cards /\ cards'[j] = cards[j]
              \/ /\ LastFile(i, after)
                 /\ cards'[j].run = summaries[i].run /\ cards'[j].changes = Changes(summaries[i], after)
                 /\ cards'[j].left = {} /\ cards'[j].button = "Undo"
         /\ LastFile(i, after) /\ container # 0 =>
              DOMAIN Changes(summaries[i], after) = {} \/ \E j \in DOMAIN cards' : cards'[j].run = summaries[i].run
<1>1. ASSUME NEW p, NextFile(i, p, after)
      PROVE  cards' = cards /\ ~ LastFile(i, after) 
  <2>1. cards' = cards /\ DOMAIN summaries' = DOMAIN summaries
    BY <1>1 DEF NextFile
  <2>2. summaries \in Seq(SummariesOf(Len(runs))) /\ i \in DOMAIN summaries
    BY DEF TypeOK, SummaryReads
  <2>3. LastFile(i, after) => Len(summaries') = Len(summaries) - 1 /\ summaries' \in Seq(SummariesOf(Len(runs)))
    BY <2>2, Removed DEF LastFile
  <2>4. Len(summaries) \in Nat /\ DOMAIN summaries = 1 .. Len(summaries)
    BY <2>2
  <2>5. ASSUME LastFile(i, after)
        PROVE  FALSE
    <3>1. Len(summaries') = Len(summaries) - 1 /\ DOMAIN summaries' = 1 .. Len(summaries')
      BY <2>3, <2>5
    <3>2. Len(summaries) \in DOMAIN summaries /\ Len(summaries) \notin DOMAIN summaries'
      BY <2>2, <2>4, <3>1
    <3>3. QED
      BY <2>1, <3>2
  <2>6. QED
    BY <2>1, <2>5
<1>2. ASSUME LastFile(i, after)
      PROVE  \/ cards' = cards /\ (DOMAIN Changes(summaries[i], after) = {} \/ container = 0)
             \/ \E card : 
                  /\ cards' = Append(cards, card)
                  /\ card.run = summaries[i].run /\ card.changes = Changes(summaries[i], after)
                  /\ card.left = {} /\ card.button = "Undo"
  <2> DEFINE card == [run |-> summaries[i].run, container |-> container, shown |-> TRUE,
                      changes |-> Changes(summaries[i], after), left |-> {}, button |-> "Undo"]
  <2>1. /\ card.run = summaries[i].run /\ card.changes = Changes(summaries[i], after)
        /\ card.left = {} /\ card.button = "Undo"
    OBVIOUS
  <2>2. cards' = IF DOMAIN Changes(summaries[i], after) = {} \/ container = 0 THEN cards ELSE Append(cards, card)
    BY <1>2 DEF LastFile
  <2> HIDE DEF card
  <2>3. QED
    BY <2>1, <2>2
<1>3. ASSUME NEW card, cards' = Append(cards, card)
      PROVE  /\ \A j \in DOMAIN cards : j \in DOMAIN cards' /\ cards'[j] = cards[j]
             /\ \A j \in DOMAIN cards' : (j \in DOMAIN cards /\ cards'[j] = cards[j]) \/ cards'[j] = card
             /\ \E j \in DOMAIN cards' : cards'[j] = card
  <2>1. cards \in Seq(CardsOf(Len(runs), made) \cup {card})
    BY LargerSeq DEF TypeOK
  <2>2. QED
    BY <1>3, <2>1, Added
<1>4. CASE \E p : NextFile(i, p, after)
  BY <1>1, <1>4
<1>5. CASE LastFile(i, after) /\ cards' = cards
  BY <1>1, <1>2, <1>5
<1>6. ASSUME LastFile(i, after), NEW card, cards' = Append(cards, card),
             card.run = summaries[i].run, card.changes = Changes(summaries[i], after), card.left = {}, card.button = "Undo"
      PROVE  /\ \A j \in DOMAIN cards : j \in DOMAIN cards' /\ cards'[j] = cards[j]
             /\ \A j \in DOMAIN cards' :
                  \/ j \in DOMAIN cards /\ cards'[j] = cards[j]
                  \/ /\ LastFile(i, after)
                     /\ cards'[j].run = summaries[i].run /\ cards'[j].changes = Changes(summaries[i], after)
                     /\ cards'[j].left = {} /\ cards'[j].button = "Undo"
             /\ \E j \in DOMAIN cards' : cards'[j].run = summaries[i].run
  BY <1>3, <1>6
<1>7. QED
  BY <1>2, <1>4, <1>5, <1>6, SummaryReadsCases

\* The steps that leave the cards alone, and those that do not.
LEMMA CardSteps ==
  ASSUME Next
  PROVE  \/ UNCHANGED cards
         \/ \E replayed \in Seq(Calls), answered \in BOOLEAN :
              OpenSession(replayed, answered) \/ Reload(replayed, answered)
         \/ \E i \in DOMAIN summaries : \E after \in Contents \cup {Absent} : SummaryReads(i, after)
         \/ \E i \in DOMAIN cards :
              PressUndo(i) \/ \E p \in cards[i].left : UndoOne(i, p) \/ UndoFails(i, p)
BY DEF Next, User, Agent, Pane, SendMessage, WriteElsewhere, Announce, CarryOut, AgentEnds, Submit, CallArrives,
       ResultArrives, AnswerArrives, CaptureReads, CaptureFails, CaptureDone

\* No step gives an undo files its card has no change of.
LEMMA LeftStaysChanged ==
  ASSUME TypeOK, LeftIsChanged, Next
  PROVE  LeftIsChanged'
<1>1. CASE UNCHANGED cards
  BY <1>1 DEF LeftIsChanged
<1>2. ASSUME NEW replayed, NEW answered, OpenSession(replayed, answered) \/ Reload(replayed, answered)
      PROVE  LeftIsChanged'
  BY <1>2, CardsShown DEF LeftIsChanged, Hidden
<1>3. ASSUME NEW i, NEW after, SummaryReads(i, after)
      PROVE  LeftIsChanged'
  BY <1>3, CardsRead DEF LeftIsChanged
<1>4. ASSUME NEW i \in DOMAIN cards,
             PressUndo(i) \/ \E p \in cards[i].left : UndoOne(i, p) \/ UndoFails(i, p)
      PROVE  LeftIsChanged'
  <2>1. \E left \in SUBSET DOMAIN cards[i].changes : \E button : OnlyCard(i, left, button)
    <3>1. cards[i].left \subseteq DOMAIN cards[i].changes
      BY DEF LeftIsChanged
    <3>2. QED
      BY <1>4, <3>1, CardsUndone DEF UndoOne
  <2>2. PICK left \in SUBSET DOMAIN cards[i].changes : \E button : OnlyCard(i, left, button)
    BY <2>1
  <2>3. ASSUME NEW j \in DOMAIN cards
        PROVE  cards'[j].left \subseteq DOMAIN cards'[j].changes
    BY <2>2 DEF OnlyCard, LeftIsChanged
  <2>4. QED
    BY <2>2, <2>3 DEF OnlyCard, LeftIsChanged
<1>5. QED
  BY <1>1, <1>2, <1>3, <1>4, CardSteps

\* Every step keeps the types.
LEMMA NextTypes ==
  ASSUME TypeOK, LeftIsChanged, Next
  PROVE  TypeOK'
<1>1. CASE User
  <2>1. ASSUME NEW replayed \in Seq(Calls), NEW answered \in BOOLEAN,
               OpenSession(replayed, answered) \/ Reload(replayed, answered)
        PROVE  TypeOK'
    BY <2>1, OpenSessionTypes, ReloadTypes
  <2>2. ASSUME NEW p \in Paths, NEW c \in Contents \cup {Absent}, WriteElsewhere(p, c)
        PROVE  TypeOK'
    BY <2>2, WriteElsewhereTypes
  <2>3. ASSUME NEW i \in DOMAIN cards, PressUndo(i)
        PROVE  TypeOK'
    BY <2>3, UndoTypes
  <2>4. QED
    BY <1>1, <2>1, <2>2, <2>3, SendMessageTypes DEF User
<1>2. CASE Agent
  BY <1>2, AnnounceTypes, CarryOutTypes, AgentEndsTypes DEF Agent
<1>3. CASE Pane
  <2>1. ASSUME NEW i \in DOMAIN captures, CaptureReads(i) \/ CaptureFails(i) \/ CaptureDone(i)
        PROVE  TypeOK'
    BY <2>1, CaptureReadsTypes, CaptureFailsTypes, CaptureDoneTypes
  <2>2. ASSUME NEW i \in DOMAIN cards, NEW p \in cards[i].left, UndoOne(i, p) \/ UndoFails(i, p)
        PROVE  TypeOK'
    BY <2>2, UndoTypes
  <2>3. QED
    BY <1>3, <2>1, <2>2, SubmitTypes, CallArrivesTypes, ResultArrivesTypes, AnswerArrivesTypes,
       SummaryReadsTypes
    DEF Pane
<1>4. QED
  BY <1>1, <1>2, <1>3 DEF Next

\* No step at all keeps everything.
LEMMA TypesStutter ==
  ASSUME TypeOK, LeftIsChanged, UNCHANGED vars
  PROVE  TypeOK' /\ LeftIsChanged'
BY DEF TypeOK, LeftIsChanged, vars, serviceVars, paneVars, awaitVars, ghostVars

\* The types hold at first.
LEMMA InitTypes ==
  ASSUME Init
  PROVE  TypeOK /\ LeftIsChanged
<1>1. /\ <<>> \in Seq(Paths) /\ <<>> \in Seq(EventsOf(Len(runs))) /\ <<>> \in Seq(Captures)
      /\ <<>> \in Seq(SummariesOf(Len(runs))) /\ <<>> \in Seq(CardsOf(Len(runs), made)) /\ <<>> \in Seq(Runs)
      /\ DOMAIN <<>> = {}
  OBVIOUS
<1>2. processing \in 0 .. Len(runs) /\ container \in 0 .. made /\ made \in Nat /\ sending \in Nat
      /\ complete \subseteq 1 .. made /\ touched \subseteq Paths
  <2>1. Len(<<>>) = 0
    OBVIOUS
  <2>2. QED
    BY <2>1 DEF Init
<1>3. TypeOK
  <2>1. /\ file \in Files /\ agents = <<>> /\ down = <<>> /\ snapshots = <<>>
        /\ rendered \in BOOLEAN /\ captures = <<>> /\ summaries = <<>> /\ cards = <<>> /\ runs = <<>>
        /\ stray \in BOOLEAN
    BY DEF Init
  <2>2. agents \in [DOMAIN agents -> Seq(Paths)] /\ DOMAIN agents \subseteq 1 .. Len(runs)
    BY <1>1, <2>1
  <2>3. QED
    BY <1>1, <1>2, <2>1, <2>2, NoContents DEF TypeOK
<1>4. LeftIsChanged
  BY <1>1 DEF Init, LeftIsChanged
<1>5. QED
  BY <1>3, <1>4

\* The pane's fields, what is on its way and what is on show always have
\* their types: whatever the agent announces, reads and cards keep to the
\* files of the workspace (captureRunFileSnapshots, addRunSummaryCard,
\* undoRunChanges).
THEOREM TypeCorrect ==
  Spec => []TypeOK
<1>1. Init => TypeOK /\ LeftIsChanged
  BY InitTypes
<1>2. TypeOK /\ LeftIsChanged /\ [Next]_vars => (TypeOK /\ LeftIsChanged)'
  BY NextTypes, LeftStaysChanged, TypesStutter
<1>3. QED
  BY <1>1, <1>2, PTL DEF Spec

-----------------------------------------------------------------------------
(* The invariant *)

\* The last run, and runs that nobody disturbed.
Newest == Len(runs)
Good(R, r) == r \in DOMAIN R /\ R[r].spoilt = "no"

\* An agent is at work, or the pane has not handled its result.
Working == DOMAIN agents # {} \/ \E i \in DOMAIN down : down[i].kind = "result"

\* The files whose text is not what it was.
Different(f, base) == {p \in Paths : AsText(f[p]) # AsText(base[p])}

\* The files an undo has still to write: neither do they have the text they
\* had, nor are they what it is written as.
Unrestored(f, base) == {p \in Paths : AsText(base[p]) \notin {f[p], AsText(f[p])}}

\* What is known of old contents is the text that was there.
Agrees(s, base) == \A p \in DOMAIN s : s[p] = AsText(base[p])

\* The run that holds the guard is the only one that is not done, and the one
\* answer on its way is its own.
Stream ==
  /\ \A r \in DOMAIN runs : ~ runs[r].done => r = Newest /\ processing = r
  /\ processing # 0 => ~ runs[processing].done
  /\ \A i \in DOMAIN down :
       down[i].kind = "answer" =>
         /\ down[i].run = processing /\ processing \notin DOMAIN agents /\ processing # 0
         /\ \A j \in DOMAIN down : down[j].kind = "answer" => j = i

\* An undisturbed run is alone: no agent of an earlier page is at work beside
\* its own.  Its events come in order, a result is the last but one, an answer
\* the last, and it has a result unless it fails.
Alone ==
  /\ \A r \in DOMAIN agents : Good(runs, r) => ~ runs[r].done
  /\ \A i \in DOMAIN down : Good(runs, down[i].run) => ~ runs[down[i].run].done
  /\ Good(runs, Newest) =>
       /\ DOMAIN agents \subseteq {Newest}
       /\ \A i \in DOMAIN down :
            /\ down[i].run = Newest
            /\ down[i].kind = "answer" => i = Len(down) /\ DOMAIN agents = {}
            /\ down[i].kind = "result" =>
                 i + 1 = Len(down) /\ down[i + 1].kind = "answer" /\ DOMAIN agents = {}
            /\ down[i].kind = "call" => Working

\* A run that does not start among leftovers starts with nothing.
Fresh ==
  sending > 0 /\ ~ stray =>
    /\ touched = {} /\ snapshots = <<>> /\ captures = <<>> /\ container = 0 /\ ~ rendered
    /\ Open = {} /\ DOMAIN agents = {} /\ down = <<>>

\* Captures C read different files, none of which is known in s, and what
\* they have read is what was there; t is what has been touched.
CapturesAgree(C, s, t, base) ==
  /\ Agrees(s, base)
  /\ \A i \in DOMAIN C :
       Head(C[i].left) \notin DOMAIN s /\ C[i].text \in {Unread, AsText(base[Head(C[i].left)])}
  /\ \A i, j \in DOMAIN C : i # j => ToSet(C[i].left) \cap ToSet(C[j].left) = {}
  /\ t = DOMAIN s \cup {Head(C[i].left) : i \in DOMAIN C}

\* A file that has been read is known, or will be when its capture goes on.
ReadIsKept(C, s, safe) ==
  \A p \in safe : p \in DOMAIN s \/ \E i \in DOMAIN C : C[i].text # Unread /\ Head(C[i].left) = p

\* While the agent works, what it has changed was read before.
Work ==
  Working /\ Good(runs, Newest) =>
    /\ summaries = <<>>
    /\ \A i \in DOMAIN cards : cards[i].run # Newest
    /\ Different(file, runs[Newest].base) \subseteq runs[Newest].safe
    /\ ReadIsKept(captures, snapshots, runs[Newest].safe)
    /\ CapturesAgree(captures, snapshots, touched, runs[Newest].base)
    /\ ~ rendered /\ container \notin complete
    /\ touched # {} => container # 0

\* While the card is made, which happens once, every file the run has changed
\* is among those that are read again, and is in the changes once it has been
\* read.
Covers(f, s, t, base) ==
  /\ t = DOMAIN s /\ Agrees(s, base)
  /\ Different(f, base) \subseteq t

SumsUp(f, t, s, base) ==
  /\ s.before = AsText(base[s.path]) /\ s.path \in s.seen /\ s.seen \subseteq t
  /\ Agrees(s.changes, base)
  /\ Different(f, base) \cap (s.seen \ {s.path}) \subseteq DOMAIN s.changes

Summing ==
  \A i \in DOMAIN summaries :
    Good(runs, summaries[i].run) =>
      /\ summaries[i].run = Newest /\ ~ Working
      /\ DOMAIN summaries = {i} /\ \A j \in DOMAIN cards : cards[j].run # Newest
      /\ captures = <<>> /\ container # 0
      /\ Covers(file, snapshots, touched, runs[summaries[i].run].base)
      /\ SumsUp(file, touched, summaries[i], runs[summaries[i].run].base)

\* A card has every file its run has changed; an undo under way has those
\* that are still to be written.
Restores(f, card, base) ==
  /\ Agrees(card.changes, base)
  /\ Unrestored(f, base) \subseteq DOMAIN card.changes
  /\ card.left # {} => card.button = "Undoing..." /\ Unrestored(f, base) \subseteq card.left
  /\ card.button = "Undone" => Unrestored(f, base) = {}

Carded ==
  \A i \in DOMAIN cards :
    Good(runs, cards[i].run) => Restores(file, cards[i], runs[cards[i].run].base)

\* The run's card is still to come.
Awaited(r) == (r = Newest /\ Working) \/ \E i \in DOMAIN summaries : summaries[i].run = r

HasCard ==
  \A r \in DOMAIN runs :
    Good(runs, r) /\ ~ Awaited(r) => Different(file, runs[r].base) = {} \/ \E i \in DOMAIN cards : cards[i].run = r

IInv == TypeOK /\ LeftIsChanged /\ Stream /\ Alone /\ Fresh /\ Work /\ Summing /\ Carded /\ HasCard

-----------------------------------------------------------------------------
(* Steps that leave a part alone *)

\* Undisturbed runs of the new history were undisturbed, with the same start.
Spares(new) ==
  /\ DOMAIN new = DOMAIN runs
  /\ \A r : Good(new, r) => Good(runs, r) /\ new[r].base = runs[r].base

\* The runs are those there were, but for what was read of them.
Follows(new) ==
  /\ Len(new) = Len(runs) /\ DOMAIN new = DOMAIN runs
  /\ \A r \in DOMAIN runs :
       /\ new[r].base = runs[r].base /\ new[r].done = runs[r].done
       /\ new[r].spoilt = "no" => runs[r].spoilt = "no"

\* Runs that were only disturbed follow the old ones.
LEMMA KeptFollows ==
  ASSUME NEW new, Keeps(new)
  PROVE  Follows(new) /\ Spares(new)
BY DEF Keeps, Follows, Spares, Good

\* A run that is good was good.
LEMMA GoodBefore ==
  ASSUME NEW new, Follows(new)
  PROVE  Spares(new)
BY DEF Follows, Spares, Good

\* The last run is still the last.
LEMMA SameNewest ==
  ASSUME Follows(runs')
  PROVE  Newest' = Newest /\ DOMAIN runs' = DOMAIN runs /\ (Good(runs', Newest) => Good(runs, Newest))
BY DEF Follows, Newest, Good

\* A step that leaves the agents' events alone.
LEMMA StreamFrame ==
  ASSUME TypeOK, Stream, Alone, Follows(runs'), DOMAIN agents' = DOMAIN agents, UNCHANGED <<down, processing>>
  PROVE  Stream' /\ Alone' /\ Working' = Working
<1>1. Newest' = Newest /\ DOMAIN runs' = DOMAIN runs /\ (Good(runs', Newest) => Good(runs, Newest))
  BY SameNewest
<1>2. Working' = Working
  BY DEF Working
<1>3. \A r \in DOMAIN runs : runs'[r].done = runs[r].done
  BY DEF Follows
<1>4. \A r : Good(runs', r) => Good(runs, r) /\ r \in DOMAIN runs
  BY <1>1 DEF Follows, Good
<1>5. processing # 0 => processing \in DOMAIN runs
  BY DEF TypeOK
<1>6. Stream'
  BY <1>1, <1>3, <1>5 DEF Stream
<1>7. Alone'
  BY <1>1, <1>2, <1>3, <1>4 DEF Alone
<1>8. QED
  BY <1>2, <1>6, <1>7

\* An agent at work, and a result on its way, are those of the last run, and
\* keep it open, if that run is undisturbed.
LEMMA BusyOpen ==
  ASSUME Alone, Working, Good(runs, Newest)
  PROVE  Newest \in Open /\ Newest \in DOMAIN runs /\ ~ runs[Newest].done
<1>1. Newest \in DOMAIN runs
  BY DEF Good
<1>2. ~ runs[Newest].done
  BY DEF Alone, Working
<1>3. QED
  BY <1>1, <1>2 DEF Open

\* A step among leftovers.
LEMMA FreshVacuous ==
  ASSUME Fresh, UNCHANGED <<sending, stray>>,
         Open # {} \/ captures # <<>> \/ DOMAIN agents # {} \/ down # <<>>
  PROVE  Fresh'
BY DEF Fresh

\* A run is open as long as it is not done or summed up.
LEMMA SameOpen ==
  ASSUME Follows(runs'), DOMAIN summaries' = DOMAIN summaries,
         \A i \in DOMAIN summaries : summaries'[i].run = summaries[i].run
  PROVE  Open' = Open
BY DEF Follows, Open

\* A step that leaves what the next run starts with alone.
LEMMA FreshFrame ==
  ASSUME Fresh, Follows(runs'),
         UNCHANGED <<agents, down, sending, stray, touched, snapshots, captures, container, rendered, summaries>>
  PROVE  Fresh'
<1>1. Open' = Open
  BY SameOpen
<1>2. QED
  BY <1>1 DEF Fresh

\* A step that leaves the files and what the cards restore alone.
LEMMA CardedFrame ==
  ASSUME TypeOK, Carded, Spares(runs'), UNCHANGED file, Hidden \/ UNCHANGED cards
  PROVE  Carded'
<1>1. ASSUME NEW i \in DOMAIN cards', Good(runs', cards'[i].run)
      PROVE  Restores(file', cards'[i], runs'[cards'[i].run].base)
  <2>1. /\ i \in DOMAIN cards /\ cards'[i].run = cards[i].run /\ cards'[i].changes = cards[i].changes
        /\ cards'[i].left \in {{}, cards[i].left} /\ cards'[i].button = cards[i].button
    BY DEF Hidden
  <2>2. Good(runs, cards[i].run) /\ runs'[cards[i].run].base = runs[cards[i].run].base
    BY <1>1, <2>1 DEF Spares
  <2>3. Restores(file, cards[i], runs[cards[i].run].base)
    BY <2>1, <2>2 DEF Carded
  <2>4. QED
    BY <2>1, <2>2, <2>3 DEF Restores
<1>2. QED
  BY <1>1 DEF Carded

\* A step that leaves the files alone and takes no card away.
LEMMA HasCardFrame ==
  ASSUME HasCard, Spares(runs'), UNCHANGED file,
         \A i \in DOMAIN cards : \E j \in DOMAIN cards' : cards'[j].run = cards[i].run,
         \A r \in DOMAIN runs : Good(runs', r) /\ Awaited(r) => Awaited(r)'
  PROVE  HasCard'
<1>1. ASSUME NEW r \in DOMAIN runs', Good(runs', r), ~ Awaited(r)'
      PROVE  Different(file', runs'[r].base) = {} \/ \E i \in DOMAIN cards' : cards'[i].run = r
  <2>1. Good(runs, r) /\ runs'[r].base = runs[r].base /\ r \in DOMAIN runs
    BY <1>1 DEF Spares
  <2>2. ~ Awaited(r)
    BY <1>1, <2>1
  <2>3. Different(file, runs[r].base) = {} \/ \E i \in DOMAIN cards : cards[i].run = r
    BY <2>1, <2>2 DEF HasCard
  <2>4. QED
    BY <2>1, <2>3 DEF Different
<1>2. QED
  BY <1>1 DEF HasCard

\* Work that goes on as before, but for what is read.
LEMMA NoWork ==
  ASSUME ~ (Working' /\ Good(runs', Newest'))
  PROVE  Work'
BY DEF Work

\* Summaries of disturbed runs only.
LEMMA NoSumming ==
  ASSUME \A i \in DOMAIN summaries' : ~ Good(runs', summaries'[i].run)
  PROVE  Summing'
BY DEF Summing

\* The part of the invariant that is not about types.
Kept == Stream /\ Alone /\ Fresh /\ Work /\ Summing /\ Carded /\ HasCard

-----------------------------------------------------------------------------
(* The user's messages and sessions *)

\* Clearing spares only runs that have been seen to the end.
LEMMA ClearedKeeps ==
  ASSUME IInv, runs' = Spoil(Open, "cleared"), UNCHANGED <<file, agents, down, processing>>,
         summaries' = [i \in DOMAIN summaries |-> [summaries[i] EXCEPT !.seen = {}]],
         Hidden \/ UNCHANGED cards
  PROVE  /\ Stream' /\ Alone' /\ Work' /\ Summing' /\ Carded' /\ HasCard'
         /\ Open' = Open /\ DOMAIN summaries' = DOMAIN summaries
<1>1. Keeps(runs') /\ \A r \in DOMAIN runs : runs'[r].spoilt = "no" => r \notin Open
  BY SpoilFacts DEF IInv, TypeOK, Disturbances
<1>2. Follows(runs') /\ Spares(runs')
  BY <1>1, KeptFollows
<1>3. Newest' = Newest /\ DOMAIN runs' = DOMAIN runs /\ (Good(runs', Newest) => Good(runs, Newest))
  BY <1>2, SameNewest
<1>4. \A r : Good(runs', r) => r \notin Open
  BY <1>1, <1>3 DEF Good
<1>5. DOMAIN summaries' = DOMAIN summaries /\ \A i \in DOMAIN summaries : summaries'[i].run = summaries[i].run
  BY SeenAgain DEF IInv
<1>6. Stream' /\ Alone' /\ Carded' /\ Working' = Working
  BY <1>2, StreamFrame, CardedFrame DEF IInv
<1>7. Working => ~ Good(runs', Newest)
  BY <1>3, <1>4, BusyOpen DEF IInv
<1>8. Work'
  BY <1>3, <1>6, <1>7, NoWork
<1>9. Summing'
  <2>1. \A i \in DOMAIN summaries : summaries[i].run \in Open
    BY DEF Open
  <2>2. QED
    BY <1>4, <1>5, <2>1, NoSumming
<1>10. HasCard'
  <2>1. ASSUME NEW r \in DOMAIN runs, Good(runs', r), Awaited(r)
        PROVE  Awaited(r)'
    BY <1>5, <1>7, <2>1 DEF Awaited
  <2>2. \A i \in DOMAIN cards : \E j \in DOMAIN cards' : cards'[j].run = cards[i].run
    BY DEF Hidden
  <2>3. QED
    BY <1>2, <2>1, <2>2, HasCardFrame DEF IInv
<1>11. Open' = Open
  BY <1>2, <1>5, SameOpen
<1>12. QED
  BY <1>5, <1>6, <1>8, <1>9, <1>10, <1>11

\* A message clears the pane, which disturbs the runs still open.
LEMMA SendMessageInv ==
  ASSUME IInv, SendMessage
  PROVE  Kept'
<1>1. Stream' /\ Alone' /\ Work' /\ Summing' /\ Carded' /\ HasCard' /\ Open' = Open
  BY ClearedKeeps DEF SendMessage, Clear
<1>2. Fresh'
  BY <1>1 DEF SendMessage, Clear, Fresh
<1>3. QED
  BY <1>1, <1>2 DEF Kept

\* So does a session that is opened.
LEMMA OpenSessionInv ==
  ASSUME IInv, NEW replayed, NEW answered, OpenSession(replayed, answered)
  PROVE  Kept'
<1>1. Hidden
  BY CardsShown DEF IInv
<1>2. /\ runs' = Spoil(Open, "cleared") /\ UNCHANGED <<file, agents, down, processing, sending>>
      /\ summaries' = [i \in DOMAIN summaries |-> [summaries[i] EXCEPT !.seen = {}]]
      /\ stray' = (stray \/ sending > 0)
  BY DEF OpenSession, serviceVars
<1>3. Stream' /\ Alone' /\ Work' /\ Summing' /\ Carded' /\ HasCard'
  BY <1>1, <1>2, ClearedKeeps
<1>4. Fresh'
  BY <1>2 DEF Fresh
<1>5. QED
  BY <1>3, <1>4 DEF Kept

\* A page that is loaded again knows of no run; those that were open are
\* disturbed, whether their agents go on or not.
LEMMA ReloadInv ==
  ASSUME IInv, NEW replayed, NEW answered, Reload(replayed, answered)
  PROVE  Kept'
<1>1. /\ Len(runs') = Len(runs) /\ DOMAIN runs' = DOMAIN runs
      /\ \A r \in DOMAIN runs :
           /\ runs'[r].base = runs[r].base /\ runs'[r].done
           /\ runs'[r].spoilt = "no" => runs[r].spoilt = "no" /\ r \notin Open
  BY ReloadRuns DEF IInv
<1>2. /\ summaries' = <<>> /\ down' = <<>> /\ processing' = 0 /\ sending' = 0
      /\ UNCHANGED <<file, agents>>
  BY DEF Reload
<1>3. DOMAIN summaries' = {} /\ DOMAIN down' = {}
  BY <1>2, NoContents
<1>4. Newest' = Newest /\ Spares(runs')
  BY <1>1 DEF Newest, Spares, Good
<1>5. \A r : Good(runs', r) => Good(runs, r) /\ r \notin Open /\ runs[r].done
  BY <1>1 DEF Good, Open
<1>6. \A r \in DOMAIN agents : ~ Good(runs', r)
  BY <1>5 DEF IInv, Alone
<1>7. Good(runs', Newest) => DOMAIN agents = {} /\ ~ Working /\ ~ Working'
  <2>1. ASSUME Good(runs', Newest)
        PROVE  DOMAIN agents = {} /\ ~ Working
    <3>1. Good(runs, Newest) /\ Newest \notin Open
      BY <1>5, <2>1
    <3>2. DOMAIN agents \subseteq {Newest}
      BY <3>1 DEF IInv, Alone
    <3>3. ~ Working
      BY <3>1, BusyOpen DEF IInv
    <3>4. QED
      BY <1>6, <2>1, <3>2, <3>3
  <2>2. QED
    BY <1>2, <1>3, <2>1 DEF Working
<1>8. Stream'
  BY <1>1, <1>2, <1>3 DEF Stream
<1>9. Alone'
  BY <1>2, <1>3, <1>4, <1>6, <1>7 DEF Alone
<1>10. Fresh'
  <2>1. ~ (sending' > 0)
    BY <1>2
  <2>2. QED
    BY <2>1 DEF Fresh
<1>11. Work' /\ Summing'
  BY <1>3, <1>4, <1>7, NoWork, NoSumming
<1>12. Hidden
  BY CardsShown DEF IInv
<1>13. Carded'
  BY <1>2, <1>4, <1>12, CardedFrame DEF IInv
<1>14. HasCard'
  <2>1. ASSUME NEW r \in DOMAIN runs, Good(runs', r)
        PROVE  ~ Awaited(r)
    BY <1>5, <1>7, <2>1 DEF Awaited, Open
  <2>2. \A i \in DOMAIN cards : \E j \in DOMAIN cards' : cards'[j].run = cards[i].run
    BY <1>12 DEF Hidden
  <2>3. QED
    BY <1>2, <1>4, <2>1, <2>2, HasCardFrame DEF IInv
<1>15. QED
  BY <1>8, <1>9, <1>10, <1>11, <1>13, <1>14 DEF Kept

\* A message that finds the guard held is refused.
LEMMA RefusedInv ==
  ASSUME IInv, Submit, processing # 0
  PROVE  Kept'
<1>1. /\ sending' = sending - 1 /\ sending > 0
      /\ UNCHANGED <<file, agents, down, processing, container, made, complete, touched, snapshots, rendered,
                     captures, summaries, cards, runs, stray>>
  BY DEF Submit, paneVars, awaitVars, ghostVars
<1>2. Follows(runs') /\ Spares(runs')
  BY <1>1, SameRuns, KeptFollows DEF IInv, TypeOK
<1>3. Newest' = Newest /\ Open' = Open
  BY <1>1 DEF Newest, Open
<1>4. Stream' /\ Alone' /\ Working' = Working /\ Carded'
  BY <1>1, <1>2, StreamFrame, CardedFrame DEF IInv
<1>5. Fresh'
  BY <1>1, <1>3 DEF IInv, Fresh
<1>6. Work' /\ Summing'
  BY <1>1, <1>3, <1>4 DEF IInv, Work, Summing
<1>7. HasCard'
  BY <1>1, <1>3, <1>4 DEF IInv, HasCard, Awaited
<1>8. QED
  BY <1>4, <1>5, <1>6, <1>7 DEF Kept

\* A run that begins finds nothing of another, or counts as cleared.
LEMMA BeginsInv ==
  ASSUME IInv, Submit, processing = 0
  PROVE  Kept'
<1> DEFINE run == [base |-> file, safe |-> {}, done |-> FALSE, spoilt |-> IF stray THEN "cleared" ELSE "no"]
           spoilt == Spoil(Open, "overtaken")
           n == Len(runs) + 1
<1>1. /\ runs' = Append(spoilt, run) /\ processing' = n /\ stray' = (sending > 1)
      /\ sending' = sending - 1 /\ sending > 0
      /\ DOMAIN agents' = DOMAIN agents \cup {n}
  BY DEF Submit
<1>2. UNCHANGED <<file, down, container, made, complete, touched, snapshots, rendered, captures, summaries, cards>>
  BY DEF Submit, paneVars, awaitVars
<1>3. Keeps(spoilt) /\ \A r \in DOMAIN runs : spoilt[r].spoilt = "no" => r \notin Open
  BY SpoilFacts DEF IInv, TypeOK, Disturbances
<1>4. run \in Runs /\ run.base = file /\ run.safe = {} /\ run.done = FALSE /\ (run.spoilt = "no" => ~ stray)
  BY DEF Runs, IInv, TypeOK, Disturbances
<1> HIDE DEF run, spoilt
<1>5. /\ Len(runs') = n /\ n \in DOMAIN runs' /\ runs'[n] = run
      /\ \A r \in DOMAIN runs : r \in DOMAIN runs' /\ runs'[r] = spoilt[r]
      /\ \A r \in DOMAIN runs' : r = n \/ r \in DOMAIN runs
  BY <1>1, <1>3, <1>4, Added DEF Keeps
<1>6. Len(runs) \in Nat /\ DOMAIN runs = 1 .. Len(runs) /\ n \notin DOMAIN runs /\ n # 0
  BY DEF IInv, TypeOK
<1>7. \A r \in DOMAIN runs : runs[r].done
  BY <1>6 DEF IInv, Stream
<1>8. ASSUME NEW r \in DOMAIN runs
      PROVE  /\ runs'[r].base = runs[r].base /\ runs'[r].done
             /\ Good(runs', r) => Good(runs, r) /\ r \notin Open
  BY <1>3, <1>5, <1>7 DEF Keeps, Good
<1>9. Newest' = n /\ Working'
  BY <1>1, <1>5 DEF Newest, Working
<1>10. \A r \in DOMAIN agents : ~ Good(runs, r)
  BY <1>7 DEF IInv, Alone, Good
<1>11. \A i \in DOMAIN down : ~ Good(runs, down[i].run) /\ down[i].run \in DOMAIN runs
  BY <1>7, EventFacts DEF IInv, Alone, Good
<1>12. Good(runs', n) =>
         /\ touched = {} /\ snapshots = <<>> /\ captures = <<>> /\ container = 0 /\ ~ rendered
         /\ Open = {} /\ DOMAIN agents = {} /\ down = <<>>
  BY <1>1, <1>4, <1>5 DEF IInv, Fresh, Good
<1>13. Stream'
  <2>1. \A r \in DOMAIN runs' : ~ runs'[r].done => r = n
    BY <1>5, <1>8
  <2>2. ~ runs'[n].done
    BY <1>4, <1>5
  <2>3. \A i \in DOMAIN down' : down'[i].kind # "answer"
    BY <1>2 DEF IInv, Stream
  <2>4. QED
    BY <1>1, <1>9, <2>1, <2>2, <2>3 DEF Stream
<1>14. Alone'
  <2>1. \A r \in DOMAIN agents' : Good(runs', r) => ~ runs'[r].done
    <3>1. \A r \in DOMAIN agents : r \in DOMAIN runs
      BY AgentFacts DEF IInv
    <3>2. QED
      BY <1>1, <1>4, <1>5, <1>8, <1>10, <3>1
  <2>2. \A i \in DOMAIN down' : ~ Good(runs', down'[i].run)
    BY <1>2, <1>8, <1>11
  <2>3. Good(runs', n) => DOMAIN agents' \subseteq {n} /\ DOMAIN down' = {}
    BY <1>1, <1>2, <1>12, NoContents
  <2>4. QED
    BY <1>9, <2>1, <2>2, <2>3 DEF Alone
<1>15. Fresh'
  <2>1. sending' > 0 => stray'
    <3>1. sending \in Nat
      BY DEF IInv, TypeOK
    <3>2. sending' > 0 => sending > 1
      <4>1. sending' = sending - 1
        BY <1>1
      <4>2. QED
        BY <3>1, <4>1
    <3>3. sending > 1 => stray'
      BY <1>1, Zenon
    <3>4. QED
      BY <3>2, <3>3
  <2>2. QED
    BY <2>1 DEF Fresh
<1>16. Work'
  <2> SUFFICES ASSUME Good(runs', n)
               PROVE  Work'
    BY <1>9, NoWork
  <2>1. /\ touched = {} /\ snapshots = <<>> /\ captures = <<>> /\ container = 0 /\ ~ rendered
        /\ Open = {}
    BY <1>12
  <2>2. summaries = <<>>
    <3>1. summaries \in Seq(SummariesOf(Len(runs))) /\ DOMAIN summaries = {}
      BY <2>1 DEF Open, IInv, TypeOK
    <3>2. Len(summaries) = 0
      BY <3>1
    <3>3. QED
      BY <3>1, <3>2
  <2>3. \A i \in DOMAIN cards : cards[i].run # n
    BY <1>6, CardFacts DEF IInv
  <2>4. runs'[n].base = file /\ runs'[n].safe = {}
    BY <1>4, <1>5
  <2>5. Different(file, file) \subseteq {}
    BY DEF Different
  <2>6. ReadIsKept(<<>>, <<>>, {})
    BY DEF ReadIsKept
  <2>7. CapturesAgree(<<>>, <<>>, {}, file)
    BY NoContents DEF CapturesAgree, Agrees
  <2>8. container \notin complete
    BY <2>1 DEF IInv, TypeOK
  <2>9. QED
    BY <1>2, <1>9, <2>1, <2>2, <2>3, <2>4, <2>5, <2>6, <2>7, <2>8 DEF Work
<1>17. Summing'
  <2>1. ASSUME NEW i \in DOMAIN summaries
        PROVE  ~ Good(runs', summaries[i].run)
    <3>1. summaries[i].run \in DOMAIN runs /\ summaries[i].run \in Open
      BY SummaryFacts DEF IInv, Open
    <3>2. QED
      BY <1>8, <3>1
  <2>2. QED
    BY <1>2, <2>1, NoSumming
<1>18. Carded'
  <2>1. ASSUME NEW i \in DOMAIN cards, Good(runs', cards[i].run)
        PROVE  Restores(file, cards[i], runs'[cards[i].run].base)
    <3>1. cards[i].run \in DOMAIN runs
      BY CardFacts DEF IInv
    <3>2. Good(runs, cards[i].run) /\ runs'[cards[i].run].base = runs[cards[i].run].base
      BY <1>8, <2>1, <3>1
    <3>3. QED
      BY <3>2 DEF IInv, Carded
  <2>2. QED
    BY <1>2, <2>1 DEF Carded
<1>19. HasCard'
  <2>1. ASSUME NEW r \in DOMAIN runs', Good(runs', r), ~ Awaited(r)'
        PROVE  Different(file, runs'[r].base) = {} \/ \E i \in DOMAIN cards : cards[i].run = r
    <3>1. r # n /\ r \in DOMAIN runs
      BY <1>5, <1>9, <2>1 DEF Awaited
    <3>2. Good(runs, r) /\ runs'[r].base = runs[r].base /\ r \notin Open
      BY <1>8, <2>1, <3>1
    <3>3. ~ (r = Newest /\ Working)
      BY <3>2, BusyOpen DEF IInv
    <3>4. ~ Awaited(r)
      BY <1>2, <2>1, <3>3 DEF Awaited
    <3>5. QED
      BY <3>1, <3>2, <3>4 DEF IInv, HasCard
  <2>2. QED
    BY <1>2, <2>1 DEF HasCard, Different
<1>20. QED
  BY <1>13, <1>14, <1>15, <1>16, <1>17, <1>18, <1>19 DEF Kept

\* A message that reaches the service.
LEMMA SubmitInv ==
  ASSUME IInv, Submit
  PROVE  Kept'
BY RefusedInv, BeginsInv

\* A file written by others disturbs all runs.
LEMMA WriteElsewhereInv ==
  ASSUME IInv, NEW p, NEW c, WriteElsewhere(p, c)
  PROVE  Kept'
<1>1. Keeps(runs') /\ \A r \in DOMAIN runs : runs'[r].spoilt # "no"
  BY SpoilFacts DEF WriteElsewhere, IInv, TypeOK, Disturbances
<1>2. Follows(runs') /\ \A r : ~ Good(runs', r)
  BY <1>1, KeptFollows DEF Keeps, Good
<1>3. UNCHANGED <<agents, down, processing, sending, stray, touched, snapshots, captures, container, rendered,
                  summaries>>
  BY DEF WriteElsewhere, serviceVars, paneVars, awaitVars
<1>4. Stream' /\ Alone' /\ Fresh'
  BY <1>2, <1>3, StreamFrame, FreshFrame DEF IInv
<1>5. Work' /\ Summing' /\ Carded' /\ HasCard'
  BY <1>2 DEF Work, Summing, Carded, HasCard
<1>6. QED
  BY <1>4, <1>5 DEF Kept

-----------------------------------------------------------------------------
(* The agent *)

\* While an agent is at work no card is made of an undisturbed run; if the
\* last run is undisturbed it is the agent's, and so far has only called.
LEMMA AgentBusy ==
  ASSUME IInv, NEW r \in DOMAIN agents
  PROVE  /\ r \in DOMAIN runs /\ Working
         /\ \A i \in DOMAIN summaries : ~ Good(runs, summaries[i].run)
         /\ Good(runs, r) => r = Newest
         /\ Good(runs, Newest) =>
              /\ r = Newest /\ DOMAIN agents = {r} /\ ~ runs[r].done /\ processing = r
              /\ \A i \in DOMAIN down : down[i].run = Newest /\ down[i].kind = "call"
<1>1. r \in DOMAIN runs
  BY AgentFacts DEF IInv
<1>2. Working
  BY DEF Working
<1>3. \A i \in DOMAIN summaries : ~ Good(runs, summaries[i].run)
  BY <1>2 DEF IInv, Summing
<1>4. Good(runs, r) => r = Newest
  BY <1>1 DEF IInv, Alone, Stream
<1>5. ASSUME Good(runs, Newest)
      PROVE  /\ r = Newest /\ DOMAIN agents = {r} /\ ~ runs[r].done /\ processing = r
             /\ \A i \in DOMAIN down : down[i].run = Newest /\ down[i].kind = "call"
  <2>1. r = Newest /\ DOMAIN agents = {r}
    BY <1>5 DEF IInv, Alone
  <2>2. ~ runs[r].done /\ processing = r
    BY <1>1, <1>5, <2>1 DEF IInv, Alone, Stream
  <2>3. \A i \in DOMAIN down : down[i].kind \in {"call", "result", "answer"}
    BY EventFacts DEF IInv
  <2>4. \A i \in DOMAIN down : down[i].run = Newest /\ down[i].kind = "call"
    BY <1>5, <2>1, <2>3 DEF IInv, Alone
  <2>5. QED
    BY <2>1, <2>2, <2>4
<1>6. QED
  BY <1>1, <1>2, <1>3, <1>4, <1>5

\* A call that is announced is one more event of its run.
LEMMA AnnounceInv ==
  ASSUME IInv, NEW r, NEW paths \in Calls, Announce(r, paths)
  PROVE  Kept'
<1> DEFINE e == [kind |-> "call", run |-> r, paths |-> paths]
<1>1. r \in DOMAIN agents /\ down' = Append(down, e) /\ DOMAIN agents' = DOMAIN agents
  BY DEF Announce
<1>2. UNCHANGED <<file, processing, sending, container, made, complete, touched, snapshots,
                  rendered, captures, summaries, cards, runs, stray>>
  BY DEF Announce, serviceVars, paneVars, awaitVars, ghostVars
<1>3. /\ r \in DOMAIN runs /\ Working
      /\ \A i \in DOMAIN summaries : ~ Good(runs, summaries[i].run)
      /\ Good(runs, r) => r = Newest
      /\ Good(runs, Newest) =>
           /\ r = Newest /\ DOMAIN agents = {r} /\ ~ runs[r].done /\ processing = r
           /\ \A i \in DOMAIN down : down[i].run = Newest /\ down[i].kind = "call"
  BY <1>1, AgentBusy
<1>4. Newest' = Newest /\ Working'
  BY <1>1, <1>2 DEF Newest, Working
<1>5. e.kind = "call" /\ e.run = r /\ e \in EventsOf(Len(runs))
  BY <1>1, AgentFacts DEF EventsOf, IInv
<1> HIDE DEF e
<1>6. /\ \A i \in DOMAIN down : i \in DOMAIN down' /\ down'[i] = down[i]
      /\ \A i \in DOMAIN down' : (i \in DOMAIN down /\ down'[i] = down[i]) \/ down'[i] = e
  BY <1>1, <1>5, Added DEF IInv, TypeOK
<1>7. Stream'
  <2>1. \A i \in DOMAIN down' : down'[i].kind = "answer" => i \in DOMAIN down /\ down'[i] = down[i]
    BY <1>5, <1>6
  <2>2. QED
    BY <1>1, <1>2, <1>4, <2>1 DEF IInv, Stream
<1>8. Alone'
  <2>1. \A q \in DOMAIN agents' : Good(runs', q) => ~ runs'[q].done
    BY <1>1, <1>2 DEF IInv, Alone
  <2>2. \A i \in DOMAIN down' : Good(runs', down'[i].run) => ~ runs'[down'[i].run].done
    BY <1>1, <1>2, <1>5, <1>6 DEF IInv, Alone
  <2>3. Good(runs', Newest) =>
          DOMAIN agents' \subseteq {Newest} /\ \A i \in DOMAIN down' : down'[i].run = Newest /\ down'[i].kind = "call"
    BY <1>1, <1>2, <1>3, <1>5, <1>6
  <2>4. QED
    BY <1>4, <2>1, <2>2, <2>3 DEF Alone
<1>9. Fresh'
  <2>1. DOMAIN agents # {}
    BY <1>1
  <2>2. QED
    BY <1>2, <2>1, FreshVacuous DEF IInv
<1>10. Work'
  BY <1>2, <1>3, <1>4 DEF IInv, Work
<1>11. Summing'
  BY <1>2, <1>3, NoSumming
<1>12. Carded'
  BY <1>2 DEF IInv, Carded
<1>13. HasCard'
  BY <1>2, <1>3, <1>4 DEF IInv, HasCard, Awaited
<1>14. QED
  BY <1>7, <1>8, <1>9, <1>10, <1>11, <1>12, <1>13 DEF Kept

\* A file the agent changes had been read, or the run counts as raced; the
\* other runs count as overtaken.
LEMMA CarryOutInv ==
  ASSUME IInv, NEW r, NEW c \in Contents \cup {Absent}, CarryOut(r, c)
  PROVE  Kept'
<1> DEFINE p == Head(agents[r])
<1>1. /\ Keeps(runs') /\ r \in DOMAIN runs
      /\ \A q \in DOMAIN runs : runs'[q].spoilt = "no" => q = r /\ p \in runs[r].safe
  BY CarryOutRuns DEF IInv
<1>2. UNCHANGED <<down, processing, sending, container, made, complete, touched, snapshots,
                  rendered, captures, summaries, cards, stray>>
  BY DEF CarryOut, serviceVars, paneVars, awaitVars
<1>3. r \in DOMAIN agents /\ file' = [file EXCEPT ![p] = c] /\ DOMAIN agents' = DOMAIN agents
  BY DEF CarryOut
<1> HIDE DEF p
<1>4. Follows(runs') /\ Spares(runs') /\ \A q : Good(runs', q) => Good(runs, r) /\ q = r /\ p \in runs[r].safe
  BY <1>1, KeptFollows DEF Keeps, Good
<1>5. /\ Working /\ (Good(runs, r) => r = Newest)
      /\ \A i \in DOMAIN summaries : ~ Good(runs, summaries[i].run)
  BY <1>3, AgentBusy
<1>6. Newest' = Newest /\ runs'[r].base = runs[r].base /\ runs'[r].safe = runs[r].safe
  BY <1>1 DEF Newest, Keeps
<1>7. Stream' /\ Alone' /\ Working' = Working
  BY <1>2, <1>3, <1>4, StreamFrame DEF IInv
<1>8. Fresh'
  <2>1. DOMAIN agents # {}
    BY <1>3
  <2>2. QED
    BY <1>2, <2>1, FreshVacuous DEF IInv
<1>9. Work'
  <2> SUFFICES ASSUME Good(runs', Newest)
               PROVE  Work'
    BY <1>6, NoWork
  <2>1. Good(runs, Newest) /\ p \in runs[Newest].safe /\ r = Newest
    BY <1>4
  <2>2. Different(file, runs[Newest].base) \subseteq runs[Newest].safe
    BY <1>5, <2>1 DEF IInv, Work
  <2>3. \A q \in Paths : q # p => file'[q] = file[q]
    BY <1>3 DEF IInv, TypeOK, Files
  <2>4. Different(file', runs[Newest].base) \subseteq runs[Newest].safe
    BY <2>1, <2>2, <2>3 DEF Different
  <2>5. QED
    BY <1>2, <1>5, <1>6, <1>7, <2>1, <2>4 DEF IInv, Work
<1>10. Summing'
  BY <1>2, <1>4, <1>5, NoSumming
<1>11. Carded'
  <2>1. ASSUME NEW i \in DOMAIN cards
        PROVE  ~ Good(runs', cards[i].run)
    BY <1>4, <1>5 DEF IInv, Work
  <2>2. QED
    BY <1>2, <2>1 DEF Carded
<1>12. HasCard'
  <2>1. \A q : Good(runs', q) => Awaited(q)'
    BY <1>4, <1>5, <1>6, <1>7 DEF Awaited
  <2>2. QED
    BY <2>1 DEF HasCard
<1>13. QED
  BY <1>7, <1>8, <1>9, <1>10, <1>11, <1>12 DEF Kept

\* The events there are when an agent has ended.
LEMMA EventsEnd ==
  ASSUME TypeOK, NEW r, NEW well \in BOOLEAN, AgentEnds(r, well)
  PROVE  /\ \A i \in DOMAIN down : i \in DOMAIN down' /\ down'[i] = down[i]
         /\ \A i \in DOMAIN down' :
              \/ i \in DOMAIN down /\ down'[i] = down[i]
              \/ well /\ i = Len(down) + 1 /\ down'[i].kind = "result" /\ down'[i].run = r
              \/ processing = r /\ i = Len(down') /\ i \notin DOMAIN down
                 /\ down'[i].kind = "answer" /\ down'[i].run = r
         /\ well => Len(down) + 1 \in DOMAIN down' /\ down'[Len(down) + 1].kind = "result"
         /\ well /\ processing = r =>
              Len(down) + 1 + 1 = Len(down') /\ Len(down') \in DOMAIN down' /\ down'[Len(down')].kind = "answer"
<1> DEFINE result == [kind |-> "result", run |-> r]
           answer == [kind |-> "answer", run |-> r]
           a == IF well THEN <<result>> ELSE <<>>
           b == IF processing = r THEN <<answer>> ELSE <<>>
           S == EventsOf(Len(runs)) \cup {result, answer}
           mid == down \o a
           n == Len(down)
<1>1. result.kind = "result" /\ result.run = r /\ answer.kind = "answer" /\ answer.run = r
      /\ result \in S /\ answer \in S
  OBVIOUS
<1>2. down \in Seq(S)
  <2>1. down \in Seq(EventsOf(Len(runs)))
    BY DEF TypeOK
  <2>2. QED
    BY <2>1, LargerSeq
<1>3. down' = mid \o b
  BY DEF AgentEnds
<1>4. (well => a = <<result>>) /\ (~ well => a = <<>>) /\ (processing = r => b = <<answer>>) /\ (processing # r => b = <<>>)
  OBVIOUS
<1>5. n \in Nat /\ DOMAIN down = 1 .. n
  BY <1>2
<1> HIDE DEF result, answer, S, a, b
<1>6. /\ mid \in Seq(S)
      /\ well => Len(mid) = n + 1 /\ mid[n + 1] = result
      /\ ~ well => mid = down
      /\ \A i \in DOMAIN down : i \in DOMAIN mid /\ mid[i] = down[i]
      /\ \A i \in DOMAIN mid : (i \in DOMAIN down /\ mid[i] = down[i]) \/ (well /\ i = n + 1 /\ mid[i] = result)
  <2>1. CASE well
    <3>1. mid = Append(down, result)
      BY <1>1, <1>2, <1>4, <2>1, AppendIsConcat
    <3> HIDE DEF mid
    <3>2. QED
      BY <1>1, <1>2, <2>1, <3>1, Added
  <2>2. CASE ~ well
    BY <1>2, <1>4, <2>2, ConcatEmptySeq
  <2>3. QED
    BY <2>1, <2>2
<1> HIDE DEF mid
<1>7. Len(mid) \in Nat /\ DOMAIN mid = 1 .. Len(mid)
  BY <1>6
<1>8. CASE processing = r
  <2>1. down' = Append(mid, answer)
    BY <1>1, <1>3, <1>4, <1>6, <1>8, AppendIsConcat
  <2>2. /\ Len(down') = Len(mid) + 1 /\ Len(mid) + 1 \in DOMAIN down' /\ down'[Len(mid) + 1] = answer
        /\ \A i \in DOMAIN mid : i \in DOMAIN down' /\ down'[i] = mid[i]
        /\ \A i \in DOMAIN down' : i = Len(mid) + 1 \/ (i \in DOMAIN mid /\ down'[i] = mid[i])
    BY <1>1, <1>6, <2>1, Added
  <2>3. Len(mid) + 1 \notin DOMAIN mid
    BY <1>7
  <2>4. Len(mid) + 1 \notin DOMAIN down
    BY <1>6, <2>3
  <2>5. well => n + 1 \in DOMAIN mid
    BY <1>5, <1>6, <1>7
  <2>6. QED
    BY <1>1, <1>6, <1>8, <2>2, <2>4, <2>5
<1>9. CASE processing # r
  <2>1. down' = mid
    BY <1>3, <1>4, <1>6, <1>9, ConcatEmptySeq
  <2>2. well => n + 1 \in DOMAIN mid
    BY <1>5, <1>6, <1>7
  <2>3. QED
    BY <1>1, <1>6, <1>9, <2>1, <2>2
<1>10. QED
  BY <1>8, <1>9

\* A run that ends well has its result on its way, and the answer if the page
\* still waits for it.
LEMMA AgentEndsInv ==
  ASSUME IInv, NEW r, NEW well \in BOOLEAN, AgentEnds(r, well)
  PROVE  Kept'
<1>1. r \in DOMAIN agents /\ DOMAIN agents' = DOMAIN agents \ {r}
  BY DEF AgentEnds
<1>2. UNCHANGED <<file, processing, sending, container, made, complete, touched, snapshots,
                  rendered, captures, summaries, cards, stray>>
  BY DEF AgentEnds, serviceVars, paneVars, awaitVars
<1>3. /\ r \in DOMAIN runs /\ Working
      /\ \A i \in DOMAIN summaries : ~ Good(runs, summaries[i].run)
      /\ Good(runs, r) => r = Newest
      /\ Good(runs, Newest) =>
           /\ r = Newest /\ DOMAIN agents = {r} /\ ~ runs[r].done /\ processing = r
           /\ \A i \in DOMAIN down : down[i].run = Newest /\ down[i].kind = "call"
  BY <1>1, AgentBusy
<1>4. Keeps(runs') /\ (~ well => ~ Good(runs', r))
  <2>1. runs' = IF well THEN runs ELSE Spoil({r}, "failed")
    BY DEF AgentEnds
  <2>2. Keeps(runs)
    BY SameRuns DEF IInv, TypeOK
  <2>3. Keeps(Spoil({r}, "failed")) /\ \A q \in DOMAIN runs : Spoil({r}, "failed")[q].spoilt = "no" => q \notin {r}
    BY SpoilFacts DEF IInv, TypeOK, Disturbances
  <2>4. QED
    BY <1>3, <2>1, <2>2, <2>3 DEF Good
<1>5. /\ Follows(runs') /\ Spares(runs')
      /\ \A q \in DOMAIN runs : /\ runs'[q].base = runs[q].base /\ runs'[q].safe = runs[q].safe
                                /\ runs'[q].done = runs[q].done
  BY <1>4, KeptFollows DEF Keeps
<1>6. Newest' = Newest /\ DOMAIN runs' = DOMAIN runs /\ (Good(runs', Newest) => Good(runs, Newest))
  BY <1>5, SameNewest
<1>7. /\ \A i \in DOMAIN down : i \in DOMAIN down' /\ down'[i] = down[i]
      /\ \A i \in DOMAIN down' :
           \/ i \in DOMAIN down /\ down'[i] = down[i]
           \/ well /\ i = Len(down) + 1 /\ down'[i].kind = "result" /\ down'[i].run = r
           \/ processing = r /\ i = Len(down') /\ i \notin DOMAIN down
              /\ down'[i].kind = "answer" /\ down'[i].run = r
      /\ well => Len(down) + 1 \in DOMAIN down' /\ down'[Len(down) + 1].kind = "result"
      /\ well /\ processing = r =>
           Len(down) + 1 + 1 = Len(down') /\ Len(down') \in DOMAIN down' /\ down'[Len(down')].kind = "answer"
  BY EventsEnd DEF IInv
<1>8. Good(runs', Newest) => well /\ Working'
  <2>1. Good(runs', Newest) => well
    BY <1>3, <1>4, <1>6
  <2>2. well => Working'
    BY <1>7 DEF Working
  <2>3. QED
    BY <2>1, <2>2
<1>9. Stream'
  <2>1. ASSUME NEW i \in DOMAIN down', down'[i].kind = "answer"
        PROVE  /\ down'[i].run = processing /\ processing \notin DOMAIN agents' /\ processing # 0
               /\ \A j \in DOMAIN down' : down'[j].kind = "answer" => j = i
    <3>1. \A j \in DOMAIN down' : down'[j].kind = "answer" =>
            \/ j \in DOMAIN down /\ down[j].kind = "answer" /\ down'[j] = down[j]
            \/ processing = r /\ j = Len(down') /\ down'[j].run = r
      BY <1>7
    <3>2. r # 0
      BY <1>1, AgentFacts DEF IInv
    <3>3. CASE processing = r
      <4>1. \A j \in DOMAIN down : down[j].kind # "answer"
        BY <1>1, <3>3 DEF IInv, Stream
      <4>2. QED
        BY <1>1, <2>1, <3>1, <3>2, <3>3, <4>1
    <3>4. CASE processing # r
      <4>1. \A j \in DOMAIN down' : down'[j].kind = "answer" =>
              j \in DOMAIN down /\ down[j].kind = "answer" /\ down'[j] = down[j]
        BY <3>1, <3>4
      <4>2. /\ down[i].run = processing /\ processing \notin DOMAIN agents /\ processing # 0
            /\ \A j \in DOMAIN down : down[j].kind = "answer" => j = i
        BY <2>1, <4>1 DEF IInv, Stream
      <4>3. QED
        BY <1>1, <2>1, <4>1, <4>2
    <3>5. QED
      BY <3>3, <3>4
  <2>2. \A q \in DOMAIN runs' : ~ runs'[q].done => q = Newest' /\ processing' = q
    BY <1>2, <1>5, <1>6 DEF IInv, Stream
  <2>3. processing # 0 => processing \in DOMAIN runs
    BY DEF IInv, TypeOK
  <2>4. processing' # 0 => ~ runs'[processing'].done
    BY <1>2, <1>5, <2>3 DEF IInv, Stream
  <2>5. QED
    BY <1>2, <2>1, <2>2, <2>4 DEF Stream
<1>10. Alone'
  <2>1. \A q : Good(runs', q) => Good(runs, q) /\ q \in DOMAIN runs
    BY <1>5 DEF Spares, Good
  <2>2. Good(runs, r) => ~ runs[r].done
    BY <1>1 DEF IInv, Alone
  <2>3. \A q \in DOMAIN agents' : Good(runs', q) => ~ runs'[q].done
    BY <1>1, <1>5, <2>1 DEF IInv, Alone
  <2>4. \A i \in DOMAIN down' : Good(runs', down'[i].run) => ~ runs'[down'[i].run].done
    <3>1. \A i \in DOMAIN down' : (i \in DOMAIN down /\ down'[i] = down[i]) \/ down'[i].run = r
      BY <1>7
    <3>2. \A i \in DOMAIN down : Good(runs, down[i].run) => ~ runs[down[i].run].done
      BY DEF IInv, Alone
    <3>3. \A i \in DOMAIN down' : Good(runs, down'[i].run) => ~ runs[down'[i].run].done
      BY <2>2, <3>1, <3>2
    <3>4. QED
      BY <1>5, <2>1, <3>3
  <2>5. ASSUME Good(runs', Newest)
        PROVE  /\ DOMAIN agents' = {}
               /\ \A i \in DOMAIN down' :
                    /\ down'[i].run = Newest
                    /\ down'[i].kind = "answer" => i = Len(down')
                    /\ down'[i].kind = "result" => i + 1 = Len(down') /\ down'[i + 1].kind = "answer"
    <3>1. well /\ r = Newest /\ DOMAIN agents = {r} /\ processing = r
          /\ \A i \in DOMAIN down : down[i].run = Newest /\ down[i].kind = "call"
      BY <1>3, <1>6, <1>8, <2>5
    <3>2. Len(down) + 1 + 1 = Len(down') /\ down'[Len(down')].kind = "answer"
      BY <1>7, <3>1
    <3>3. ASSUME NEW i \in DOMAIN down'
          PROVE  /\ down'[i].run = Newest
                 /\ down'[i].kind = "answer" => i = Len(down')
                 /\ down'[i].kind = "result" => i + 1 = Len(down') /\ down'[i + 1].kind = "answer"
      <4>1. \/ i \in DOMAIN down /\ down'[i] = down[i]
            \/ i = Len(down) + 1 /\ down'[i].kind = "result" /\ down'[i].run = r
            \/ i = Len(down') /\ down'[i].kind = "answer" /\ down'[i].run = r
        BY <1>7
      <4>2. QED
        BY <3>1, <3>2, <4>1
    <3>4. QED
      BY <1>1, <3>1, <3>3
  <2>6. QED
    BY <1>6, <1>8, <2>3, <2>4, <2>5 DEF Alone
<1>11. Fresh'
  <2>1. DOMAIN agents # {}
    BY <1>1
  <2>2. QED
    BY <1>2, <2>1, FreshVacuous DEF IInv
<1>12. Work'
  <2> SUFFICES ASSUME Good(runs', Newest)
               PROVE  Work'
    BY <1>6, NoWork
  <2>1. Good(runs, Newest) /\ runs'[Newest].base = runs[Newest].base /\ runs'[Newest].safe = runs[Newest].safe
    BY <1>3, <1>5, <1>6
  <2>2. QED
    BY <1>2, <1>3, <1>6, <2>1 DEF IInv, Work
<1>13. Summing'
  <2>1. \A i \in DOMAIN summaries : ~ Good(runs', summaries[i].run)
    BY <1>3, <1>5 DEF Spares
  <2>2. QED
    BY <1>2, <2>1, NoSumming
<1>14. Carded'
  BY <1>2, <1>5, CardedFrame DEF IInv
<1>15. HasCard'
  <2>1. ASSUME NEW q \in DOMAIN runs, Good(runs', q), Awaited(q)
        PROVE  Awaited(q)'
    <3>1. q = Newest => Working'
      BY <1>8, <2>1
    <3>2. QED
      BY <1>2, <1>6, <2>1, <3>1 DEF Awaited
  <2>2. QED
    BY <1>2, <1>5, <2>1, HasCardFrame DEF IInv
<1>16. QED
  BY <1>9, <1>10, <1>11, <1>12, <1>13, <1>14, <1>15 DEF Kept

-----------------------------------------------------------------------------
(* What arrives *)

\* The events left when one has been handled.
LEMMA EventTaken ==
  ASSUME IInv, down # <<>>, down' = Tail(down)
  PROVE  /\ 1 \in DOMAIN down /\ Head(down) = down[1] /\ Len(down) \in Nat
         /\ DOMAIN down = 1 .. Len(down)
         /\ Len(down') = Len(down) - 1 /\ DOMAIN down' = 1 .. Len(down) - 1
         /\ \A j \in DOMAIN down' : j \in Nat /\ j + 1 \in DOMAIN down /\ down'[j] = down[j + 1]
         /\ Head(down).run \in DOMAIN runs
         /\ Good(runs, Newest) => Head(down).run = Newest /\ Newest \in DOMAIN runs /\ Newest \in Open /\ ~ runs[Newest].done
         /\ Good(runs, Head(down).run) => Head(down).run = Newest
<1>1. down \in Seq(EventsOf(Len(runs)))
  BY DEF IInv, TypeOK
<1>2. /\ down' \in Seq(EventsOf(Len(runs))) /\ Head(down) = down[1]
      /\ Len(down) \in Nat /\ 1 \in DOMAIN down /\ Len(down') = Len(down) - 1
      /\ \A j \in DOMAIN down' : j + 1 \in DOMAIN down /\ down'[j] = down[j + 1]
  BY <1>1, Taken
<1>3. DOMAIN down = 1 .. Len(down) /\ DOMAIN down' = 1 .. Len(down')
  BY <1>1, <1>2
<1>4. Head(down).run \in DOMAIN runs
  BY <1>2, EventFacts DEF IInv
<1>5. ASSUME Good(runs, Head(down).run)
      PROVE  ~ runs[Head(down).run].done /\ Head(down).run = Newest
  BY <1>2, <1>4, <1>5 DEF IInv, Alone, Stream
<1>6. ASSUME Good(runs, Newest)
      PROVE  Head(down).run = Newest /\ Newest \in DOMAIN runs /\ Newest \in Open /\ ~ runs[Newest].done
  <2>1. Head(down).run = Newest
    BY <1>2, <1>6 DEF IInv, Alone
  <2>2. ~ runs[Newest].done /\ Newest \in DOMAIN runs
    BY <1>4, <1>5, <1>6, <2>1
  <2>3. QED
    BY <2>1, <2>2 DEF Open
<1>7. \A j \in DOMAIN down' : j \in Nat
  BY <1>3
<1>8. QED
  BY <1>2, <1>3, <1>4, <1>5, <1>6, <1>7

\* A step that handles an event, which is not an answer.
LEMMA StreamTaken ==
  ASSUME IInv, down # <<>>, down' = Tail(down), Follows(runs'), UNCHANGED <<agents, processing>>,
         Good(runs', Newest) => Working' \/ \A i \in DOMAIN down' : down'[i].kind # "call"
  PROVE  Stream' /\ Alone'
<1>1. /\ Len(down) \in Nat /\ DOMAIN down = 1 .. Len(down)
      /\ Len(down') = Len(down) - 1 /\ DOMAIN down' = 1 .. Len(down) - 1
      /\ \A j \in DOMAIN down' : j \in Nat /\ j + 1 \in DOMAIN down /\ down'[j] = down[j + 1]
  BY EventTaken
<1>2. Newest' = Newest /\ DOMAIN runs' = DOMAIN runs /\ (Good(runs', Newest) => Good(runs, Newest))
  BY SameNewest
<1>3. \A r \in DOMAIN runs : runs'[r].done = runs[r].done
  BY DEF Follows
<1>4. \A r : Good(runs', r) => Good(runs, r) /\ r \in DOMAIN runs
  BY <1>2 DEF Follows, Good
<1>5. Stream'
  <2>1. processing # 0 => processing \in DOMAIN runs
    BY DEF IInv, TypeOK
  <2>2. ASSUME NEW i \in DOMAIN down', down'[i].kind = "answer"
        PROVE  /\ down'[i].run = processing /\ processing \notin DOMAIN agents /\ processing # 0
               /\ \A j \in DOMAIN down' : down'[j].kind = "answer" => j = i
    <3>1. /\ down[i + 1].run = processing /\ processing \notin DOMAIN agents /\ processing # 0
          /\ \A j \in DOMAIN down : down[j].kind = "answer" => j = i + 1
      BY <1>1, <2>2 DEF IInv, Stream
    <3>2. \A j \in DOMAIN down' : down'[j].kind = "answer" => j + 1 = i + 1
      BY <1>1, <3>1
    <3>3. \A j \in DOMAIN down' : j + 1 = i + 1 => j = i
      BY <1>1
    <3>4. QED
      BY <1>1, <3>1, <3>2, <3>3
  <2>3. QED
    BY <1>2, <1>3, <2>1, <2>2 DEF IInv, Stream
<1>6. Alone'
  <2>1. \A r \in DOMAIN agents' : Good(runs', r) => ~ runs'[r].done
    BY <1>3, <1>4 DEF IInv, Alone
  <2>2. \A i \in DOMAIN down' : Good(runs', down'[i].run) => ~ runs'[down'[i].run].done
    BY <1>1, <1>3, <1>4 DEF IInv, Alone
  <2>3. ASSUME Good(runs', Newest), NEW i \in DOMAIN down'
        PROVE  /\ DOMAIN agents \subseteq {Newest} /\ down'[i].run = Newest
               /\ down'[i].kind = "answer" => i = Len(down') /\ DOMAIN agents = {}
               /\ down'[i].kind = "result" => i + 1 = Len(down') /\ down'[i + 1].kind = "answer" /\ DOMAIN agents = {}
               /\ down'[i].kind = "call" => Working'
    <3>1. i \in Nat /\ i + 1 \in DOMAIN down /\ down'[i] = down[i + 1]
      BY <1>1
    <3>2. /\ DOMAIN agents \subseteq {Newest} /\ down[i + 1].run = Newest
          /\ down[i + 1].kind = "answer" => i + 1 = Len(down) /\ DOMAIN agents = {}
          /\ down[i + 1].kind = "result" => i + 1 + 1 = Len(down) /\ down[i + 1 + 1].kind = "answer" /\ DOMAIN agents = {}
      BY <1>2, <2>3, <3>1 DEF IInv, Alone
    <3>3. i + 1 = Len(down) => i = Len(down')
      BY <1>1, <3>1
    <3>4. i + 1 + 1 = Len(down) => i + 1 = Len(down') /\ i + 1 \in DOMAIN down'
      BY <1>1, <3>1
    <3>5. i + 1 \in DOMAIN down' => down'[i + 1] = down[i + 1 + 1]
      BY <1>1
    <3>6. QED
      BY <2>3, <3>1, <3>2, <3>3, <3>4, <3>5
  <2>4. Good(runs', Newest) => DOMAIN agents \subseteq {Newest}
    BY <1>2 DEF IInv, Alone
  <2>5. QED
    BY <1>2, <2>1, <2>2, <2>3, <2>4 DEF Alone
<1>7. QED
  BY <1>5, <1>6

\* One more capture, of files that no other reads.
LEMMA CaptureJoins ==
  ASSUME NEW C \in Seq(Captures), NEW s, NEW t, NEW base, NEW safe,
         CapturesAgree(C, s, t, base), ReadIsKept(C, s, safe),
         NEW c \in Captures, c.text = Unread, Head(c.left) \notin DOMAIN s,
         \A i \in DOMAIN C : ToSet(C[i].left) \cap ToSet(c.left) = {}
  PROVE  /\ CapturesAgree(Append(C, c), s, t \cup {Head(c.left)}, base)
         /\ ReadIsKept(Append(C, c), s, safe)
<1> DEFINE new == Append(C, c)
           n == Len(C) + 1
<1>1. /\ n \in DOMAIN new /\ new[n] = c
      /\ \A j \in DOMAIN C : j \in DOMAIN new /\ new[j] = C[j]
      /\ \A j \in DOMAIN new : j = n \/ (j \in DOMAIN C /\ new[j] = C[j])
  BY Added
<1> HIDE DEF new, n
<1>2. \A i \in DOMAIN new : Head(new[i].left) \notin DOMAIN s /\ new[i].text \in {Unread, AsText(base[Head(new[i].left)])}
  BY <1>1 DEF CapturesAgree
<1>3. ASSUME NEW i \in DOMAIN new, NEW j \in DOMAIN new, i # j
      PROVE  ToSet(new[i].left) \cap ToSet(new[j].left) = {}
  <2>1. CASE i \in DOMAIN C /\ j \in DOMAIN C
    BY <1>1, <1>3, <2>1 DEF CapturesAgree
  <2>2. CASE i \notin DOMAIN C
    BY <1>1, <1>3, <2>2
  <2>3. CASE j \notin DOMAIN C
    BY <1>1, <1>3, <2>3
  <2>4. QED
    BY <2>1, <2>2, <2>3
<1>4. {Head(new[i].left) : i \in DOMAIN new} = {Head(C[i].left) : i \in DOMAIN C} \cup {Head(c.left)}
  BY <1>1
<1>5. t \cup {Head(c.left)} = DOMAIN s \cup {Head(new[i].left) : i \in DOMAIN new}
  BY <1>4 DEF CapturesAgree
<1>6. CapturesAgree(new, s, t \cup {Head(c.left)}, base)
  BY <1>2, <1>3, <1>5 DEF CapturesAgree
<1>7. ReadIsKept(new, s, safe)
  BY <1>1 DEF ReadIsKept
<1>8. QED
  BY <1>6, <1>7 DEF new

\* The files a call names are read unless their contents are known.
LEMMA CallArrivesInv ==
  ASSUME IInv, CallArrives
  PROVE  Kept'
<1> DEFINE paths == Head(down).paths
           e == CaptureFrom(paths, snapshots)
           overlap == \E i \in DOMAIN captures : ToSet(captures[i].left) \cap ToSet(paths) # {}
<1>1. down # <<>> /\ Head(down).kind = "call" /\ down' = Tail(down)
  BY DEF CallArrives
<1>2. UNCHANGED <<file, agents, processing, sending, complete, snapshots, rendered, summaries,
                  cards, stray>>
  BY DEF CallArrives, serviceVars
<1>3. /\ touched' = touched \cup Reached(paths, snapshots) /\ captures' = captures \o e
      /\ container' # 0 /\ (container' = container \/ container' = made + 1)
  BY DEF CallArrives, BeginCapture, IInv, TypeOK
<1>4. runs' = IF overlap THEN Spoil(Open, "twice") ELSE runs
  BY DEF CallArrives
<1>5. /\ 1 \in DOMAIN down /\ Head(down) = down[1] /\ Len(down) \in Nat
      /\ DOMAIN down = 1 .. Len(down)
      /\ Len(down') = Len(down) - 1 /\ DOMAIN down' = 1 .. Len(down) - 1
      /\ \A j \in DOMAIN down' : j + 1 \in DOMAIN down /\ down'[j] = down[j + 1]
      /\ Good(runs, Newest) => Newest \in DOMAIN runs /\ Newest \in Open
  BY <1>1, EventTaken
<1>6. paths \in Seq(Paths)
  BY <1>1, <1>5, EventFacts, CallAssumption DEF IInv
<1> HIDE DEF paths, e, overlap
<1>7. Keeps(runs') /\ (Good(runs', Newest) => runs' = runs /\ ~ overlap /\ Good(runs, Newest))
  <2>1. Keeps(runs) /\ Keeps(Spoil(Open, "twice"))
        /\ \A r \in DOMAIN runs : Spoil(Open, "twice")[r].spoilt = "no" => r \notin Open
    BY SameRuns, SpoilFacts DEF IInv, TypeOK, Disturbances
  <2>2. Keeps(runs')
    BY <1>4, <2>1
  <2>3. Good(runs', Newest) => Good(runs, Newest) /\ Newest \in DOMAIN runs
    BY <2>2 DEF Keeps, Good
  <2>4. ASSUME overlap
        PROVE  ~ Good(runs', Newest)
    BY <1>4, <1>5, <2>1, <2>3, <2>4 DEF Good
  <2>5. QED
    BY <1>4, <2>2, <2>3, <2>4
<1>8. Follows(runs') /\ Spares(runs') /\ Newest' = Newest /\ DOMAIN runs' = DOMAIN runs
  BY <1>7, KeptFollows, SameNewest
<1>9. Working => Working'
  <2>1. ASSUME NEW i \in DOMAIN down, down[i].kind = "result"
        PROVE  Working'
    <3>1. i # 1
      BY <1>1, <1>5, <2>1
    <3>2. i - 1 \in DOMAIN down' /\ (i - 1) + 1 = i
      BY <1>5, <3>1
    <3>3. down'[i - 1].kind = "result"
      BY <1>5, <2>1, <3>2
    <3>4. QED
      BY <3>2, <3>3 DEF Working
  <2>2. QED
    BY <1>2, <2>1 DEF Working
<1>10. Good(runs', Newest) => Working /\ Working'
  BY <1>1, <1>5, <1>7, <1>9 DEF IInv, Alone
<1>11. Stream' /\ Alone'
  BY <1>1, <1>2, <1>8, <1>10, StreamTaken
<1>12. Fresh'
  BY <1>1, <1>2, FreshVacuous DEF IInv
<1>13. Work'
  <2> SUFFICES ASSUME Good(runs', Newest)
               PROVE  Work'
    BY <1>8, NoWork
  <2> DEFINE base == runs[Newest].base
             safe == runs[Newest].safe
  <2>1. /\ summaries = <<>>
        /\ \A i \in DOMAIN cards : cards[i].run # Newest
        /\ Different(file, base) \subseteq safe
        /\ ReadIsKept(captures, snapshots, safe)
        /\ CapturesAgree(captures, snapshots, touched, base)
        /\ ~ rendered /\ container \notin complete
    BY <1>7, <1>10 DEF IInv, Work
  <2>2. runs' = runs /\ ~ overlap
    BY <1>7
  <2>3. captures \in Seq(Captures) /\ complete \subseteq 1 .. made /\ made \in Nat
    BY DEF IInv, TypeOK
  <2>4. container' \notin complete
    BY <1>3, <2>1, <2>3
  <2> HIDE DEF base, safe
  <2>5. ReadIsKept(captures', snapshots, safe) /\ CapturesAgree(captures', snapshots, touched', base)
    <3>1. CASE e = <<>>
      <4>1. Reached(paths, snapshots) \subseteq DOMAIN snapshots
        BY <1>6, <3>1, CaptureFromFacts DEF e
      <4>2. touched' = touched
        BY <1>3, <2>1, <4>1 DEF CapturesAgree
      <4>3. captures' = captures
        BY <1>3, <2>3, <3>1, ConcatEmptySeq
      <4>4. QED
        BY <2>1, <4>2, <4>3
    <3>2. CASE e # <<>>
      <4>1. /\ e[1] \in Captures /\ e[1].text = Unread
            /\ Head(e[1].left) \notin DOMAIN snapshots
            /\ ToSet(e[1].left) \subseteq ToSet(paths)
            /\ Head(e[1].left) \in Reached(paths, snapshots)
            /\ Reached(paths, snapshots) \subseteq DOMAIN snapshots \cup {Head(e[1].left)}
            /\ AtMostOne(e, Captures)
        BY <1>6, <3>2, CaptureFromFacts DEF e
      <4>2. PICK c \in Captures : e = <<c>>
        BY <3>2, <4>1 DEF AtMostOne
      <4>3. e[1] = c
        BY <4>2
      <4>4. captures' = Append(captures, c)
        BY <1>3, <2>3, <4>2, AppendIsConcat
      <4>5. touched' = touched \cup {Head(c.left)}
        BY <1>3, <2>1, <4>1, <4>3 DEF CapturesAgree
      <4>6. \A i \in DOMAIN captures : ToSet(captures[i].left) \cap ToSet(c.left) = {}
        BY <2>2, <4>1, <4>3 DEF overlap
      <4>7. c.text = Unread /\ Head(c.left) \notin DOMAIN snapshots
        BY <4>1, <4>3
      <4>8. QED
        BY <2>1, <2>3, <4>4, <4>5, <4>6, <4>7, CaptureJoins
    <3>3. QED
      BY <3>1, <3>2
  <2>6. QED
    BY <1>2, <1>3, <1>8, <2>1, <2>2, <2>4, <2>5 DEF Work, base, safe
<1>14. Summing'
  <2>1. ASSUME NEW i \in DOMAIN summaries, Good(runs', summaries[i].run)
        PROVE  FALSE
    <3>1. Good(runs, summaries[i].run)
      BY <1>8, <2>1 DEF Spares
    <3>2. summaries[i].run = Newest /\ ~ Working
      BY <3>1 DEF IInv, Summing
    <3>3. QED
      BY <1>10, <2>1, <3>2
  <2>2. QED
    BY <1>2, <2>1, NoSumming
<1>15. Carded'
  BY <1>2, <1>8, CardedFrame DEF IInv
<1>16. HasCard'
  <2>1. \A r \in DOMAIN runs : Awaited(r) => Awaited(r)'
    BY <1>2, <1>8, <1>9 DEF Awaited
  <2>2. QED
    BY <1>2, <1>8, <2>1, HasCardFrame DEF IInv
<1>17. QED
  BY <1>11, <1>12, <1>13, <1>14, <1>15, <1>16 DEF Kept

\* The first file that a summary of the run reads again.
FirstRead(run, p) == [run |-> run, seen |-> {p}, path |-> p, before |-> Before(p), changes |-> <<>>]

\* The summaries there are when a result has arrived.
LEMMA SummaryBegins ==
  ASSUME TypeOK, ResultArrives
  PROVE  \/ /\ UNCHANGED summaries
            /\ touched = {} \/ container = 0 \/ container \in complete \/ rendered
         \/ \E p \in touched :
              /\ summaries' = Append(summaries, FirstRead(Head(down).run, p))
              /\ Len(summaries') = Len(summaries) + 1 /\ DOMAIN summaries' = 1 .. Len(summaries) + 1
              /\ \A i \in DOMAIN summaries : i \in DOMAIN summaries' /\ summaries'[i] = summaries[i]
              /\ \A i \in DOMAIN summaries' :
                   (i \in DOMAIN summaries /\ summaries'[i] = summaries[i]) \/ summaries'[i] = FirstRead(Head(down).run, p)
              /\ \E i \in DOMAIN summaries' : summaries'[i] = FirstRead(Head(down).run, p)
<1>1. \/ \E p \in touched : summaries' = Append(summaries, FirstRead(Head(down).run, p))
      \/ /\ UNCHANGED summaries
         /\ touched = {} \/ container = 0 \/ container \in complete \/ rendered
  BY DEF ResultArrives, FirstRead
<1>2. ASSUME NEW x, summaries' = Append(summaries, x)
      PROVE  /\ Len(summaries') = Len(summaries) + 1 /\ DOMAIN summaries' = 1 .. Len(summaries) + 1
             /\ \A i \in DOMAIN summaries : i \in DOMAIN summaries' /\ summaries'[i] = summaries[i]
             /\ \A i \in DOMAIN summaries' : (i \in DOMAIN summaries /\ summaries'[i] = summaries[i]) \/ summaries'[i] = x
             /\ \E i \in DOMAIN summaries' : summaries'[i] = x
  <2>1. summaries \in Seq(SummariesOf(Len(runs)) \cup {x}) /\ x \in SummariesOf(Len(runs)) \cup {x}
    BY LargerSeq DEF TypeOK
  <2>2. /\ summaries' \in Seq(SummariesOf(Len(runs)) \cup {x})
        /\ Len(summaries') = Len(summaries) + 1
        /\ \A i \in DOMAIN summaries : i \in DOMAIN summaries' /\ summaries'[i] = summaries[i]
        /\ \A i \in DOMAIN summaries' : i = Len(summaries) + 1 \/ (i \in DOMAIN summaries /\ summaries'[i] = summaries[i])
        /\ Len(summaries) + 1 \in DOMAIN summaries' /\ summaries'[Len(summaries) + 1] = x
    BY <1>2, <2>1, Added
  <2>3. DOMAIN summaries' = 1 .. Len(summaries')
    BY <2>2
  <2>4. QED
    BY <2>2, <2>3
<1>3. QED
  BY <1>1, <1>2

\* The card is made from what was known when the result came.
LEMMA ResultArrivesInv ==
  ASSUME IInv, ResultArrives
  PROVE  Kept'
<1> DEFINE run == Head(down).run
           base == runs[Newest].base
           safe == runs[Newest].safe
<1>1. down # <<>> /\ Head(down).kind = "result" /\ down' = Tail(down)
  BY DEF ResultArrives
<1>2. /\ UNCHANGED <<file, agents, processing, sending, container, touched, snapshots, rendered, captures,
                     cards, stray>>
      /\ runs' = IF captures # <<>> THEN Spoil({run}, "late") ELSE runs
  BY DEF ResultArrives, serviceVars
<1> HIDE DEF run, base, safe
<1>3. /\ 1 \in DOMAIN down /\ Head(down) = down[1] /\ Len(down) \in Nat
      /\ DOMAIN down' = 1 .. Len(down) - 1
      /\ \A j \in DOMAIN down' : j + 1 \in DOMAIN down /\ down'[j] = down[j + 1]
      /\ run \in DOMAIN runs
      /\ Good(runs, Newest) => run = Newest
      /\ Good(runs, run) => run = Newest
  BY <1>1, EventTaken DEF run
<1>4. Working
  BY <1>1, <1>3 DEF Working
<1>5. Keeps(runs') /\ (Good(runs', run) => runs' = runs /\ captures = <<>> /\ Good(runs, run))
  <2>1. Keeps(runs) /\ Keeps(Spoil({run}, "late"))
        /\ \A r \in DOMAIN runs : Spoil({run}, "late")[r].spoilt = "no" => r \notin {run}
    BY SameRuns, SpoilFacts DEF IInv, TypeOK, Disturbances
  <2>2. Keeps(runs')
    BY <1>2, <2>1
  <2>3. QED
    BY <1>2, <2>1, <2>2 DEF Keeps, Good
<1>6. Follows(runs') /\ Spares(runs')
  BY <1>5, KeptFollows
<1>7. Newest' = Newest /\ DOMAIN runs' = DOMAIN runs /\ (Good(runs', Newest) => Good(runs, Newest))
  BY <1>6, SameNewest
<1>8. ASSUME Good(runs', Newest)
      PROVE  /\ run = Newest /\ runs' = runs /\ ~ Working' /\ \A i \in DOMAIN down' : down'[i].kind = "answer"
             /\ captures = <<>> /\ Covers(file, snapshots, touched, base)
             /\ summaries = <<>> /\ \A i \in DOMAIN cards : cards[i].run # Newest
             /\ UNCHANGED summaries => touched = {}
             /\ touched # {} => container # 0
  <2>1. Good(runs, Newest) /\ run = Newest
    BY <1>3, <1>7, <1>8
  <2>2. runs' = runs /\ captures = <<>> /\ DOMAIN captures = {}
    BY <1>5, <1>8, <2>1, NoContents
  <2>3. 1 + 1 = Len(down) /\ down[1 + 1].kind = "answer" /\ DOMAIN agents = {}
    BY <1>1, <1>3, <2>1 DEF IInv, Alone
  <2>4. \A i \in DOMAIN down' : i = 1
    BY <1>3, <2>3
  <2>5. \A i \in DOMAIN down' : down'[i].kind = "answer"
    BY <1>3, <2>3, <2>4
  <2>6. ~ Working'
    BY <1>2, <2>3, <2>5 DEF Working
  <2>7. /\ Different(file, base) \subseteq safe
        /\ ReadIsKept(captures, snapshots, safe)
        /\ CapturesAgree(captures, snapshots, touched, base)
        /\ ~ rendered /\ container \notin complete
        /\ touched # {} => container # 0
        /\ summaries = <<>> /\ \A i \in DOMAIN cards : cards[i].run # Newest
    BY <1>4, <2>1 DEF IInv, Work, base, safe
  <2>8. touched = DOMAIN snapshots /\ Agrees(snapshots, base) /\ safe \subseteq DOMAIN snapshots
    BY <2>2, <2>7 DEF CapturesAgree, ReadIsKept
  <2>9. Covers(file, snapshots, touched, base)
    BY <2>7, <2>8 DEF Covers
  <2>10. UNCHANGED summaries => touched = {}
    <3>1. ASSUME NEW p \in touched, Len(summaries') = Len(summaries) + 1
          PROVE  summaries' # summaries
      BY <3>1 DEF IInv, TypeOK
    <3>2. QED
      BY <2>7, <3>1, SummaryBegins DEF IInv
  <2>11. QED
    BY <2>1, <2>2, <2>5, <2>6, <2>7, <2>9, <2>10
<1>9. Stream' /\ Alone'
  BY <1>1, <1>2, <1>6, <1>8, StreamTaken
<1>10. Fresh'
  BY <1>1, <1>2, FreshVacuous DEF IInv
<1>11. Work'
  BY <1>7, <1>8, NoWork
<1>12. \A i \in DOMAIN summaries : ~ Good(runs', summaries[i].run)
  BY <1>4, <1>6 DEF IInv, Summing, Spares
<1>13. Summing'
  <2>1. ASSUME NEW p \in touched, summaries' = Append(summaries, FirstRead(run, p)),
               DOMAIN summaries' = 1 .. Len(summaries) + 1,
               \A i \in DOMAIN summaries' : (i \in DOMAIN summaries /\ summaries'[i] = summaries[i]) \/ summaries'[i] = FirstRead(run, p),
               NEW i \in DOMAIN summaries', Good(runs', summaries'[i].run)
        PROVE  /\ summaries'[i].run = Newest /\ ~ Working'
               /\ DOMAIN summaries' = {i} /\ \A j \in DOMAIN cards : cards[j].run # Newest
               /\ captures = <<>> /\ container # 0
               /\ Covers(file, snapshots, touched, runs'[summaries'[i].run].base)
               /\ SumsUp(file, touched, summaries'[i], runs'[summaries'[i].run].base)
    <3>1. summaries'[i] = FirstRead(run, p)
      BY <1>12, <2>1
    <3>2. /\ summaries'[i].run = run /\ summaries'[i].seen = {p} /\ summaries'[i].path = p
          /\ summaries'[i].before = Before(p) /\ summaries'[i].changes = <<>>
      BY <3>1 DEF FirstRead
    <3>3. Good(runs', Newest) /\ run = Newest
      BY <1>3, <1>5, <2>1, <3>2
    <3>4. /\ runs' = runs /\ ~ Working' /\ captures = <<>> /\ Covers(file, snapshots, touched, base)
          /\ summaries = <<>> /\ \A j \in DOMAIN cards : cards[j].run # Newest /\ container # 0
      BY <1>8, <3>3
    <3>5. DOMAIN summaries' = {i} /\ container # 0
      <4>1. Len(summaries) = 0
        BY <3>4
      <4>2. QED
        BY <1>8, <2>1, <3>3, <4>1
    <3>6. p \in DOMAIN snapshots /\ Before(p) = AsText(base[p])
      BY <3>4 DEF Before, Covers, Agrees
    <3>7. SumsUp(file, touched, summaries'[i], base)
      BY <3>2, <3>6, NoContents DEF SumsUp, Agrees
    <3>8. QED
      BY <3>2, <3>3, <3>4, <3>5, <3>7 DEF base
  <2>2. CASE UNCHANGED summaries
    BY <1>12, <2>2, NoSumming
  <2>3. CASE \E p \in touched :
               /\ summaries' = Append(summaries, FirstRead(run, p))
               /\ DOMAIN summaries' = 1 .. Len(summaries) + 1
               /\ \A i \in DOMAIN summaries' : (i \in DOMAIN summaries /\ summaries'[i] = summaries[i]) \/ summaries'[i] = FirstRead(run, p)
    BY <1>2, <1>7, <2>1, <2>3 DEF Summing
  <2>4. QED
    BY <2>2, <2>3, SummaryBegins DEF IInv, run
<1>14. Carded'
  BY <1>2, <1>6, CardedFrame DEF IInv
<1>15. HasCard'
  <2>1. ASSUME NEW r \in DOMAIN runs', Good(runs', r), ~ Awaited(r)'
        PROVE  Different(file, runs'[r].base) = {} \/ \E i \in DOMAIN cards : cards[i].run = r
    <3>1. Good(runs, r) /\ runs'[r].base = runs[r].base /\ r \in DOMAIN runs
      BY <1>6, <1>7, <2>1 DEF Spares
    <3>2. \A i \in DOMAIN summaries' : summaries'[i].run # r
      BY <2>1 DEF Awaited
    <3>3. CASE r = Newest
      <4>1. run = r /\ Covers(file, snapshots, touched, base) /\ (UNCHANGED summaries => touched = {})
        BY <1>8, <2>1, <3>3
      <4>2. UNCHANGED summaries
        <5>1. \A p : FirstRead(run, p).run = r
          BY <4>1 DEF FirstRead
        <5>2. QED
          BY <3>2, <5>1, SummaryBegins DEF IInv, run
      <4>3. Different(file, runs[r].base) = {}
        BY <3>3, <4>1, <4>2 DEF Covers, base
      <4>4. QED
        BY <3>1, <4>3
    <3>4. CASE r # Newest
      <4>1. \A i \in DOMAIN summaries : summaries[i].run # r
        BY <3>2, SummaryBegins DEF IInv
      <4>2. ~ Awaited(r)
        BY <3>4, <4>1 DEF Awaited
      <4>3. QED
        BY <3>1, <4>2 DEF IInv, HasCard
    <3>5. QED
      BY <3>3, <3>4
  <2>2. QED
    BY <1>2, <2>1 DEF HasCard, Different
<1>16. QED
  BY <1>9, <1>10, <1>11, <1>13, <1>14, <1>15 DEF Kept

\* With its answer the run is done.
LEMMA AnswerArrivesInv ==
  ASSUME IInv, AnswerArrives
  PROVE  Kept'
<1>1. down # <<>> /\ Head(down).kind = "answer" /\ down' = Tail(down) /\ processing' = 0
  BY DEF AnswerArrives
<1>2. UNCHANGED <<file, agents, sending, container, made, complete, touched, snapshots, rendered, captures,
                  summaries, cards, stray>>
  BY DEF AnswerArrives, paneVars, awaitVars
<1>3. /\ 1 \in DOMAIN down /\ Head(down) = down[1] /\ Len(down) \in Nat
      /\ DOMAIN down' = 1 .. Len(down) - 1
      /\ \A j \in DOMAIN down' : j \in Nat /\ j + 1 \in DOMAIN down /\ down'[j] = down[j + 1]
  BY <1>1, EventTaken
<1>4. /\ Head(down).run = processing /\ processing \notin DOMAIN agents /\ processing # 0
      /\ processing \in DOMAIN runs /\ processing = Newest
      /\ \A j \in DOMAIN down : down[j].kind = "answer" => j = 1
  <2>1. /\ Head(down).run = processing /\ processing \notin DOMAIN agents /\ processing # 0
        /\ \A j \in DOMAIN down : down[j].kind = "answer" => j = 1
    BY <1>1, <1>3 DEF IInv, Stream
  <2>2. processing \in DOMAIN runs
    BY <2>1 DEF IInv, TypeOK
  <2>3. processing = Newest
    BY <2>1, <2>2 DEF IInv, Stream
  <2>4. QED
    BY <2>1, <2>2, <2>3
<1>5. /\ Len(runs') = Len(runs) /\ DOMAIN runs' = DOMAIN runs /\ runs'[Newest].done
      /\ \A r \in DOMAIN runs :
           /\ runs'[r].base = runs[r].base /\ runs'[r].spoilt = runs[r].spoilt
           /\ r # Newest => runs'[r].done = runs[r].done
  BY <1>4, AnswerRuns DEF IInv
<1>6. Newest' = Newest /\ Spares(runs')
  BY <1>5 DEF Newest, Spares, Good
<1>7. \A r \in DOMAIN runs : runs'[r].done
  BY <1>5 DEF IInv, Stream
<1>8. Good(runs, Newest) => DOMAIN agents = {} /\ Len(down) = 1 /\ DOMAIN down = {1} /\ DOMAIN down' = {}
  <2>1. ASSUME Good(runs, Newest)
        PROVE  DOMAIN agents = {} /\ Len(down) = 1
    BY <1>1, <1>3, <2>1 DEF IInv, Alone
  <2>2. DOMAIN down = 1 .. Len(down)
    BY DEF IInv, TypeOK
  <2>3. Len(down) = 1 => DOMAIN down = {1} /\ DOMAIN down' = {}
    BY <1>3, <2>2
  <2>4. QED
    BY <2>1, <2>3
<1>9. Good(runs, Newest) => ~ Working /\ ~ Working'
  BY <1>1, <1>2, <1>3, <1>8 DEF Working
<1>10. Working' => Working
  BY <1>2, <1>3 DEF Working
<1>11. Stream'
  <2>1. \A j \in DOMAIN down' : j + 1 # 1
    BY <1>3
  <2>2. \A j \in DOMAIN down' : down'[j].kind # "answer"
    BY <1>3, <1>4, <2>1
  <2>3. QED
    BY <1>1, <1>5, <1>7, <2>2 DEF Stream
<1>12. Alone'
  <2>1. \A r \in DOMAIN agents : ~ Good(runs', r)
    BY <1>4, <1>5, <1>6 DEF IInv, Alone, Stream, Spares, Good
  <2>2. ASSUME NEW i \in DOMAIN down', Good(runs', down'[i].run)
        PROVE  FALSE
    <3>1. i + 1 \in DOMAIN down /\ Good(runs, down[i + 1].run)
      BY <1>3, <1>6, <2>2 DEF Spares
    <3>2. ~ runs[down[i + 1].run].done /\ down[i + 1].run \in DOMAIN runs
      BY <3>1 DEF IInv, Alone, Good
    <3>3. down[i + 1].run = Newest
      BY <3>2 DEF IInv, Stream
    <3>4. QED
      BY <1>8, <3>1, <3>3
  <2>3. Good(runs', Newest) => DOMAIN agents = {} /\ DOMAIN down' = {}
    BY <1>6, <1>8 DEF Spares
  <2>4. QED
    BY <1>2, <1>6, <2>1, <2>2, <2>3 DEF Alone
<1>13. Fresh'
  BY <1>1, <1>2, FreshVacuous DEF IInv
<1>14. Work'
  BY <1>6, <1>9, NoWork DEF Spares
<1>15. Summing'
  <2>1. ASSUME NEW i \in DOMAIN summaries, Good(runs', summaries[i].run)
        PROVE  /\ summaries[i].run = Newest /\ ~ Working'
               /\ DOMAIN summaries = {i} /\ \A j \in DOMAIN cards : cards[j].run # Newest
               /\ captures = <<>> /\ container # 0
               /\ Covers(file, snapshots, touched, runs'[summaries[i].run].base)
               /\ SumsUp(file, touched, summaries[i], runs'[summaries[i].run].base)
    <3>1. Good(runs, summaries[i].run) /\ runs'[summaries[i].run].base = runs[summaries[i].run].base
      BY <1>6, <2>1 DEF Spares
    <3>2. QED
      BY <1>10, <3>1 DEF IInv, Summing
  <2>2. QED
    BY <1>2, <1>6, <2>1 DEF Summing
<1>16. Carded'
  BY <1>2, <1>6, CardedFrame DEF IInv
<1>17. HasCard'
  <2>1. ASSUME NEW r \in DOMAIN runs, Good(runs', r), Awaited(r)
        PROVE  Awaited(r)'
    <3>1. ~ (r = Newest /\ Working)
      BY <1>6, <1>9, <2>1 DEF Spares
    <3>2. QED
      BY <1>2, <2>1, <3>1 DEF Awaited
  <2>2. QED
    BY <1>2, <1>6, <2>1, HasCardFrame DEF IInv
<1>18. QED
  BY <1>11, <1>12, <1>13, <1>14, <1>15, <1>16, <1>17 DEF Kept

-----------------------------------------------------------------------------
(* Captures and summaries *)

\* A capture under way, and the one run that is read for.
LEMMA CaptureBusy ==
  ASSUME IInv, NEW i \in DOMAIN captures
  PROVE  /\ captures \in Seq(Captures) /\ captures # <<>>
         /\ \A j \in DOMAIN captures :
              captures[j] \in Captures /\ Head(captures[j].left) \in ToSet(captures[j].left)
         /\ \A j \in DOMAIN summaries : ~ Good(runs, summaries[j].run)
<1>1. captures \in Seq(Captures)
  BY DEF IInv, TypeOK
<1>2. captures # <<>>
  BY NoContents
<1>3. ASSUME NEW j \in DOMAIN captures
      PROVE  captures[j] \in Captures /\ Head(captures[j].left) \in ToSet(captures[j].left)
  <2>1. captures[j] \in Captures /\ captures[j].left \in Seq(Paths) /\ captures[j].left # <<>>
    BY <1>1, CaptureFacts
  <2>2. Head(captures[j].left) = captures[j].left[1] /\ 1 \in DOMAIN captures[j].left
    BY <2>1, Taken
  <2>3. QED
    BY <2>1, <2>2 DEF ToSet
<1>4. \A j \in DOMAIN summaries : ~ Good(runs, summaries[j].run)
  BY <1>2 DEF IInv, Summing
<1>5. QED
  BY <1>1, <1>2, <1>3, <1>4

\* What is read while the agent works was there when it began.
LEMMA CaptureReadsInv ==
  ASSUME IInv, NEW i, CaptureReads(i)
  PROVE  Kept'
<1> DEFINE p == Head(captures[i].left)
<1>1. i \in DOMAIN captures /\ captures[i].text = Unread
  BY DEF CaptureReads
<1>2. UNCHANGED <<file, agents, down, processing, sending, container, made, complete, touched, snapshots,
                  rendered, summaries, cards, stray>>
  BY DEF CaptureReads, serviceVars, paneVars
<1>3. /\ captures \in Seq(Captures) /\ captures # <<>>
      /\ \A j \in DOMAIN captures :
           captures[j] \in Captures /\ Head(captures[j].left) \in ToSet(captures[j].left)
      /\ \A j \in DOMAIN summaries : ~ Good(runs, summaries[j].run)
  BY <1>1, CaptureBusy
<1>4. p \in Paths /\ AsText(file[p]) \in Contents \cup {Absent} /\ AsText(file[p]) # Unread
  BY <1>1, CaptureFacts, AsTextFacts DEF IInv, TypeOK, Files
<1>5. /\ DOMAIN captures' = DOMAIN captures /\ captures'[i].text = AsText(file[p])
      /\ \A j \in DOMAIN captures :
           /\ captures'[j].left = captures[j].left
           /\ j # i => captures'[j].text = captures[j].text
  <2> DEFINE c == [captures[i] EXCEPT !.text = AsText(file[p])]
  <2>1. c \in Captures /\ c.text = AsText(file[p]) /\ c.left = captures[i].left
    BY <1>1, <1>3, <1>4 DEF Captures
  <2>2. captures' = [captures EXCEPT ![i] = c]
    BY DEF CaptureReads
  <2> HIDE DEF c, p
  <2>3. DOMAIN captures' = DOMAIN captures /\ captures'[i] = c /\ \A j \in DOMAIN captures \ {i} : captures'[j] = captures[j]
    BY <1>1, <1>3, <2>1, <2>2, Replaced
  <2>4. QED
    BY <1>1, <2>1, <2>3
<1>6. /\ Follows(runs')
      /\ Newest \in DOMAIN runs => runs'[Newest].safe = runs[Newest].safe \cup {p}
  <2>1. runs' = [r \in DOMAIN runs |-> IF r = Newest THEN [runs[r] EXCEPT !.safe = @ \cup {p}] ELSE runs[r]]
    BY DEF CaptureReads, Newest
  <2>2. runs \in Seq(Runs) /\ runs' \in Seq(Runs) /\ DOMAIN runs' = DOMAIN runs /\ Len(runs') = Len(runs)
    <3>1. runs' \in Seq(Runs)
      BY CaptureReadsTypes DEF IInv, TypeOK
    <3>2. runs \in Seq(Runs) /\ DOMAIN runs' = DOMAIN runs
      BY <2>1 DEF IInv, TypeOK
    <3>3. /\ Len(runs) \in Nat /\ DOMAIN runs = 1 .. Len(runs)
          /\ Len(runs') \in Nat /\ DOMAIN runs' = 1 .. Len(runs')
      BY <3>1, <3>2
    <3>4. QED
      BY <3>1, <3>2, <3>3
  <2> HIDE DEF p
  <2>3. ASSUME NEW r \in DOMAIN runs
        PROVE  /\ runs'[r].base = runs[r].base /\ runs'[r].done = runs[r].done /\ runs'[r].spoilt = runs[r].spoilt
               /\ r = Newest => runs'[r].safe = runs[r].safe \cup {p}
    BY <2>1, <2>2, RunFacts DEF Runs
  <2>4. QED
    BY <2>2, <2>3 DEF Follows
<1> HIDE DEF p
<1>7. Newest' = Newest /\ DOMAIN runs' = DOMAIN runs /\ Spares(runs')
  BY <1>6, SameNewest, GoodBefore
<1>8. Stream' /\ Alone' /\ Carded' /\ Working' = Working
  BY <1>2, <1>6, <1>7, StreamFrame, CardedFrame DEF IInv
<1>9. Fresh'
  BY <1>2, <1>3, FreshVacuous DEF IInv
<1>10. Work'
  <2> SUFFICES ASSUME Working, Good(runs', Newest)
               PROVE  Work'
    BY <1>7, <1>8, NoWork
  <2> DEFINE base == runs[Newest].base
             safe == runs[Newest].safe
  <2>1. Good(runs, Newest) /\ runs'[Newest].base = base /\ runs'[Newest].safe = safe \cup {p}
    BY <1>6, <1>7 DEF Spares, Good, Follows
  <2>2. /\ summaries = <<>>
        /\ \A j \in DOMAIN cards : cards[j].run # Newest
        /\ Different(file, base) \subseteq safe
        /\ ReadIsKept(captures, snapshots, safe)
        /\ CapturesAgree(captures, snapshots, touched, base)
        /\ ~ rendered /\ container \notin complete
        /\ touched # {} => container # 0
    BY <2>1 DEF IInv, Work
  <2> HIDE DEF base, safe
  <2>3. AsText(file[p]) = AsText(base[p])
    <3>1. SUFFICES ASSUME p \in safe
                   PROVE  FALSE
      BY <1>4, <2>2 DEF Different
    <3>2. p \notin DOMAIN snapshots
      BY <1>1, <2>2 DEF CapturesAgree, p
    <3>3. PICK j \in DOMAIN captures : captures[j].text # Unread /\ Head(captures[j].left) = p
      BY <2>2, <3>1, <3>2 DEF ReadIsKept
    <3>4. j # i /\ p \in ToSet(captures[j].left) \cap ToSet(captures[i].left)
      BY <1>1, <1>3, <3>3 DEF p
    <3>5. QED
      BY <1>1, <2>2, <3>4 DEF CapturesAgree
  <2>4. CapturesAgree(captures', snapshots, touched, base)
    <3>1. \A j \in DOMAIN captures' :
            Head(captures'[j].left) \notin DOMAIN snapshots /\ captures'[j].text \in {Unread, AsText(base[Head(captures'[j].left)])}
      BY <1>5, <2>2, <2>3 DEF CapturesAgree, p
    <3>2. \A j, k \in DOMAIN captures' : j # k => ToSet(captures'[j].left) \cap ToSet(captures'[k].left) = {}
      BY <1>5, <2>2 DEF CapturesAgree
    <3>3. {Head(captures'[j].left) : j \in DOMAIN captures'} = {Head(captures[j].left) : j \in DOMAIN captures}
      BY <1>5
    <3>4. QED
      BY <2>2, <3>1, <3>2, <3>3 DEF CapturesAgree
  <2>5. ReadIsKept(captures', snapshots, safe \cup {p})
    BY <1>1, <1>4, <1>5, <2>2 DEF ReadIsKept, p
  <2>6. Different(file, base) \subseteq safe \cup {p}
    BY <2>2
  <2>7. QED
    BY <1>2, <1>7, <1>8, <2>1, <2>2, <2>4, <2>5, <2>6 DEF Work
<1>11. Summing'
  BY <1>2, <1>3, <1>7, NoSumming DEF Spares
<1>12. HasCard'
  <2>1. \A r \in DOMAIN runs : Awaited(r) => Awaited(r)'
    BY <1>2, <1>7, <1>8 DEF Awaited
  <2>2. QED
    BY <1>2, <1>7, <2>1, HasCardFrame DEF IInv
<1>13. QED
  BY <1>8, <1>9, <1>10, <1>11, <1>12 DEF Kept

\* A file that could not be read disturbs the runs still open.
LEMMA CaptureFailsInv ==
  ASSUME IInv, NEW i, CaptureFails(i)
  PROVE  Kept'
<1>1. i \in DOMAIN captures /\ runs' = Spoil(Open, "unread")
  BY DEF CaptureFails
<1>2. UNCHANGED <<file, agents, down, processing, sending, container, made, complete, touched, snapshots,
                  rendered, summaries, cards, stray>>
  BY DEF CaptureFails, serviceVars, paneVars
<1>3. captures # <<>> /\ \A j \in DOMAIN summaries : ~ Good(runs, summaries[j].run)
  BY <1>1, CaptureBusy
<1>4. Keeps(runs') /\ \A r \in DOMAIN runs : runs'[r].spoilt = "no" => r \notin Open
  BY <1>1, SpoilFacts DEF IInv, TypeOK, Disturbances
<1>5. Follows(runs') /\ Spares(runs')
  BY <1>4, KeptFollows
<1>6. Newest' = Newest /\ DOMAIN runs' = DOMAIN runs
  BY <1>5, SameNewest
<1>7. Stream' /\ Alone' /\ Carded' /\ Working' = Working
  BY <1>2, <1>5, StreamFrame, CardedFrame DEF IInv
<1>8. Fresh'
  BY <1>2, <1>3, FreshVacuous DEF IInv
<1>9. Working => ~ Good(runs', Newest)
  BY <1>4, <1>5, <1>6, BusyOpen DEF IInv, Spares, Good
<1>10. Work' /\ Summing'
  BY <1>2, <1>3, <1>5, <1>6, <1>7, <1>9, NoWork, NoSumming DEF Spares
<1>11. HasCard'
  <2>1. \A r \in DOMAIN runs : Awaited(r) => Awaited(r)'
    BY <1>2, <1>6, <1>7 DEF Awaited
  <2>2. QED
    BY <1>2, <1>5, <2>1, HasCardFrame DEF IInv
<1>12. QED
  BY <1>7, <1>8, <1>10, <1>11 DEF Kept

\* A capture that knows its first file now, and perhaps goes on with another.
LEMMA CaptureGoes ==
  ASSUME NEW C \in Seq(Captures), NEW i \in DOMAIN C, NEW s \in OldContents, NEW t, NEW base, NEW safe,
         C[i].text # Unread, CapturesAgree(C, s, t, base), ReadIsKept(C, s, safe),
         NEW s2, DOMAIN s2 = DOMAIN s \cup {Head(C[i].left)},
         s2[Head(C[i].left)] = C[i].text,
         \A q \in DOMAIN s \ {Head(C[i].left)} : s2[q] = s[q],
         NEW C2, NEW from, GoesOn(C, i, CaptureFrom(Tail(C[i].left), s2), C2, from)
  PROVE  /\ CapturesAgree(C2, s2, t \cup Reached(Tail(C[i].left), s2), base)
         /\ ReadIsKept(C2, s2, safe)
         /\ Head(C[i].left) \in t
<1> DEFINE p == Head(C[i].left)
           left == Tail(C[i].left)
           e == CaptureFrom(left, s2)
<1>1. ASSUME NEW j \in DOMAIN C
      PROVE  Head(C[j].left) \in ToSet(C[j].left)
  <2>1. C[j] \in Captures
    OBVIOUS
  <2>2. C[j].left \in Seq(Paths) /\ C[j].left # <<>>
    BY <2>1 DEF Captures
  <2>3. Head(C[j].left) = C[j].left[1] /\ 1 \in DOMAIN C[j].left
    BY <2>2, Taken
  <2>4. QED
    BY <2>3 DEF ToSet
<1>2. left \in Seq(Paths) /\ ToSet(left) \subseteq ToSet(C[i].left)
  <2>1. C[i] \in Captures
    OBVIOUS
  <2>2. C[i].left \in Seq(Paths) /\ C[i].left # <<>>
    BY <2>1 DEF Captures
  <2>3. left \in Seq(Paths) /\ \A j \in DOMAIN left : j + 1 \in DOMAIN C[i].left /\ left[j] = C[i].left[j + 1]
    BY <2>2, Taken
  <2>4. QED
    BY <2>3 DEF ToSet
<1>3. DOMAIN s2 = DOMAIN s \cup {p} /\ s2[p] = C[i].text /\ \A q \in DOMAIN s \ {p} : s2[q] = s[q]
  OBVIOUS
<1>4. GoesOn(C, i, e, C2, from)
  OBVIOUS
<1>5. /\ e = <<>> => Reached(left, s2) \subseteq DOMAIN s2
      /\ e # <<>> =>
           /\ e[1].text = Unread
           /\ Head(e[1].left) \notin DOMAIN s2
           /\ ToSet(e[1].left) \subseteq ToSet(left)
           /\ Head(e[1].left) \in Reached(left, s2)
           /\ Reached(left, s2) \subseteq DOMAIN s2 \cup {Head(e[1].left)}
  BY <1>2, CaptureFromFacts
<1> HIDE DEF p, left, e
<1>6. Agrees(s2, base)
  BY <1>3 DEF CapturesAgree, Agrees, p
<1>7. ASSUME NEW j \in DOMAIN C2
      PROVE  /\ from[j] \in DOMAIN C
             /\ from[j] # i => C2[j] = C[from[j]]
             /\ from[j] = i => e # <<>> /\ C2[j] = e[1]
             /\ ToSet(C2[j].left) \subseteq ToSet(C[from[j]].left)
  <2>1. /\ from[j] \in DOMAIN C
        /\ from[j] # i => C2[j] = C[from[j]]
        /\ from[j] = i => e # <<>> /\ C2[j] = e[1]
    BY <1>4 DEF GoesOn
  <2>2. QED
    BY <1>2, <1>5, <2>1
<1>8. ASSUME NEW j \in DOMAIN C2
      PROVE  Head(C2[j].left) \notin DOMAIN s2 /\ C2[j].text \in {Unread, AsText(base[Head(C2[j].left)])}
  <2>1. CASE from[j] # i
    <3>1. Head(C2[j].left) \notin DOMAIN s /\ C2[j].text \in {Unread, AsText(base[Head(C2[j].left)])}
      BY <1>7, <2>1 DEF CapturesAgree
    <3>2. Head(C2[j].left) # p
      <4>1. Head(C2[j].left) \in ToSet(C[from[j]].left) /\ p \in ToSet(C[i].left)
        BY <1>1, <1>7, <2>1 DEF p
      <4>2. ToSet(C[from[j]].left) \cap ToSet(C[i].left) = {}
        BY <1>7, <2>1 DEF CapturesAgree
      <4>3. QED
        BY <4>1, <4>2
    <3>3. QED
      BY <1>3, <3>1, <3>2
  <2>2. CASE from[j] = i
    BY <1>5, <1>7, <2>2
  <2>3. QED
    BY <2>1, <2>2
<1>9. ASSUME NEW j \in DOMAIN C2, NEW k \in DOMAIN C2, j # k
      PROVE  ToSet(C2[j].left) \cap ToSet(C2[k].left) = {}
  <2>1. from[j] # from[k]
    BY <1>4, <1>9 DEF GoesOn
  <2>2. ToSet(C[from[j]].left) \cap ToSet(C[from[k]].left) = {}
    BY <1>7, <2>1 DEF CapturesAgree
  <2>3. QED
    BY <1>7, <2>2
<1>10. p \in t
  BY DEF CapturesAgree, p
<1>11. t \cup Reached(left, s2) = DOMAIN s2 \cup {Head(C2[j].left) : j \in DOMAIN C2}
  <2>1. t = DOMAIN s \cup {Head(C[j].left) : j \in DOMAIN C}
    BY DEF CapturesAgree
  <2>2. ASSUME NEW k \in DOMAIN C
        PROVE  Head(C[k].left) \in DOMAIN s2 \cup {Head(C2[j].left) : j \in DOMAIN C2}
    <3>1. CASE k = i
      BY <1>3, <3>1 DEF p
    <3>2. CASE k # i
      <4>1. PICK j \in DOMAIN C2 : from[j] = k
        BY <1>4, <3>2 DEF GoesOn
      <4>2. QED
        BY <1>7, <3>2, <4>1
    <3>3. QED
      BY <3>1, <3>2
  <2>3. Reached(left, s2) \subseteq DOMAIN s2 \cup {Head(C2[j].left) : j \in DOMAIN C2}
    <3>1. CASE e = <<>>
      BY <1>5, <3>1
    <3>2. CASE e # <<>>
      <4>1. PICK j \in DOMAIN C2 : from[j] = i
        BY <1>4, <3>2 DEF GoesOn
      <4>2. C2[j] = e[1]
        BY <1>7, <4>1
      <4>3. QED
        BY <1>5, <3>2, <4>2
    <3>3. QED
      BY <3>1, <3>2
  <2>4. ASSUME NEW j \in DOMAIN C2
        PROVE  Head(C2[j].left) \in t \cup Reached(left, s2)
    BY <1>5, <1>7, <2>1
  <2>5. DOMAIN s2 \subseteq t
    BY <1>3, <1>10, <2>1
  <2>6. DOMAIN s \subseteq DOMAIN s2
    BY <1>3
  <2>7. QED
    BY <2>1, <2>2, <2>3, <2>4, <2>5, <2>6
<1>12. ReadIsKept(C2, s2, safe)
  <2>1. ASSUME NEW q \in safe, q \notin DOMAIN s2
        PROVE  \E j \in DOMAIN C2 : C2[j].text # Unread /\ Head(C2[j].left) = q
    <3>1. q \notin DOMAIN s /\ q # p
      BY <1>3, <2>1
    <3>2. PICK k \in DOMAIN C : C[k].text # Unread /\ Head(C[k].left) = q
      BY <3>1 DEF ReadIsKept
    <3>3. k # i
      BY <3>1, <3>2 DEF p
    <3>4. PICK j \in DOMAIN C2 : from[j] = k
      BY <1>4, <3>3 DEF GoesOn
    <3>5. QED
      BY <1>7, <3>2, <3>3, <3>4
  <2>2. QED
    BY <2>1 DEF ReadIsKept
<1>13. CapturesAgree(C2, s2, t \cup Reached(left, s2), base)
  BY <1>6, <1>8, <1>9, <1>11 DEF CapturesAgree
<1>14. QED
  BY <1>10, <1>12, <1>13 DEF p, left

\* What a capture has read is kept, and the next file is read.
LEMMA CaptureDoneInv ==
  ASSUME IInv, NEW i, CaptureDone(i)
  PROVE  Kept'
<1> DEFINE p == Head(captures[i].left)
           left == Tail(captures[i].left)
           s == [q \in DOMAIN snapshots \cup {p} |-> IF q = p THEN captures[i].text ELSE snapshots[q]]
<1>1. i \in DOMAIN captures /\ captures[i].text # Unread
  BY DEF CaptureDone
<1>2. UNCHANGED <<file, agents, down, processing, sending, container, made, complete, rendered, summaries,
                  cards, runs, stray>>
  BY DEF CaptureDone, serviceVars, ghostVars
<1>3. snapshots' = s /\ touched' = touched \cup Reached(left, s)
      /\ captures' = RemoveAt(captures, i) \o CaptureFrom(left, s)
  BY DEF CaptureDone
<1>4. captures \in Seq(Captures) /\ captures # <<>> /\ \A j \in DOMAIN summaries : ~ Good(runs, summaries[j].run)
  BY <1>1, CaptureBusy
<1>5. /\ left \in Seq(Paths) /\ p \in Paths /\ captures[i].text \in Contents \cup {Absent}
      /\ snapshots \in OldContents
  BY <1>1, CaptureFacts DEF IInv, TypeOK
<1>6. DOMAIN s = DOMAIN snapshots \cup {p} /\ s[p] = captures[i].text
      /\ \A q \in DOMAIN snapshots \ {p} : s[q] = snapshots[q]
  BY <1>5, OneMore
<1> HIDE DEF s
<1>7. \E from : GoesOn(captures, i, CaptureFrom(left, s), captures', from)
  <2>1. AtMostOne(CaptureFrom(left, s), Captures)
    BY <1>5, CaptureFromFacts
  <2>2. QED
    BY <1>1, <1>3, <1>4, <2>1, TakenGoesOn
<1>8. PICK from : GoesOn(captures, i, CaptureFrom(left, s), captures', from)
  BY <1>7
<1>9. Follows(runs') /\ Spares(runs') /\ Newest' = Newest
  BY <1>2, SameRuns, KeptFollows, SameNewest DEF IInv, TypeOK
<1>10. Stream' /\ Alone' /\ Carded' /\ Working' = Working
  BY <1>2, <1>9, StreamFrame, CardedFrame DEF IInv
<1>11. Fresh'
  BY <1>2, <1>4, FreshVacuous DEF IInv
<1>12. Work'
  <2> SUFFICES ASSUME Working, Good(runs, Newest)
               PROVE  Work'
    BY <1>2, <1>9, <1>10, NoWork
  <2> DEFINE base == runs[Newest].base
             safe == runs[Newest].safe
  <2>1. /\ summaries = <<>>
        /\ \A j \in DOMAIN cards : cards[j].run # Newest
        /\ Different(file, base) \subseteq safe
        /\ ReadIsKept(captures, snapshots, safe)
        /\ CapturesAgree(captures, snapshots, touched, base)
        /\ ~ rendered /\ container \notin complete
        /\ touched # {} => container # 0
    BY DEF IInv, Work
  <2> HIDE DEF base, safe
  <2>2. /\ CapturesAgree(captures', s, touched \cup Reached(left, s), base)
        /\ ReadIsKept(captures', s, safe)
        /\ p \in touched
    BY <1>1, <1>4, <1>5, <1>6, <1>8, <2>1, CaptureGoes
  <2>3. container # 0
    BY <2>1, <2>2
  <2>4. QED
    BY <1>2, <1>3, <1>9, <1>10, <2>1, <2>2, <2>3 DEF Work, base, safe
<1>13. Summing'
  BY <1>2, <1>4, NoSumming
<1>14. HasCard'
  <2>1. \A r \in DOMAIN runs : Awaited(r) => Awaited(r)'
    BY <1>2, <1>9, <1>10 DEF Awaited
  <2>2. QED
    BY <1>2, <1>9, <2>1, HasCardFrame DEF IInv
<1>15. QED
  BY <1>10, <1>11, <1>12, <1>13, <1>14 DEF Kept

\* The elements left are those there were, without the one taken out.
LEMMA RemovedElements ==
  ASSUME NEW S, NEW s \in Seq(S), NEW i \in DOMAIN s
  PROVE  /\ \A j \in DOMAIN RemoveAt(s, i) : \E k \in DOMAIN s : RemoveAt(s, i)[j] = s[k]
         /\ \A k \in DOMAIN s \ {i} : \E j \in DOMAIN RemoveAt(s, i) : RemoveAt(s, i)[j] = s[k]
<1> DEFINE t == RemoveAt(s, i)
<1>1. /\ t \in Seq(S) /\ Len(t) = Len(s) - 1
      /\ \A j \in 1 .. Len(s) - 1 : t[j] = IF j < i THEN s[j] ELSE s[j + 1]
  BY Removed
<1> HIDE DEF t
<1>2. DOMAIN s = 1 .. Len(s) /\ Len(s) \in Nat /\ i \in 1 .. Len(s)
  OBVIOUS
<1>3. DOMAIN t = 1 .. Len(s) - 1
  <2>1. DOMAIN t = 1 .. Len(t)
    BY <1>1
  <2>2. QED
    BY <1>1, <2>1
<1>4. ASSUME NEW j \in DOMAIN t
      PROVE  \E k \in DOMAIN s : t[j] = s[k]
  <2>1. j \in DOMAIN s /\ j + 1 \in DOMAIN s /\ (t[j] = s[j] \/ t[j] = s[j + 1])
    BY <1>1, <1>2, <1>3
  <2>2. QED
    BY <2>1
<1>5. ASSUME NEW k \in DOMAIN s \ {i}
      PROVE  \E j \in DOMAIN t : t[j] = s[k]
  <2>1. CASE k < i
    <3>1. k \in DOMAIN t /\ t[k] = s[k]
      BY <1>1, <1>2, <1>3, <2>1
    <3>2. QED
      BY <3>1
  <2>2. CASE ~ (k < i)
    <3>1. k - 1 \in DOMAIN t /\ k - 1 + 1 = k /\ ~ (k - 1 < i)
      BY <1>2, <1>3, <2>2
    <3>2. t[k - 1] = s[k]
      BY <1>1, <1>3, <3>1
    <3>3. QED
      BY <3>1, <3>2
  <2>3. QED
    BY <2>1, <2>2
<1>6. QED
  BY <1>4, <1>5 DEF t

\* What has been read again and differs is in the changes.
LEMMA ChangesSumUp ==
  ASSUME TypeOK, NEW i \in DOMAIN summaries, NEW base,
         SumsUp(file, touched, summaries[i], base),
         NEW after, after = AsText(file[summaries[i].path])
  PROVE  /\ Agrees(Changes(summaries[i], after), base)
         /\ Different(file, base) \cap summaries[i].seen \subseteq DOMAIN Changes(summaries[i], after)
<1> DEFINE s == summaries[i]
           c == Changes(summaries[i], after)
<1>1. /\ s.before = AsText(base[s.path]) /\ s.path \in s.seen
      /\ Agrees(s.changes, base)
      /\ Different(file, base) \cap (s.seen \ {s.path}) \subseteq DOMAIN s.changes
  BY DEF SumsUp
<1>2. /\ s.before = after => c = s.changes
      /\ s.before # after =>
           /\ DOMAIN c = DOMAIN s.changes \cup {s.path}
           /\ c[s.path] = s.before
           /\ \A p \in DOMAIN s.changes \ {s.path} : c[p] = s.changes[p]
  BY ChangesFacts
<1>3. after = AsText(file[s.path])
  OBVIOUS
<1> HIDE DEF s, c
<1>4. Agrees(c, base)
  BY <1>1, <1>2 DEF Agrees
<1>5. ASSUME NEW p \in Different(file, base) \cap s.seen
      PROVE  p \in DOMAIN c
  <2>1. CASE p = s.path
    BY <1>1, <1>2, <1>3, <1>5, <2>1 DEF Different
  <2>2. CASE p # s.path
    BY <1>1, <1>2, <1>5, <2>2
  <2>3. QED
    BY <2>1, <2>2
<1>6. QED
  BY <1>4, <1>5 DEF s, c

\* The summaries there are when one goes on with the next file.
LEMMA NextFileFacts ==
  ASSUME TypeOK, NEW i \in DOMAIN summaries, NEW after, NEW p \in touched, NextFile(i, p, after)
  PROVE  /\ DOMAIN summaries' = DOMAIN summaries
         /\ \A j \in DOMAIN summaries \ {i} : summaries'[j] = summaries[j]
         /\ summaries'[i].run = summaries[i].run
         /\ summaries'[i].seen = summaries[i].seen \cup {p} /\ summaries'[i].path = p
         /\ summaries'[i].before = Before(p) /\ summaries'[i].changes = Changes(summaries[i], after)
<1> DEFINE s == [summaries[i] EXCEPT !.seen = @ \cup {p}, !.path = p, !.before = Before(p),
                                     !.changes = Changes(summaries[i], after)]
<1>1. p \in Paths /\ Before(p) \in Contents \cup {Absent} /\ Changes(summaries[i], after) \in OldContents
  BY OldFacts, ChangesFacts DEF Before, TypeOK
<1>2. summaries \in Seq(SummariesOf(Len(runs))) /\ summaries[i] \in SummariesOf(Len(runs))
  BY SummaryFacts DEF TypeOK
<1>3. /\ s \in SummariesOf(Len(runs)) /\ s.run = summaries[i].run /\ s.seen = summaries[i].seen \cup {p} /\ s.path = p
      /\ s.before = Before(p) /\ s.changes = Changes(summaries[i], after)
  BY <1>1, <1>2 DEF SummariesOf
<1>4. summaries' = [summaries EXCEPT ![i] = s]
  BY DEF NextFile
<1> HIDE DEF s
<1>5. /\ DOMAIN summaries' = DOMAIN summaries /\ summaries'[i] = s
      /\ \A j \in DOMAIN summaries \ {i} : summaries'[j] = summaries[j]
  BY <1>2, <1>3, <1>4, Replaced
<1>6. QED
  BY <1>3, <1>5

\* The summaries there are when one has ended.
LEMMA LastFileFacts ==
  ASSUME TypeOK, NEW i \in DOMAIN summaries, NEW after, LastFile(i, after)
  PROVE  /\ \A j \in DOMAIN summaries' : \E k \in DOMAIN summaries : summaries'[j] = summaries[k]
         /\ \A k \in DOMAIN summaries \ {i} : \E j \in DOMAIN summaries' : summaries'[j] = summaries[k]
         /\ DOMAIN summaries = {i} => DOMAIN summaries' = {}
<1>1. summaries \in Seq(SummariesOf(Len(runs))) /\ summaries' = RemoveAt(summaries, i)
  BY DEF TypeOK, LastFile
<1>2. /\ \A j \in DOMAIN summaries' : \E k \in DOMAIN summaries : summaries'[j] = summaries[k]
      /\ \A k \in DOMAIN summaries \ {i} : \E j \in DOMAIN summaries' : summaries'[j] = summaries[k]
  BY <1>1, RemovedElements
<1>3. ASSUME DOMAIN summaries = {i}
      PROVE  DOMAIN summaries' = {}
  <2>1. summaries' \in Seq(SummariesOf(Len(runs))) /\ Len(summaries') = Len(summaries) - 1
    BY <1>1, Removed
  <2>2. Len(summaries) \in Nat /\ DOMAIN summaries = 1 .. Len(summaries)
    BY <1>1
  <2>3. Len(summaries) = 1
    <3>1. 1 .. Len(summaries) = {i}
      BY <1>3, <2>2
    <3>2. 1 \in 1 .. Len(summaries) /\ Len(summaries) \in 1 .. Len(summaries)
      BY <2>2, <3>1
    <3>3. QED
      BY <3>1, <3>2
  <2>4. Len(summaries') = 0 /\ DOMAIN summaries' = 1 .. Len(summaries')
    BY <2>1, <2>3
  <2>5. QED
    BY <2>4
<1>4. QED
  BY <1>2, <1>3

\* The card has what the files were, for all that differ.
LEMMA SummaryReadsInv ==
  ASSUME IInv, NEW i, NEW after, SummaryReads(i, after)
  PROVE  Kept'
<1> DEFINE run == summaries[i].run
           base == runs[run].base
           changes == Changes(summaries[i], after)
<1>1. /\ i \in DOMAIN summaries
      /\ (\E p \in touched \ summaries[i].seen : NextFile(i, p, after)) \/ LastFile(i, after)
      /\ UNCHANGED <<file, agents, down, processing, sending, container, made, complete, touched,
                     snapshots, captures, stray>>
      /\ Keeps(runs')
      /\ runs'[run].spoilt = "no" => after = AsText(file[summaries[i].path])
  BY SummaryReadsCases DEF IInv
<1>2. TypeOK
  BY DEF IInv
<1>3. Follows(runs') /\ Spares(runs')
  BY <1>1, KeptFollows
<1>4. Newest' = Newest /\ DOMAIN runs' = DOMAIN runs
  BY <1>3, SameNewest
<1>5. ASSUME NEW k \in DOMAIN summaries, Good(runs', summaries[k].run)
      PROVE  /\ k = i /\ run = Newest /\ Good(runs, run) /\ runs'[run].base = base
             /\ DOMAIN summaries = {i} /\ \A j \in DOMAIN cards : cards[j].run # Newest
             /\ ~ Working /\ captures = <<>> /\ container # 0
             /\ Covers(file, snapshots, touched, base)
             /\ SumsUp(file, touched, summaries[i], base)
             /\ Agrees(changes, base)
             /\ Different(file, base) \cap summaries[i].seen \subseteq DOMAIN changes
  <2>1. Good(runs, summaries[k].run) /\ runs'[summaries[k].run].base = runs[summaries[k].run].base
    BY <1>3, <1>5 DEF Spares
  <2>2. /\ DOMAIN summaries = {k} /\ \A j \in DOMAIN cards : cards[j].run # Newest
        /\ summaries[k].run = Newest /\ ~ Working /\ captures = <<>> /\ container # 0
        /\ Covers(file, snapshots, touched, runs[summaries[k].run].base)
        /\ SumsUp(file, touched, summaries[k], runs[summaries[k].run].base)
    BY <2>1 DEF IInv, Summing
  <2>3. k = i
    BY <1>1, <2>2
  <2>4. after = AsText(file[summaries[i].path])
    BY <1>1, <1>5, <2>3 DEF Good
  <2>5. /\ Agrees(changes, base)
        /\ Different(file, base) \cap summaries[i].seen \subseteq DOMAIN changes
    BY <1>1, <1>2, <2>2, <2>3, <2>4, ChangesSumUp
  <2>6. QED
    BY <2>1, <2>2, <2>3, <2>5
<1> HIDE DEF run, base, changes
<1>6. Stream' /\ Alone' /\ Working' = Working
  BY <1>1, <1>3, StreamFrame DEF IInv
<1>7. Fresh'
  <2>1. Open # {}
    BY <1>1 DEF Open
  <2>2. QED
    BY <1>1, <2>1, FreshVacuous DEF IInv
<1>8. Work'
  <2>1. Working => ~ Good(runs, Newest)
    BY <1>1, NoContents DEF IInv, Work
  <2>2. QED
    BY <1>3, <1>4, <1>6, <2>1, NoWork DEF Spares
<1>9. ASSUME NEW p \in touched \ summaries[i].seen, NextFile(i, p, after), Good(runs', run)
      PROVE  SumsUp(file, touched, summaries'[i], base)
  <2>1. /\ summaries'[i].seen = summaries[i].seen \cup {p} /\ summaries'[i].path = p
        /\ summaries'[i].before = Before(p) /\ summaries'[i].changes = changes
    BY <1>1, <1>2, <1>9, NextFileFacts DEF changes
  <2>2. /\ Covers(file, snapshots, touched, base) /\ SumsUp(file, touched, summaries[i], base)
        /\ Agrees(changes, base) /\ Different(file, base) \cap summaries[i].seen \subseteq DOMAIN changes
    BY <1>1, <1>5, <1>9 DEF run
  <2>3. p \in DOMAIN snapshots /\ Before(p) = AsText(base[p])
    BY <1>9, <2>2 DEF Before, Covers, Agrees
  <2>4. summaries[i].seen \subseteq touched
    BY <2>2 DEF SumsUp
  <2>5. Different(file, base) \cap (summaries'[i].seen \ {p}) \subseteq DOMAIN changes
    BY <2>1, <2>2
  <2>6. QED
    BY <1>9, <2>1, <2>2, <2>3, <2>4, <2>5 DEF SumsUp
<1>10. Summing'
  <2>1. CASE LastFile(i, after)
    <3>1. ASSUME NEW j \in DOMAIN summaries', Good(runs', summaries'[j].run)
          PROVE  FALSE
      <4>1. PICK k \in DOMAIN summaries : summaries'[j] = summaries[k]
        BY <1>1, <1>2, <2>1, LastFileFacts
      <4>2. DOMAIN summaries = {i}
        BY <1>5, <3>1, <4>1
      <4>3. QED
        BY <1>1, <1>2, <2>1, <4>2, LastFileFacts
    <3>2. QED
      BY <3>1, NoSumming
  <2>2. ASSUME NEW p \in touched \ summaries[i].seen, NextFile(i, p, after)
        PROVE  Summing'
    <3>1. /\ DOMAIN summaries' = DOMAIN summaries
          /\ \A j \in DOMAIN summaries \ {i} : summaries'[j] = summaries[j]
          /\ summaries'[i].run = run
      BY <1>1, <1>2, <2>2, NextFileFacts DEF run
    <3>2. cards' = cards
      BY <2>2 DEF NextFile
    <3>3. ASSUME NEW j \in DOMAIN summaries', Good(runs', summaries'[j].run)
          PROVE  /\ summaries'[j].run = Newest /\ ~ Working
                 /\ DOMAIN summaries' = {j} /\ \A k \in DOMAIN cards : cards[k].run # Newest
                 /\ captures = <<>> /\ container # 0
                 /\ Covers(file, snapshots, touched, runs'[summaries'[j].run].base)
                 /\ SumsUp(file, touched, summaries'[j], runs'[summaries'[j].run].base)
      <4>1. j \in DOMAIN summaries /\ summaries'[j].run = summaries[j].run
        BY <3>1, <3>3 DEF run
      <4>2. /\ j = i /\ run = Newest /\ runs'[run].base = base
            /\ DOMAIN summaries = {i} /\ \A k \in DOMAIN cards : cards[k].run # Newest
            /\ ~ Working /\ captures = <<>> /\ container # 0
            /\ Covers(file, snapshots, touched, base)
        BY <1>5, <3>3, <4>1
      <4>3. Good(runs', run)
        BY <3>1, <3>3, <4>2
      <4>4. SumsUp(file, touched, summaries'[i], base)
        BY <1>9, <2>2, <4>3
      <4>5. QED
        BY <3>1, <4>2, <4>4
    <3>4. QED
      BY <1>1, <1>4, <1>6, <3>2, <3>3 DEF Summing
  <2>3. QED
    BY <1>1, <2>1, <2>2
<1>11. ASSUME LastFile(i, after), Good(runs', run)
       PROVE  Different(file, base) \subseteq DOMAIN changes
  <2>1. /\ Covers(file, snapshots, touched, base)
        /\ Different(file, base) \cap summaries[i].seen \subseteq DOMAIN changes
    BY <1>1, <1>5, <1>11 DEF run
  <2>2. QED
    BY <1>11, <2>1 DEF LastFile, Covers
<1>12. Carded'
  <2>1. ASSUME NEW j \in DOMAIN cards', Good(runs', cards'[j].run)
        PROVE  Restores(file, cards'[j], runs'[cards'[j].run].base)
    <3>1. CASE j \in DOMAIN cards /\ cards'[j] = cards[j]
      BY <1>3, <2>1, <3>1 DEF IInv, Carded, Spares
    <3>2. CASE /\ LastFile(i, after)
               /\ cards'[j].run = run /\ cards'[j].changes = changes
               /\ cards'[j].left = {} /\ cards'[j].button = "Undo"
      <4>1. Good(runs', run)
        BY <2>1, <3>2
      <4>2. Agrees(changes, base) /\ runs'[run].base = base
        BY <1>1, <1>5, <4>1 DEF run
      <4>3. Different(file, base) \subseteq DOMAIN changes
        BY <1>11, <3>2, <4>1
      <4>4. Unrestored(file, base) \subseteq DOMAIN changes
        BY <4>3 DEF Unrestored, Different
      <4>5. Restores(file, cards'[j], base)
        BY <3>2, <4>2, <4>4 DEF Restores
      <4>6. QED
        BY <3>2, <4>2, <4>5
    <3>3. QED
      BY <1>2, <3>1, <3>2, CardsRead DEF run, changes
  <2>2. QED
    BY <1>1, <2>1 DEF Carded
<1>13. HasCard'
  <2>1. ASSUME NEW r \in DOMAIN runs, Good(runs', r), ~ Awaited(r)'
        PROVE  Different(file, runs'[r].base) = {} \/ \E j \in DOMAIN cards' : cards'[j].run = r
    <3>1. ~ (r = Newest /\ Working) /\ \A j \in DOMAIN summaries' : summaries'[j].run # r
      BY <1>4, <1>6, <2>1 DEF Awaited
    <3>2. Good(runs, r) /\ runs'[r].base = runs[r].base
      BY <1>3, <2>1 DEF Spares
    <3>3. CASE ~ Awaited(r)
      <4>1. Different(file, runs[r].base) = {} \/ \E j \in DOMAIN cards : cards[j].run = r
        BY <2>1, <3>2, <3>3 DEF IInv, HasCard
      <4>2. \A j \in DOMAIN cards : j \in DOMAIN cards' /\ cards'[j] = cards[j]
        BY <1>2, CardsRead
      <4>3. QED
        BY <3>2, <4>1, <4>2
    <3>4. CASE Awaited(r)
      <4>1. PICK k \in DOMAIN summaries : summaries[k].run = r
        BY <3>1, <3>4 DEF Awaited
      <4>2. k = i /\ run = r /\ container # 0 /\ runs'[run].base = base
        BY <1>5, <2>1, <4>1 DEF run
      <4>3. LastFile(i, after)
        <5>1. ASSUME NEW p \in touched \ summaries[i].seen, NextFile(i, p, after)
              PROVE  FALSE
          BY <1>1, <1>2, <3>1, <4>2, <5>1, NextFileFacts DEF run
        <5>2. QED
          BY <1>1, <5>1
      <4>4. Different(file, base) \subseteq DOMAIN changes
        BY <1>11, <2>1, <4>2, <4>3
      <4>5. DOMAIN changes = {} \/ \E j \in DOMAIN cards' : cards'[j].run = run
        BY <1>2, <4>2, <4>3, CardsRead DEF run, changes
      <4>6. QED
        BY <4>2, <4>4, <4>5
    <3>5. QED
      BY <3>3, <3>4
  <2>2. QED
    BY <1>1, <1>4, <2>1 DEF HasCard, Different
<1>14. QED
  BY <1>6, <1>7, <1>8, <1>10, <1>12, <1>13 DEF Kept

-----------------------------------------------------------------------------
(* Undo *)

\* A step of an undo that writes no file.
LEMMA UndoFrame ==
  ASSUME IInv, Keeps(runs'), UNCHANGED <<file, undoVars>>,
         NEW i \in DOMAIN cards, NEW left, NEW button, OnlyCard(i, left, button)
  PROVE  Stream' /\ Alone' /\ Fresh' /\ Work' /\ Summing' /\ HasCard'
<1>1. UNCHANGED <<file, agents, down, processing, sending, container, made, complete, touched, snapshots,
                  rendered, captures, summaries, stray>>
  BY DEF undoVars, serviceVars, paneVars, awaitVars
<1>2. Follows(runs') /\ Spares(runs')
  BY KeptFollows
<1>3. Newest' = Newest /\ DOMAIN runs' = DOMAIN runs
  BY <1>2, SameNewest
<1>4. DOMAIN cards' = DOMAIN cards /\ \A j \in DOMAIN cards : cards'[j].run = cards[j].run
  BY DEF OnlyCard
<1>5. Stream' /\ Alone' /\ Fresh' /\ Working' = Working
  BY <1>1, <1>2, StreamFrame, FreshFrame DEF IInv
<1>6. Work'
  <2> SUFFICES ASSUME Working, Good(runs', Newest)
               PROVE  Work'
    BY <1>3, <1>5, NoWork
  <2>1. Good(runs, Newest) /\ runs'[Newest].base = runs[Newest].base /\ runs'[Newest].safe = runs[Newest].safe
    BY <1>2 DEF Keeps, Good, Spares
  <2>2. QED
    BY <1>1, <1>3, <1>4, <1>5, <2>1 DEF IInv, Work
<1>7. Summing'
  <2>1. ASSUME NEW j \in DOMAIN summaries, Good(runs', summaries[j].run)
        PROVE  /\ summaries[j].run = Newest /\ ~ Working
               /\ DOMAIN summaries = {j} /\ \A k \in DOMAIN cards : cards[k].run # Newest
               /\ captures = <<>> /\ container # 0
               /\ Covers(file, snapshots, touched, runs'[summaries[j].run].base)
               /\ SumsUp(file, touched, summaries[j], runs'[summaries[j].run].base)
    <3>1. Good(runs, summaries[j].run) /\ runs'[summaries[j].run].base = runs[summaries[j].run].base
      BY <1>2, <2>1 DEF Spares
    <3>2. QED
      BY <3>1 DEF IInv, Summing
  <2>2. QED
    BY <1>1, <1>3, <1>4, <1>5, <2>1 DEF Summing
<1>8. HasCard'
  <2>1. \A r \in DOMAIN runs : Awaited(r) => Awaited(r)'
    BY <1>1, <1>3, <1>5 DEF Awaited
  <2>2. QED
    BY <1>1, <1>2, <1>4, <2>1, HasCardFrame DEF IInv
<1>9. QED
  BY <1>5, <1>6, <1>7, <1>8

\* An undo begins with every file that has changed.
LEMMA PressUndoInv ==
  ASSUME IInv, NEW i \in DOMAIN cards, PressUndo(i)
  PROVE  Kept'
<1>1. UNCHANGED <<file, runs, undoVars>>
  BY DEF PressUndo
<1>2. OnlyCard(i, DOMAIN cards[i].changes, "Undoing...")
  BY CardsUndone DEF IInv
<1>3. Keeps(runs')
  BY <1>1, SameRuns DEF IInv, TypeOK
<1>4. Stream' /\ Alone' /\ Fresh' /\ Work' /\ Summing' /\ HasCard'
  BY <1>1, <1>2, <1>3, UndoFrame
<1>5. Carded'
  <2>1. ASSUME NEW j \in DOMAIN cards, Good(runs, cards'[j].run)
        PROVE  Restores(file, cards'[j], runs[cards'[j].run].base)
    <3>1. /\ cards'[j].run = cards[j].run /\ cards'[j].changes = cards[j].changes
          /\ j # i => cards'[j] = cards[j]
      BY <1>2 DEF OnlyCard
    <3>2. Restores(file, cards[j], runs[cards[j].run].base)
      BY <2>1, <3>1 DEF IInv, Carded
    <3>3. CASE j = i
      <4>1. cards'[j].left = DOMAIN cards'[j].changes /\ cards'[j].button = "Undoing..."
        BY <1>2, <3>1, <3>3 DEF OnlyCard
      <4>2. QED
        BY <3>1, <3>2, <4>1 DEF Restores
    <3>4. CASE j # i
      BY <3>1, <3>2, <3>4
    <3>5. QED
      BY <3>3, <3>4
  <2>2. QED
    BY <1>1, <1>2, <2>1 DEF Carded, OnlyCard
<1>6. QED
  BY <1>4, <1>5 DEF Kept

\* An undo that fails disturbs its run.
LEMMA UndoFailsInv ==
  ASSUME IInv, NEW i \in DOMAIN cards, NEW p, UndoFails(i, p)
  PROVE  Kept'
<1>1. UNCHANGED <<file, undoVars>> /\ runs' = Spoil({cards[i].run}, "failed")
  BY DEF UndoFails
<1>2. PICK left, button : OnlyCard(i, left, button)
  BY CardsUndone DEF IInv
<1>3. Keeps(runs') /\ \A r \in DOMAIN runs : runs'[r].spoilt = "no" => r # cards[i].run
  BY <1>1, SpoilFacts DEF IInv, TypeOK, Disturbances
<1>4. Stream' /\ Alone' /\ Fresh' /\ Work' /\ Summing' /\ HasCard'
  BY <1>1, <1>2, <1>3, UndoFrame
<1>5. Spares(runs')
  BY <1>3, KeptFollows
<1>6. Carded'
  <2>1. ASSUME NEW j \in DOMAIN cards, Good(runs', cards'[j].run)
        PROVE  Restores(file, cards'[j], runs'[cards'[j].run].base)
    <3>1. cards'[j].run = cards[j].run /\ (j # i => cards'[j] = cards[j])
      BY <1>2 DEF OnlyCard
    <3>2. Good(runs, cards[j].run) /\ runs'[cards[j].run].base = runs[cards[j].run].base /\ j # i
      BY <1>3, <1>5, <2>1, <3>1 DEF Spares, Good
    <3>3. Restores(file, cards[j], runs[cards[j].run].base)
      BY <3>2 DEF IInv, Carded
    <3>4. QED
      BY <3>1, <3>2, <3>3
  <2>2. QED
    BY <1>1, <1>2, <2>1 DEF Carded, OnlyCard
<1>7. QED
  BY <1>4, <1>6 DEF Kept

\* A file that is written back is restored.
LEMMA UndoOneInv ==
  ASSUME IInv, NEW i \in DOMAIN cards, NEW p, UndoOne(i, p)
  PROVE  Kept'
<1> DEFINE run == cards[i].run
           base == runs[run].base
<1>1. /\ p \in cards[i].left /\ file' = [file EXCEPT ![p] = cards[i].changes[p]]
      /\ runs' = Spoil(DOMAIN runs \ {run}, "overtaken")
  BY DEF UndoOne
<1>2. UNCHANGED <<agents, down, processing, sending, container, made, complete, touched, snapshots,
                  rendered, captures, summaries, stray>>
  BY DEF UndoOne, undoVars, serviceVars, paneVars, awaitVars
<1>3. OnlyCard(i, cards[i].left \ {p}, After(i, p))
  BY <1>1, CardsUndone DEF IInv, UndoOne
<1>4. Keeps(runs') /\ \A r \in DOMAIN runs : runs'[r].spoilt = "no" => r = run
  BY <1>1, SpoilFacts DEF IInv, TypeOK, Disturbances
<1>5. Follows(runs') /\ Spares(runs')
  BY <1>4, KeptFollows
<1>6. Newest' = Newest /\ DOMAIN runs' = DOMAIN runs
  BY <1>5, SameNewest
<1>7. \A r : Good(runs', r) => r = run /\ Good(runs, run) /\ runs'[r].base = base
  BY <1>4, <1>5, <1>6 DEF Good, Spares
<1>8. ASSUME Good(runs, run)
      PROVE  Unrestored(file', base) \subseteq Unrestored(file, base) \ {p}
  <2>1. Restores(file, cards[i], base)
    BY <1>8 DEF IInv, Carded
  <2>2. p \in DOMAIN cards[i].changes /\ cards[i].changes[p] = AsText(base[p])
    BY <1>1, <2>1 DEF IInv, LeftIsChanged, Restores, Agrees
  <2>3. p \in Paths /\ file \in [Paths -> Contents \cup {Absent}]
    BY <1>1, CardFacts DEF IInv, TypeOK, Files
  <2> HIDE DEF base, run
  <2>4. file'[p] = AsText(base[p]) /\ \A q \in Paths \ {p} : file'[q] = file[q]
    BY <1>1, <2>2, <2>3
  <2>5. QED
    BY <2>4 DEF Unrestored
<1> HIDE DEF run, base
<1>9. Stream' /\ Alone' /\ Working' = Working
  BY <1>2, <1>5, StreamFrame DEF IInv
<1>10. Fresh'
  BY <1>2, <1>5, FreshFrame DEF IInv
<1>11. Work'
  <2>1. ASSUME Working, Good(runs', Newest)
        PROVE  FALSE
    BY <1>7, <2>1 DEF IInv, Work, run
  <2>2. QED
    BY <1>6, <1>9, <2>1, NoWork
<1>12. Summing'
  <2>1. ASSUME NEW j \in DOMAIN summaries, Good(runs', summaries[j].run)
        PROVE  FALSE
    <3>1. summaries[j].run = run /\ Good(runs, summaries[j].run)
      BY <1>7, <2>1
    <3>2. run = Newest /\ \A k \in DOMAIN cards : cards[k].run # Newest
      BY <3>1 DEF IInv, Summing
    <3>3. QED
      BY <3>2 DEF run
  <2>2. QED
    BY <1>2, <2>1, NoSumming
<1>13. Carded'
  <2>1. ASSUME NEW j \in DOMAIN cards, Good(runs', cards'[j].run)
        PROVE  Restores(file', cards'[j], runs'[cards'[j].run].base)
    <3>1. /\ cards'[j].run = cards[j].run /\ cards'[j].changes = cards[j].changes
          /\ j # i => cards'[j] = cards[j]
      BY <1>3 DEF OnlyCard
    <3>2. cards[j].run = run /\ Good(runs, run) /\ runs'[cards'[j].run].base = base
      BY <1>7, <2>1, <3>1
    <3>3. Restores(file, cards[j], base) /\ Unrestored(file', base) \subseteq Unrestored(file, base) \ {p}
      BY <1>8, <3>2 DEF IInv, Carded, base
    <3>4. CASE j = i
      <4>1. cards'[i].left = cards[i].left \ {p} /\ cards'[i].button = After(i, p)
        BY <1>3 DEF OnlyCard
      <4>2. cards[i].button = "Undoing..." /\ Unrestored(file, base) \subseteq cards[i].left
        BY <1>1, <3>3, <3>4 DEF Restores
      <4>3. Unrestored(file', base) \subseteq cards'[i].left
        BY <3>3, <4>1, <4>2
      <4>4. cards'[i].left # {} => cards'[i].button = "Undoing..."
        BY <4>1, <4>2 DEF After
      <4>5. cards'[i].button = "Undone" => cards'[i].left = {}
        BY <4>1, <4>2 DEF After
      <4>6. Agrees(cards'[i].changes, base) /\ Unrestored(file', base) \subseteq DOMAIN cards'[i].changes
        BY <3>1, <3>3, <3>4 DEF Restores
      <4>7. QED
        BY <3>2, <3>4, <4>3, <4>4, <4>5, <4>6 DEF Restores
    <3>5. CASE j # i
      <4>1. Restores(file', cards[j], base)
        BY <3>3 DEF Restores
      <4>2. QED
        BY <3>1, <3>2, <3>5, <4>1
    <3>6. QED
      BY <3>4, <3>5
  <2>2. QED
    BY <1>3, <2>1 DEF Carded, OnlyCard
<1>14. HasCard'
  <2>1. ASSUME NEW r, Good(runs', r)
        PROVE  \E j \in DOMAIN cards' : cards'[j].run = r
    BY <1>3, <1>7, <2>1 DEF OnlyCard, run
  <2>2. QED
    BY <2>1 DEF HasCard
<1>15. QED
  BY <1>9, <1>10, <1>11, <1>12, <1>13, <1>14 DEF Kept

-----------------------------------------------------------------------------
(* The invariant holds *)

\* The invariant holds at first.
LEMMA IInvInit ==
  ASSUME Init
  PROVE  IInv
<1>1. TypeOK /\ LeftIsChanged
  BY InitTypes
<1>2. /\ sending = 0 /\ processing = 0 /\ DOMAIN agents = {} /\ DOMAIN down = {} /\ DOMAIN runs = {}
      /\ DOMAIN summaries = {} /\ DOMAIN cards = {}
  BY NoContents DEF Init
<1>3. Stream /\ Alone
  BY <1>2 DEF Stream, Alone, Good
<1>4. Fresh
  <2>1. ~ (sending > 0)
    BY <1>2
  <2>2. QED
    BY <2>1 DEF Fresh
<1>5. Work /\ Summing /\ Carded /\ HasCard
  BY <1>2 DEF Work, Working, Summing, Carded, HasCard
<1>6. QED
  BY <1>1, <1>3, <1>4, <1>5 DEF IInv

\* Every step keeps the invariant.
LEMMA IInvNext ==
  ASSUME IInv, Next
  PROVE  IInv'
<1>1. TypeOK' /\ LeftIsChanged'
  BY NextTypes, LeftStaysChanged DEF IInv
<1>2. ASSUME User
      PROVE  Kept'
  <2>1. ASSUME NEW replayed \in Seq(Calls), NEW answered \in BOOLEAN,
               OpenSession(replayed, answered) \/ Reload(replayed, answered)
        PROVE  Kept'
    BY <2>1, OpenSessionInv, ReloadInv
  <2>2. ASSUME NEW p \in Paths, NEW c \in Contents \cup {Absent}, WriteElsewhere(p, c)
        PROVE  Kept'
    BY <2>2, WriteElsewhereInv
  <2>3. ASSUME NEW i \in DOMAIN cards, PressUndo(i)
        PROVE  Kept'
    BY <2>3, PressUndoInv
  <2>4. SendMessage => Kept'
    BY SendMessageInv
  <2>5. QED
    BY <1>2, <2>1, <2>2, <2>3, <2>4 DEF User
<1>3. ASSUME Agent
      PROVE  Kept'
  BY <1>3, AnnounceInv, CarryOutInv, AgentEndsInv DEF Agent
<1>4. ASSUME Pane
      PROVE  Kept'
  <2>1. ASSUME Submit \/ CallArrives \/ ResultArrives \/ AnswerArrives
        PROVE  Kept'
    BY <2>1, SubmitInv, CallArrivesInv, ResultArrivesInv, AnswerArrivesInv
  <2>2. ASSUME NEW i \in DOMAIN captures, CaptureReads(i) \/ CaptureFails(i) \/ CaptureDone(i)
        PROVE  Kept'
    BY <2>2, CaptureReadsInv, CaptureFailsInv, CaptureDoneInv
  <2>3. ASSUME NEW i \in DOMAIN summaries, NEW after, SummaryReads(i, after)
        PROVE  Kept'
    BY <2>3, SummaryReadsInv
  <2>4. ASSUME NEW i \in DOMAIN cards, NEW p \in cards[i].left, UndoOne(i, p) \/ UndoFails(i, p)
        PROVE  Kept'
    BY <2>4, UndoOneInv, UndoFailsInv
  <2>5. QED
    BY <1>4, <2>1, <2>2, <2>3, <2>4 DEF Pane
<1>5. Kept'
  BY <1>2, <1>3, <1>4 DEF Next
<1>6. QED
  BY <1>1, <1>5 DEF IInv, Kept

\* No step at all keeps it.
LEMMA IInvStutter ==
  ASSUME IInv, UNCHANGED vars
  PROVE  IInv'
<1>1. TypeOK' /\ LeftIsChanged'
  BY TypesStutter DEF IInv
<1>2. UNCHANGED <<file, agents, down, processing, sending, container, made, complete, touched, snapshots,
                  rendered, captures, summaries, cards, runs, stray>>
  BY DEF vars, serviceVars, paneVars, awaitVars, ghostVars
<1>3. Follows(runs') /\ Spares(runs')
  BY <1>2, SameRuns, KeptFollows DEF IInv, TypeOK
<1>4. Newest' = Newest
  BY <1>3, SameNewest
<1>5. Stream' /\ Alone' /\ Fresh' /\ Carded' /\ Working' = Working
  BY <1>2, <1>3, StreamFrame, FreshFrame, CardedFrame DEF IInv
<1>6. Work' /\ Summing'
  BY <1>2, <1>4, <1>5 DEF IInv, Work, Summing
<1>7. HasCard'
  <2>1. \A r \in DOMAIN runs : Awaited(r) => Awaited(r)'
    BY <1>2, <1>4, <1>5 DEF Awaited
  <2>2. QED
    BY <1>2, <1>3, <2>1, HasCardFrame DEF IInv
<1>8. QED
  BY <1>1, <1>5, <1>6, <1>7 DEF IInv

\* The invariant is one of the specification.
LEMMA Invariant ==
  Spec => []IInv
<1>1. Init => IInv
  BY IInvInit
<1>2. IInv /\ [Next]_vars => IInv'
  BY IInvNext, IInvStutter
<1>3. QED
  BY <1>1, <1>2, PTL DEF Spec

\* After an undo every file has the text it had when the run began, unless
\* the run was disturbed: what the card writes back is what
\* captureRunFileSnapshots read before the agent's first write to each file
\* it changed, and every file whose text it changed is on the card, however
\* the reads, the agents' events, the user's messages and reloads of the page
\* are interleaved.
THEOREM UndoAlwaysRestores ==
  Spec => []UndoRestoresRun
<1>1. IInv => UndoRestoresRun
  <2> SUFFICES ASSUME IInv, NEW i \in DOMAIN cards, cards[i].button = "Undone", runs[cards[i].run].spoilt = "no",
                      NEW p \in Paths
               PROVE  AsText(runs[cards[i].run].base[p]) \in {file[p], AsText(file[p])}
    BY DEF UndoRestoresRun
  <2>1. Good(runs, cards[i].run)
    BY CardFacts DEF IInv, Good
  <2>2. Restores(file, cards[i], runs[cards[i].run].base)
    BY <2>1 DEF IInv, Carded
  <2>3. Unrestored(file, runs[cards[i].run].base) = {}
    BY <2>2 DEF Restores
  <2>4. QED
    BY <2>3 DEF Unrestored
<1>2. QED
  BY <1>1, Invariant, PTL

\* A run that has changed the text of a file, and was not disturbed, has its
\* card once the pane has seen its result and answer and has read the touched
\* files again (addRunCompletionMarker, addRunSummaryCard).
THEOREM ChangesAlwaysHaveCard ==
  Spec => []ChangedRunHasCard
<1>1. IInv => ChangedRunHasCard
  <2> SUFFICES ASSUME IInv, NEW r \in DOMAIN runs, runs[r].done, runs[r].spoilt = "no", r \notin Open,
                      NEW p \in Paths, AsText(file[p]) # AsText(runs[r].base[p])
               PROVE  \E i \in DOMAIN cards : cards[i].run = r
    BY DEF ChangedRunHasCard
  <2>1. p \in Different(file, runs[r].base)
    BY DEF Different
  <2>2. Good(runs, r)
    BY DEF Good
  <2>3. ~ (r = Newest /\ Working)
    BY <2>2, BusyOpen DEF IInv
  <2>4. \A i \in DOMAIN summaries : summaries[i].run # r
    BY DEF Open
  <2>5. ~ Awaited(r)
    BY <2>3, <2>4 DEF Awaited
  <2>6. QED
    BY <2>1, <2>2, <2>5 DEF IInv, HasCard
<1>2. QED
  BY <1>1, Invariant, PTL

=============================================================================
