-------------------------- MODULE ChatHistory_proofs --------------------------
(***************************************************************************)
(* What the operators of ChatHistory return: a history again, with which   *)
(* sessions, which messages and which session on show; for any limits and  *)
(* any sessions and messages.                                              *)
(***************************************************************************)
EXTENDS ChatHistory, Integers, FiniteSetTheorems, SequenceTheorems, TLAPS

-----------------------------------------------------------------------------
(* Positions *)

Rank(P, p) == Cardinality(P \cap 1 .. p)

\* Positions are counted off from the first to the last.
LEMMA Ranks ==
  ASSUME NEW n \in Nat, NEW P \in SUBSET (1 .. n)
  PROVE  /\ IsFiniteSet(P) /\ Cardinality(P) \in Nat /\ Cardinality(P) <= n
         /\ \A p \in P : Rank(P, p) \in 1 .. Cardinality(P)
         /\ \A p, q \in P : p < q => Rank(P, p) < Rank(P, q)
         /\ \A i \in 1 .. Cardinality(P) : \E p \in P : Rank(P, p) = i
<1>1. IsFiniteSet(P) /\ Cardinality(P) \in Nat /\ Cardinality(P) <= n
  <2>1. IsFiniteSet(1 .. n) /\ Cardinality(1 .. n) = n
    BY FS_Interval
  <2>2. QED
    BY <2>1, FS_Subset, FS_CardinalityType
<1>2. ASSUME NEW p \in P
      PROVE  /\ Rank(P, p) \in 1 .. Cardinality(P)
             /\ IsFiniteSet(P \cap 1 .. p)
  <2>1. P \cap 1 .. p \in SUBSET P
    OBVIOUS
  <2>2. IsFiniteSet(P \cap 1 .. p) /\ Cardinality(P \cap 1 .. p) <= Cardinality(P)
    BY <1>1, <2>1, FS_Subset
  <2>3. Cardinality(P \cap 1 .. p) \in Nat
    BY <2>2, FS_CardinalityType
  <2>4. p \in P \cap 1 .. p
    OBVIOUS
  <2>5. Cardinality(P \cap 1 .. p) # 0
    BY <2>2, <2>4, FS_EmptySet
  <2>6. QED
    BY <1>1, <2>2, <2>3, <2>5 DEF Rank
<1>3. ASSUME NEW p \in P, NEW q \in P, p < q
      PROVE  Rank(P, p) < Rank(P, q)
  <2>1. P \cap 1 .. p \in SUBSET (P \cap 1 .. q)
    BY <1>3
  <2>2. q \in P \cap 1 .. q /\ q \notin P \cap 1 .. p
    BY <1>3
  <2>3. Cardinality(P \cap 1 .. p) <= Cardinality(P \cap 1 .. q)
    BY <1>2, <2>1, FS_Subset
  <2>4. Cardinality(P \cap 1 .. p) # Cardinality(P \cap 1 .. q)
    BY <1>2, <2>1, <2>2, FS_Subset
  <2>5. QED
    BY <1>1, <1>2, <2>3, <2>4 DEF Rank
<1>4. ASSUME NEW i \in 1 .. Cardinality(P)
      PROVE  \E p \in P : Rank(P, p) = i
  <2> DEFINE f == [p \in P |-> Rank(P, p)]
  <2>1. f \in [P -> 1 .. Cardinality(P)]
    BY <1>2
  <2>2. \A p, q \in P : f[p] = f[q] => p = q
    <3>1. SUFFICES ASSUME NEW p \in P, NEW q \in P, f[p] = f[q]
                   PROVE  p = q
      OBVIOUS
    <3>2. Rank(P, p) = Rank(P, q)
      BY <3>1
    <3>3. Rank(P, p) \in Nat /\ Rank(P, q) \in Nat
      BY <1>2, FS_CardinalityType DEF Rank
    <3>4. ~ p < q /\ ~ q < p
      BY <1>3, <3>2, <3>3
    <3>5. p \in Int /\ q \in Int
      OBVIOUS
    <3>6. QED
      BY <3>4, <3>5
  <2>3. f \in Injection(P, 1 .. Cardinality(P))
    BY <2>1, <2>2 DEF Injection, IsInjective
  <2>4. IsFiniteSet(1 .. Cardinality(P)) /\ Cardinality(1 .. Cardinality(P)) = Cardinality(P)
    BY <1>1, FS_Interval
  <2>5. f \in Surjection(P, 1 .. Cardinality(P))
    BY <2>3, <2>4, FS_Injection
  <2>6. PICK p \in P : f[p] = i
    BY <2>5 DEF Surjection
  <2>7. QED
    BY <2>6
<1>5. QED
  BY <1>1, <1>2, <1>3, <1>4

\* At takes the elements at these positions, each at its rank.
LEMMA AtRank ==
  ASSUME NEW T, NEW s \in Seq(T), NEW P \in SUBSET DOMAIN s
  PROVE  /\ At(s, P) \in Seq(T) /\ Len(At(s, P)) = Cardinality(P) /\ Cardinality(P) \in Nat
         /\ DOMAIN At(s, P) = 1 .. Cardinality(P)
         /\ Cardinality(P) <= Len(s)
         /\ \A p \in P : Rank(P, p) \in 1 .. Cardinality(P) /\ At(s, P)[Rank(P, p)] = s[p]
         /\ \A i \in 1 .. Cardinality(P) : \E p \in P : Rank(P, p) = i
         /\ \A p, q \in P : p < q => Rank(P, p) < Rank(P, q)
<1>1. Len(s) \in Nat /\ DOMAIN s = 1 .. Len(s)
  OBVIOUS
<1>2. /\ IsFiniteSet(P) /\ Cardinality(P) \in Nat /\ Cardinality(P) <= Len(s)
      /\ \A p \in P : Rank(P, p) \in 1 .. Cardinality(P)
      /\ \A p, q \in P : p < q => Rank(P, p) < Rank(P, q)
      /\ \A i \in 1 .. Cardinality(P) : \E p \in P : Rank(P, p) = i
  BY <1>1, Ranks
<1>3. At(s, P) = [i \in 1 .. Cardinality(P) |-> s[CHOOSE p \in P : Rank(P, p) = i]]
  BY DEF At, Rank
<1>4. ASSUME NEW i \in 1 .. Cardinality(P)
      PROVE  (CHOOSE p \in P : Rank(P, p) = i) \in P /\ Rank(P, CHOOSE p \in P : Rank(P, p) = i) = i
  BY <1>2
<1>5. At(s, P) \in [1 .. Cardinality(P) -> T]
  BY <1>1, <1>3, <1>4
<1>6. At(s, P) \in Seq(T) /\ Len(At(s, P)) = Cardinality(P) /\ DOMAIN At(s, P) = 1 .. Cardinality(P)
  BY <1>2, <1>5
<1>7. ASSUME NEW p \in P
      PROVE  At(s, P)[Rank(P, p)] = s[p]
  <2> DEFINE q == CHOOSE r \in P : Rank(P, r) = Rank(P, p)
  <2>1. q \in P /\ Rank(P, q) = Rank(P, p)
    BY <1>2, <1>4
  <2>2. q = p
    <3>1. ~ q < p /\ ~ p < q
      BY <1>2, <2>1
    <3>2. p \in Nat /\ q \in Nat
      BY <1>1, <2>1
    <3>3. QED
      BY <3>1, <3>2
  <2>3. At(s, P)[Rank(P, p)] = s[q]
    BY <1>2, <1>3
  <2>4. QED
    BY <2>2, <2>3
<1>8. QED
  BY <1>2, <1>6, <1>7

\* Positions of a prefix give the elements of the prefix.
LEMMA AtPrefix ==
  ASSUME NEW T, NEW s \in Seq(T), NEW t \in Seq(T), NEW P \in SUBSET DOMAIN s,
         DOMAIN s \subseteq DOMAIN t, \A p \in DOMAIN s : t[p] = s[p]
  PROVE  At(t, P) = At(s, P)
<1>1. P \in SUBSET DOMAIN t
  OBVIOUS
<1>2. /\ DOMAIN At(s, P) = 1 .. Cardinality(P) /\ DOMAIN At(t, P) = 1 .. Cardinality(P)
      /\ \A p \in P : At(s, P)[Rank(P, p)] = s[p] /\ At(t, P)[Rank(P, p)] = t[p]
      /\ \A i \in 1 .. Cardinality(P) : \E p \in P : Rank(P, p) = i
      /\ At(s, P) \in Seq(T) /\ At(t, P) \in Seq(T)
      /\ Len(At(s, P)) = Cardinality(P) /\ Len(At(t, P)) = Cardinality(P)
  BY <1>1, AtRank
<1>3. ASSUME NEW i \in 1 .. Cardinality(P)
      PROVE  At(t, P)[i] = At(s, P)[i]
  BY <1>2
<1>4. QED
  BY <1>2, <1>3, SeqEqual

\* One more element that is taken comes last.
LEMMA AtLast ==
  ASSUME NEW T, NEW s \in Seq(T), NEW m \in T, NEW P \in SUBSET DOMAIN s
  PROVE  At(Append(s, m), P \cup {Len(s) + 1}) = Append(At(s, P), m)
<1> DEFINE t == Append(s, m)
           last == Len(s) + 1
           Q == P \cup {last}
<1>1. /\ Len(s) \in Nat /\ DOMAIN s = 1 .. Len(s) /\ t \in Seq(T) /\ Len(t) = last /\ DOMAIN t = 1 .. last
      /\ t[last] = m /\ \A p \in DOMAIN s : t[p] = s[p]
  OBVIOUS
<1>2. P \in SUBSET (1 .. Len(s)) /\ last \notin P /\ P \in SUBSET DOMAIN t /\ Q \in SUBSET DOMAIN t
  BY <1>1
<1>3. IsFiniteSet(P) /\ Cardinality(P) \in Nat /\ Cardinality(Q) = Cardinality(P) + 1
  BY <1>1, <1>2, Ranks, FS_AddElement
<1>4. ASSUME NEW p \in P
      PROVE  Rank(Q, p) = Rank(P, p)
  <2>1. Q \cap 1 .. p = P \cap 1 .. p
    BY <1>1, <1>2
  <2>2. QED
    BY <2>1 DEF Rank
<1>5. Rank(Q, last) = Cardinality(P) + 1
  <2>1. Q \cap 1 .. last = Q
    BY <1>1, <1>2
  <2>2. QED
    BY <1>3, <2>1 DEF Rank
<1> HIDE DEF t, last, Q
<1>6. /\ At(s, P) \in Seq(T) /\ Len(At(s, P)) = Cardinality(P)
      /\ \A p \in P : Rank(P, p) \in 1 .. Cardinality(P) /\ At(s, P)[Rank(P, p)] = s[p]
      /\ \A i \in 1 .. Cardinality(P) : \E p \in P : Rank(P, p) = i
  BY AtRank
<1>7. /\ At(t, Q) \in Seq(T) /\ Len(At(t, Q)) = Cardinality(Q)
      /\ \A p \in Q : At(t, Q)[Rank(Q, p)] = t[p]
  BY <1>1, <1>2, AtRank
<1>8. last \in Q /\ P \subseteq Q
  BY DEF Q
<1>9. At(t, Q)[Cardinality(P) + 1] = m
  BY <1>1, <1>5, <1>7, <1>8
<1>10. ASSUME NEW i \in 1 .. Cardinality(P)
       PROVE  At(t, Q)[i] = At(s, P)[i]
  <2>1. PICK p \in P : Rank(P, p) = i
    BY <1>6
  <2>2. At(t, Q)[i] = t[p] /\ At(s, P)[i] = s[p]
    BY <1>4, <1>6, <1>7, <1>8, <2>1
  <2>3. QED
    BY <1>1, <2>2
<1> DEFINE u == Append(At(s, P), m)
<1>11. /\ u \in Seq(T) /\ Len(u) = Cardinality(P) + 1 /\ u[Cardinality(P) + 1] = m
       /\ \A i \in 1 .. Cardinality(P) : u[i] = At(s, P)[i]
  BY <1>3, <1>6
<1> HIDE DEF u
<1>12. \A i \in 1 .. Cardinality(P) + 1 : i \in 1 .. Cardinality(P) \/ i = Cardinality(P) + 1
  BY <1>3
<1>13. ASSUME NEW i \in 1 .. Len(u)
       PROVE  At(t, Q)[i] = u[i]
  <2>1. i \in 1 .. Cardinality(P) \/ i = Cardinality(P) + 1
    BY <1>11, <1>12
  <2>2. QED
    BY <1>9, <1>10, <1>11, <2>1
<1>14. At(t, Q) = u
  BY <1>3, <1>7, <1>11, <1>13, SeqEqual
<1>15. QED
  BY <1>14 DEF t, Q, u, last

-----------------------------------------------------------------------------
(* Filtering *)

\* What a sequence keeps that is filtered, and that it keeps it once.
LEMMA Filtered ==
  ASSUME NEW T, NEW s \in Seq(T), NEW kept
  PROVE  /\ Filter(s, kept) \in Seq(T) /\ Len(Filter(s, kept)) <= Len(s)
         /\ ToSet(Filter(s, kept)) = ToSet(s) \cap kept
         /\ IsInjective(s) => IsInjective(Filter(s, kept))
<1> DEFINE P == {i \in DOMAIN s : s[i] \in kept}
           t == At(s, P)
<1>1. Len(s) \in Nat /\ DOMAIN s = 1 .. Len(s) /\ P \in SUBSET DOMAIN s
  OBVIOUS
<1>2. \A p \in P : p \in DOMAIN s /\ s[p] \in kept
  OBVIOUS
<1>3. \A p \in DOMAIN s : s[p] \in kept => p \in P
  OBVIOUS
<1>4. Filter(s, kept) = t
  BY DEF Filter
<1> HIDE DEF P
<1>5. /\ t \in Seq(T) /\ Len(t) = Cardinality(P) /\ Cardinality(P) \in Nat /\ DOMAIN t = 1 .. Cardinality(P)
      /\ Cardinality(P) <= Len(s)
      /\ \A p \in P : Rank(P, p) \in 1 .. Cardinality(P) /\ t[Rank(P, p)] = s[p]
      /\ \A i \in 1 .. Cardinality(P) : \E p \in P : Rank(P, p) = i
  BY <1>1, AtRank
<1> HIDE DEF t
<1>6. ToSet(t) \subseteq ToSet(s) \cap kept
  BY <1>5, <1>2 DEF ToSet
<1>7. ToSet(s) \cap kept \subseteq ToSet(t)
  BY <1>5, <1>3 DEF ToSet
<1>8. ASSUME IsInjective(s), NEW i \in DOMAIN t, NEW j \in DOMAIN t, t[i] = t[j]
      PROVE  i = j
  <2>1. PICK p \in P : Rank(P, p) = i
    BY <1>5
  <2>2. PICK q \in P : Rank(P, q) = j
    BY <1>5
  <2>3. s[p] = s[q]
    BY <1>5, <1>8, <2>1, <2>2
  <2>4. p = q
    BY <1>2, <1>8, <2>3 DEF IsInjective
  <2>5. QED
    BY <2>1, <2>2, <2>4
<1>9. QED
  BY <1>5, <1>4, <1>6, <1>7, <1>8 DEF IsInjective

\* A sequence without duplicates is as long as its set is large.
LEMMA DistinctLength ==
  ASSUME NEW T, NEW s \in Seq(T), IsInjective(s)
  PROVE  IsFiniteSet(ToSet(s)) /\ Cardinality(ToSet(s)) = Len(s)
<1>1. Len(s) \in Nat /\ DOMAIN s = 1 .. Len(s)
  OBVIOUS
<1>2. s \in [1 .. Len(s) -> ToSet(s)]
  BY <1>1 DEF ToSet
<1>3. s \in Surjection(1 .. Len(s), ToSet(s))
  BY <1>1, <1>2 DEF Surjection, ToSet
<1>4. s \in Injection(1 .. Len(s), ToSet(s))
  BY <1>1, <1>2 DEF Injection, IsInjective
<1>5. IsFiniteSet(1 .. Len(s)) /\ Cardinality(1 .. Len(s)) = Len(s)
  BY <1>1, FS_Interval
<1>6. QED
  BY <1>3, <1>4, <1>5, FS_Surjection

-----------------------------------------------------------------------------
(* The last elements of a sequence *)

\* The end of a sequence that is too long.
LEMMA LastNLong ==
  ASSUME NEW T, NEW s \in Seq(T), NEW n \in Nat, Len(s) > n
  PROVE  /\ LastN(s, n) \in Seq(T) /\ Len(LastN(s, n)) = n
         /\ \A i \in 1 .. n : LastN(s, n)[i] = s[Len(s) - n + i]
         /\ ToSet(LastN(s, n)) \subseteq ToSet(s)
<1> DEFINE t == SubSeq(s, Len(s) - n + 1, Len(s))
<1>1. Len(s) \in Nat /\ DOMAIN s = 1 .. Len(s)
  OBVIOUS
<1>2. LastN(s, n) = t
  BY <1>1 DEF LastN
<1>3. t \in Seq(T) /\ Len(t) = n /\ DOMAIN t = 1 .. n
  BY <1>1
<1>4. \A i \in 1 .. n : t[i] = s[Len(s) - n + i]
  BY <1>1
<1>5. \A i \in 1 .. n : Len(s) - n + i \in DOMAIN s
  BY <1>1
<1> HIDE DEF t
<1>6. ToSet(t) \subseteq ToSet(s)
  BY <1>3, <1>4, <1>5 DEF ToSet
<1>7. QED
  BY <1>2, <1>3, <1>4, <1>6

\* A sequence is as long as it is, but for the limit.
LEMMA LastNFacts ==
  ASSUME NEW T, NEW s \in Seq(T), NEW n \in Nat
  PROVE  /\ LastN(s, n) \in Seq(T) /\ Len(LastN(s, n)) = IF Len(s) <= n THEN Len(s) ELSE n
         /\ ToSet(LastN(s, n)) \subseteq ToSet(s)
         /\ Len(s) <= n => LastN(s, n) = s
<1>1. Len(s) \in Nat
  OBVIOUS
<1>2. CASE Len(s) <= n
  BY <1>1, <1>2 DEF LastN
<1>3. CASE Len(s) > n
  <2>1. ~ Len(s) <= n
    BY <1>1, <1>3
  <2>2. QED
    BY <1>3, <2>1, LastNLong
<1>4. QED
  BY <1>1, <1>2, <1>3

\* Cutting off before an element is appended makes no difference.
LEMMA LastNTwice ==
  ASSUME NEW T, NEW s \in Seq(T), NEW n \in Nat \ {0}, NEW m \in T
  PROVE  LastN(Append(LastN(s, n), m), n) = LastN(Append(s, m), n)
<1>1. CASE Len(s) <= n
  BY <1>1, LastNFacts
<1>2. CASE Len(s) > n
  <2>1. PICK t : t = LastN(s, n)
    OBVIOUS
  <2>2. PICK u : u = Append(t, m)
    OBVIOUS
  <2>3. PICK v : v = Append(s, m)
    OBVIOUS
  <2>4. t \in Seq(T) /\ Len(t) = n /\ \A i \in 1 .. n : t[i] = s[Len(s) - n + i]
    BY <1>2, <2>1, LastNLong
  <2>5. u \in Seq(T) /\ Len(u) = n + 1 /\ u[n + 1] = m /\ \A i \in 1 .. n : u[i] = t[i]
    BY <2>2, <2>4
  <2>6. /\ v \in Seq(T) /\ Len(v) = Len(s) + 1 /\ v[Len(s) + 1] = m /\ Len(s) \in Nat
        /\ \A i \in 1 .. Len(s) : v[i] = s[i]
    BY <2>3
  <2>7. /\ LastN(u, n) \in Seq(T) /\ Len(LastN(u, n)) = n
        /\ \A i \in 1 .. n : LastN(u, n)[i] = u[Len(u) - n + i]
    <3>1. Len(u) > n
      BY <2>5
    <3>2. QED
      BY <2>5, <3>1, LastNLong
  <2>8. /\ LastN(v, n) \in Seq(T) /\ Len(LastN(v, n)) = n
        /\ \A i \in 1 .. n : LastN(v, n)[i] = v[Len(v) - n + i]
    <3>1. Len(v) > n
      BY <1>2, <2>6
    <3>2. v \in Seq(T) /\ n \in Nat
      BY <2>6
    <3>3. QED
      BY <3>1, <3>2, LastNLong
  <2>9. ASSUME NEW i \in 1 .. n
        PROVE  u[Len(u) - n + i] = v[Len(v) - n + i]
    <3>1. Len(u) - n + i = i + 1 /\ Len(v) - n + i = Len(s) - n + (i + 1)
      BY <2>5, <2>6
    <3>2. CASE i = n
      BY <2>5, <2>6, <3>1, <3>2
    <3>3. CASE i # n
      <4>1. i + 1 \in 1 .. n /\ Len(s) - n + (i + 1) \in 1 .. Len(s)
        BY <1>2, <2>6, <3>3
      <4>2. u[i + 1] = s[Len(s) - n + (i + 1)] /\ v[Len(s) - n + (i + 1)] = s[Len(s) - n + (i + 1)]
        BY <2>4, <2>5, <2>6, <4>1
      <4>3. QED
        BY <3>1, <4>2
    <3>4. QED
      BY <3>2, <3>3
  <2>10. \A i \in 1 .. n : LastN(u, n)[i] = LastN(v, n)[i]
    BY <2>7, <2>8, <2>9
  <2>11. LastN(u, n) = LastN(v, n)
    BY <2>7, <2>8, <2>10, SeqEqual
  <2>12. QED
    BY <2>1, <2>2, <2>3, <2>11
<1>3. QED
  BY <1>1, <1>2

-----------------------------------------------------------------------------
(* Histories *)

\* A history of sessions from S and messages from M.
IsHistory(h, S, M) ==
  /\ \E list, pinned, recent, messages, active :
       h = [list |-> list, pinned |-> pinned, recent |-> recent, messages |-> messages, active |-> active]
  /\ h.list \in Seq(S) /\ IsInjective(h.list)
  /\ h.recent \in Seq(S) /\ IsInjective(h.recent) /\ ToSet(h.recent) = Sessions(h)
  /\ h.pinned \subseteq Sessions(h)
  /\ h.messages \in [Sessions(h) -> Seq(M)]
  /\ \A s \in Sessions(h) : Len(h.messages[s]) <= MaxMessages

\* g is h but for some sessions that are gone and the order of the rest.
Within(g, h) ==
  /\ Sessions(g) \subseteq Sessions(h)
  /\ g.pinned \subseteq h.pinned
  /\ \A s \in Sessions(g) : g.messages[s] = h.messages[s]
  /\ g.active = h.active

\* g is h in another order.
Reordered(g, h) == Within(g, h) /\ Sessions(g) = Sessions(h) /\ g.pinned = h.pinned /\ g.messages = h.messages

\* Keeping some sessions.
LEMMA KeptSessions ==
  ASSUME NEW S, NEW M, NEW h, IsHistory(h, S, M), NEW kept
  PROVE  /\ IsHistory(Keep(h, kept), S, M) /\ Within(Keep(h, kept), h)
         /\ Sessions(Keep(h, kept)) = Sessions(h) \cap kept
         /\ Len(Keep(h, kept).list) <= Len(h.list)
<1> DEFINE g == Keep(h, kept)
<1>1. g = [list |-> Filter(h.list, kept), pinned |-> h.pinned \cap kept, recent |-> Filter(h.recent, kept),
           messages |-> [s \in DOMAIN h.messages \cap kept |-> h.messages[s]], active |-> h.active]
  BY DEF Keep
<1> HIDE DEF g
<1>2. /\ g.list \in Seq(S) /\ IsInjective(g.list) /\ ToSet(g.list) = ToSet(h.list) \cap kept
      /\ Len(g.list) <= Len(h.list)
      /\ g.recent \in Seq(S) /\ IsInjective(g.recent) /\ ToSet(g.recent) = ToSet(h.recent) \cap kept
  BY <1>1, Filtered DEF IsHistory
<1>3. Sessions(g) = Sessions(h) \cap kept
  BY <1>2 DEF Sessions
<1>4. /\ g.messages \in [Sessions(g) -> Seq(M)]
      /\ \A s \in Sessions(g) : g.messages[s] = h.messages[s] /\ Len(h.messages[s]) <= MaxMessages
  BY <1>1, <1>3 DEF IsHistory
<1>5. g.pinned = h.pinned \cap kept /\ g.active = h.active
  BY <1>1
<1>6. \E l, p, r, m, a : g = [list |-> l, pinned |-> p, recent |-> r, messages |-> m, active |-> a]
  BY <1>1
<1>7. IsHistory(g, S, M)
  BY <1>2, <1>3, <1>4, <1>5, <1>6 DEF IsHistory
<1>8. Within(g, h)
  BY <1>3, <1>4, <1>5 DEF Within
<1>9. QED
  BY <1>2, <1>3, <1>7, <1>8 DEF g

\* The first MaxSessions sessions are kept.
LEMMA SlicedHistory ==
  ASSUME NEW S, NEW M, NEW h, IsHistory(h, S, M)
  PROVE  /\ IsHistory(Slice(h), S, M) /\ Within(Slice(h), h)
         /\ Len(Slice(h).list) <= MaxSessions
         /\ \A i \in DOMAIN h.list : i <= MaxSessions => h.list[i] \in Sessions(Slice(h))
<1>1. Len(h.list) \in Nat /\ DOMAIN h.list = 1 .. Len(h.list) /\ h.list \in Seq(S) /\ IsInjective(h.list)
  BY DEF IsHistory
<1>2. MaxSessions \in Nat \ {0}
  BY HistoryLimits
<1>3. CASE Len(h.list) <= MaxSessions
  <2>1. Slice(h) = h
    BY <1>3 DEF Slice
  <2>2. Within(h, h)
    BY DEF Within
  <2>3. \A i \in DOMAIN h.list : h.list[i] \in Sessions(h)
    BY DEF Sessions, ToSet
  <2>4. QED
    BY <1>3, <2>1, <2>2, <2>3
<1>4. CASE ~ Len(h.list) <= MaxSessions
  <2> DEFINE first == SubSeq(h.list, 1, MaxSessions)
             g == Keep(h, ToSet(first))
  <2>1. Slice(h) = g
    BY <1>4 DEF Slice
  <2>2. /\ first \in Seq(S) /\ Len(first) = MaxSessions /\ DOMAIN first = 1 .. MaxSessions
        /\ \A i \in 1 .. MaxSessions : first[i] = h.list[i]
    BY <1>1, <1>2, <1>4
  <2> HIDE DEF first
  <2>3. IsHistory(g, S, M) /\ Within(g, h) /\ Sessions(g) = Sessions(h) \cap ToSet(first)
    BY KeptSessions
  <2> HIDE DEF g
  <2>4. \A i \in 1 .. MaxSessions : h.list[i] \in ToSet(first) /\ h.list[i] \in Sessions(h)
    BY <1>1, <1>4, <2>2 DEF ToSet, Sessions
  <2>5. ToSet(first) \subseteq Sessions(h)
    BY <2>2, <2>4 DEF ToSet
  <2>6. IsInjective(first)
    BY <1>1, <1>2, <1>4, <2>2 DEF IsInjective
  <2>7. Cardinality(ToSet(first)) = MaxSessions
    BY <2>2, <2>6, DistinctLength
  <2>8. Len(g.list) = Cardinality(Sessions(g))
    BY <2>3, DistinctLength DEF IsHistory, Sessions
  <2>9. Sessions(g) = ToSet(first)
    BY <2>3, <2>5
  <2>10. Len(g.list) <= MaxSessions
    BY <1>2, <2>7, <2>8, <2>9
  <2>11. \A i \in DOMAIN h.list : i <= MaxSessions => i \in 1 .. MaxSessions
    BY <1>1, <1>2
  <2>12. QED
    BY <2>1, <2>3, <2>4, <2>9, <2>10, <2>11
<1>5. QED
  BY <1>3, <1>4

\* What a change of one field leaves alone.
LEMMA ListReplaced ==
  ASSUME NEW S, NEW M, NEW h, IsHistory(h, S, M), NEW list \in Seq(S), IsInjective(list), ToSet(list) = Sessions(h),
         NEW g, g = [h EXCEPT !.list = list]
  PROVE  IsHistory(g, S, M) /\ Reordered(g, h) /\ g.list = list /\ g.recent = h.recent
<1>1. PICK l, p, r, m, a : h = [list |-> l, pinned |-> p, recent |-> r, messages |-> m, active |-> a]
  BY DEF IsHistory
<1>2. g = [list |-> list, pinned |-> p, recent |-> r, messages |-> m, active |-> a]
  BY <1>1
<1>3. /\ \E l2, p2, r2, m2, a2 : g = [list |-> l2, pinned |-> p2, recent |-> r2, messages |-> m2, active |-> a2]
      /\ g.list = list /\ g.pinned = h.pinned /\ g.recent = h.recent /\ g.messages = h.messages /\ g.active = h.active
  BY <1>1, <1>2
<1>4. Sessions(g) = Sessions(h)
  BY <1>3 DEF Sessions
<1>5. IsHistory(g, S, M)
  BY <1>3, <1>4 DEF IsHistory
<1>6. Reordered(g, h)
  BY <1>3, <1>4 DEF Reordered, Within
<1>7. QED
  BY <1>3, <1>5, <1>6

\* The sessions in another order of time.
LEMMA RecentReplaced ==
  ASSUME NEW S, NEW M, NEW h, IsHistory(h, S, M), NEW recent \in Seq(S), IsInjective(recent), ToSet(recent) = Sessions(h),
         NEW g, g = [h EXCEPT !.recent = recent]
  PROVE  IsHistory(g, S, M) /\ Reordered(g, h) /\ g.recent = recent /\ g.list = h.list
<1>1. PICK l, p, r, m, a : h = [list |-> l, pinned |-> p, recent |-> r, messages |-> m, active |-> a]
  BY DEF IsHistory
<1>2. g = [list |-> l, pinned |-> p, recent |-> recent, messages |-> m, active |-> a]
  BY <1>1
<1>3. /\ \E l2, p2, r2, m2, a2 : g = [list |-> l2, pinned |-> p2, recent |-> r2, messages |-> m2, active |-> a2]
      /\ g.list = h.list /\ g.pinned = h.pinned /\ g.recent = recent /\ g.messages = h.messages /\ g.active = h.active
  BY <1>1, <1>2
<1>4. Sessions(g) = Sessions(h)
  BY <1>3 DEF Sessions
<1>5. IsHistory(g, S, M)
  BY <1>3, <1>4 DEF IsHistory
<1>6. Reordered(g, h)
  BY <1>3, <1>4 DEF Reordered, Within
<1>7. QED
  BY <1>3, <1>5, <1>6

\* Two sequences without duplicates and with nothing in common, one after the other.
LEMMA Joined ==
  ASSUME NEW S, NEW a \in Seq(S), NEW b \in Seq(S), IsInjective(a), IsInjective(b), ToSet(a) \cap ToSet(b) = {}
  PROVE  /\ a \o b \in Seq(S) /\ IsInjective(a \o b) /\ ToSet(a \o b) = ToSet(a) \cup ToSet(b)
         /\ \A i \in DOMAIN a : i \in DOMAIN (a \o b) /\ (a \o b)[i] = a[i]
         /\ \A i \in DOMAIN b : Len(a) + i \in DOMAIN (a \o b) /\ (a \o b)[Len(a) + i] = b[i]
<1> DEFINE c == a \o b
<1>1. /\ Len(a) \in Nat /\ Len(b) \in Nat /\ DOMAIN a = 1 .. Len(a) /\ DOMAIN b = 1 .. Len(b)
      /\ c \in Seq(S) /\ Len(c) = Len(a) + Len(b) /\ DOMAIN c = 1 .. Len(a) + Len(b)
      /\ \A i \in 1 .. Len(a) : c[i] = a[i]
      /\ \A i \in 1 .. Len(b) : c[Len(a) + i] = b[i]
  OBVIOUS
<1> HIDE DEF c
<1>2. \A i \in DOMAIN c : (i \in DOMAIN a /\ c[i] = a[i]) \/ \E j \in DOMAIN b : i = Len(a) + j /\ c[i] = b[j]
  <2>1. SUFFICES ASSUME NEW i \in DOMAIN c, i \notin DOMAIN a
                 PROVE  \E j \in DOMAIN b : i = Len(a) + j /\ c[i] = b[j]
    BY <1>1
  <2>2. i - Len(a) \in DOMAIN b /\ i = Len(a) + (i - Len(a))
    BY <1>1, <2>1
  <2>3. QED
    BY <1>1, <2>2
<1>3. \A i \in DOMAIN a : i \in DOMAIN c /\ c[i] = a[i]
  BY <1>1
<1>4. \A i \in DOMAIN b : Len(a) + i \in DOMAIN c /\ c[Len(a) + i] = b[i]
  BY <1>1
<1>5. ToSet(c) = ToSet(a) \cup ToSet(b)
  BY <1>2, <1>3, <1>4 DEF ToSet
<1>6. \A i \in DOMAIN a, j \in DOMAIN b : a[i] # b[j]
  BY DEF ToSet
<1>7. IsInjective(c)
  <2>1. SUFFICES ASSUME NEW i \in DOMAIN c, NEW j \in DOMAIN c, c[i] = c[j]
                 PROVE  i = j
    BY DEF IsInjective
  <2>2. CASE i \in DOMAIN a /\ c[i] = a[i] /\ j \in DOMAIN a /\ c[j] = a[j]
    BY <2>1, <2>2 DEF IsInjective
  <2>3. CASE (\E k \in DOMAIN b : i = Len(a) + k /\ c[i] = b[k]) /\ (\E k \in DOMAIN b : j = Len(a) + k /\ c[j] = b[k])
    BY <2>1, <2>3 DEF IsInjective
  <2>4. QED
    BY <1>2, <1>6, <2>1, <2>2, <2>3
<1>8. QED
  BY <1>1, <1>3, <1>4, <1>5, <1>7 DEF c

\* The sessions in another order.
LEMMA SortedHistory ==
  ASSUME NEW S, NEW M, NEW h, IsHistory(h, S, M)
  PROVE  IsHistory(Sort(h), S, M) /\ Reordered(Sort(h), h)
<1> DEFINE a == Filter(h.recent, h.pinned)
           b == Filter(h.recent, ToSet(h.recent) \ h.pinned)
<1>1. /\ h.recent \in Seq(S) /\ IsInjective(h.recent) /\ ToSet(h.recent) = Sessions(h)
      /\ h.pinned \subseteq Sessions(h)
  BY DEF IsHistory
<1>2. /\ a \in Seq(S) /\ IsInjective(a) /\ ToSet(a) = ToSet(h.recent) \cap h.pinned
      /\ b \in Seq(S) /\ IsInjective(b) /\ ToSet(b) = ToSet(h.recent) \cap (ToSet(h.recent) \ h.pinned)
  BY <1>1, Filtered
<1>3. Sort(h) = [h EXCEPT !.list = a \o b]
  BY DEF Sort
<1> HIDE DEF a, b
<1>4. PICK c : c = a \o b
  OBVIOUS
<1>5. c \in Seq(S) /\ IsInjective(c) /\ ToSet(c) = ToSet(a) \cup ToSet(b)
  BY <1>2, <1>4, Joined
<1>6. ToSet(c) = Sessions(h)
  BY <1>1, <1>2, <1>5
<1>7. QED
  BY <1>3, <1>4, <1>5, <1>6, ListReplaced

\* The session touched comes first.
LEMMA TouchedHistory ==
  ASSUME NEW S, NEW M, NEW h, IsHistory(h, S, M), NEW s \in Sessions(h)
  PROVE  /\ IsHistory(Touch(h, s), S, M) /\ Reordered(Touch(h, s), h) /\ Touch(h, s).list = h.list
         /\ Touch(h, s).recent # <<>> /\ Touch(h, s).recent[1] = s
<1> DEFINE b == Filter(h.recent, ToSet(h.recent) \ {s})
<1>1. h.recent \in Seq(S) /\ IsInjective(h.recent) /\ ToSet(h.recent) = Sessions(h)
  BY DEF IsHistory
<1>2. b \in Seq(S) /\ IsInjective(b) /\ ToSet(b) = ToSet(h.recent) \cap (ToSet(h.recent) \ {s})
  BY <1>1, Filtered
<1>3. Touch(h, s) = [h EXCEPT !.recent = <<s>> \o b]
  BY DEF Touch
<1> HIDE DEF b
<1>4. s \in S
  BY <1>1 DEF ToSet
<1>5. PICK a : a = <<s>>
  OBVIOUS
<1>6. a \in Seq(S) /\ ToSet(a) = {s} /\ IsInjective(a) /\ 1 \in DOMAIN a /\ a[1] = s
  BY <1>4, <1>5 DEF ToSet, IsInjective
<1>7. ToSet(a) \cap ToSet(b) = {}
  BY <1>2, <1>6
<1>8. PICK c : c = a \o b
  OBVIOUS
<1>9. /\ c \in Seq(S) /\ IsInjective(c) /\ ToSet(c) = {s} \cup ToSet(b)
      /\ \A i \in DOMAIN a : i \in DOMAIN c /\ c[i] = a[i]
  BY <1>2, <1>6, <1>7, <1>8, Joined
<1>10. c # <<>> /\ c[1] = s
  BY <1>6, <1>9
<1>11. ToSet(c) = Sessions(h)
  BY <1>1, <1>2, <1>9
<1>12. Touch(h, s) = [h EXCEPT !.recent = c]
  BY <1>3, <1>5, <1>8
<1>13. IsHistory(Touch(h, s), S, M) /\ Reordered(Touch(h, s), h) /\ Touch(h, s).recent = c /\ Touch(h, s).list = h.list
  BY <1>9, <1>11, <1>12, RecentReplaced
<1>14. QED
  BY <1>10, <1>13

\* A history of some sessions and messages is one of any that hold them.
LEMMA HistoryOf ==
  ASSUME NEW S, NEW M, NEW h, IsHistory(h, S, M), NEW S2, NEW M2, Sessions(h) \subseteq S2, M \subseteq M2
  PROVE  IsHistory(h, S2, M2)
<1>1. h.list \in Seq(S2) /\ h.recent \in Seq(S2)
  <2>1. ASSUME NEW q \in Seq(S), ToSet(q) \subseteq S2
        PROVE  q \in Seq(S2)
    <3>1. \A i \in 1 .. Len(q) : q[i] \in S2
      BY <2>1 DEF ToSet
    <3>2. QED
      BY <3>1
  <2>2. QED
    BY <2>1 DEF IsHistory, Sessions
<1>2. h.messages \in [Sessions(h) -> Seq(M2)]
  <2>1. Seq(M) \subseteq Seq(M2)
    BY SeqMonotonic
  <2>2. QED
    BY <2>1 DEF IsHistory
<1>3. QED
  BY <1>1, <1>2 DEF IsHistory

\* What a window holds and what is stored between two steps.
Kept(h, S, M) ==
  /\ IsHistory(h, S, M)
  /\ Len(h.list) <= MaxSessions
  /\ HasActive(h) \/ (h.active = None /\ h.list = <<>>)

\* A history in another order is kept if the old one was.
LEMMA ReorderedKept ==
  ASSUME NEW S, NEW M, NEW h, Kept(h, S, M), NEW g, IsHistory(g, S, M), Reordered(g, h)
  PROVE  /\ Kept(g, S, M) /\ g.active = h.active /\ Sessions(g) = Sessions(h) /\ g.messages = h.messages
         /\ ActiveMessages(g) = ActiveMessages(h)
<1>1. /\ g.active = h.active /\ Sessions(g) = Sessions(h) /\ g.messages = h.messages /\ g.pinned = h.pinned
  BY DEF Reordered, Within
<1>2. Len(g.list) = Len(h.list)
  BY <1>1, DistinctLength DEF IsHistory, Sessions, Kept
<1>3. h.list = <<>> => g.list = <<>>
  <2>1. g.list \in Seq(S)
    BY DEF IsHistory
  <2>2. QED
    BY <1>2, <2>1
<1>4. Kept(g, S, M)
  BY <1>1, <1>2, <1>3 DEF Kept, HasActive
<1>5. ActiveMessages(g) = ActiveMessages(h)
  BY <1>1 DEF ActiveMessages, HasActive
<1>6. QED
  BY <1>1, <1>4, <1>5

\* The new session is on show and without messages.  In a full list it takes
\* the place of another, else all the others stay.
LEMMA CreatedHistory ==
  ASSUME NEW S, NEW M, NEW h, IsHistory(h, S, M),
         NEW s \in S, s \notin Sessions(h)
  PROVE  /\ Kept(Create(h, s), S, M)
         /\ Create(h, s).active = s /\ s \in Sessions(Create(h, s))
         /\ Sessions(Create(h, s)) \subseteq Sessions(h) \cup {s}
         /\ Create(h, s).messages[s] = <<>>
         /\ \A t \in Sessions(Create(h, s)) : t # s => Create(h, s).messages[t] = h.messages[t]
         /\ Len(h.list) < MaxSessions => Sessions(Create(h, s)) = Sessions(h) \cup {s}
         /\ Len(h.list) = MaxSessions =>
              \E last \in Sessions(h) : Sessions(Create(h, s)) = (Sessions(h) \ {last}) \cup {s}
<1>1. PICK list : list = <<s>> \o h.list
  OBVIOUS
<1>2. PICK recent : recent = <<s>> \o h.recent
  OBVIOUS
<1>3. PICK messages : messages = [t \in DOMAIN h.messages \cup {s} |-> IF t = s THEN <<>> ELSE h.messages[t]]
  OBVIOUS
<1>4. PICK g : g = [list |-> list, pinned |-> h.pinned, recent |-> recent, messages |-> messages, active |-> s]
  OBVIOUS
<1>5. Create(h, s) = Slice(g)
  BY <1>1, <1>2, <1>3, <1>4 DEF Create
<1>6. PICK a : a = <<s>>
  OBVIOUS
<1>7. a \in Seq(S) /\ ToSet(a) = {s} /\ IsInjective(a) /\ 1 \in DOMAIN a /\ a[1] = s
  BY <1>6 DEF ToSet, IsInjective
<1>8. /\ list \in Seq(S) /\ IsInjective(list) /\ ToSet(list) = Sessions(h) \cup {s}
      /\ 1 \in DOMAIN list /\ list[1] = s
  <2>1. h.list \in Seq(S) /\ IsInjective(h.list) /\ ToSet(a) \cap ToSet(h.list) = {}
    BY <1>7 DEF IsHistory, Sessions
  <2>2. /\ a \o h.list \in Seq(S) /\ IsInjective(a \o h.list) /\ ToSet(a \o h.list) = ToSet(a) \cup ToSet(h.list)
        /\ \A i \in DOMAIN a : i \in DOMAIN (a \o h.list) /\ (a \o h.list)[i] = a[i]
    BY <1>7, <2>1, Joined
  <2>3. QED
    BY <1>1, <1>6, <1>7, <2>2 DEF Sessions
<1>9. recent \in Seq(S) /\ IsInjective(recent) /\ ToSet(recent) = Sessions(h) \cup {s}
  <2>1. h.recent \in Seq(S) /\ IsInjective(h.recent) /\ ToSet(h.recent) = Sessions(h)
    BY DEF IsHistory
  <2>2. ToSet(a) \cap ToSet(h.recent) = {}
    BY <1>7, <2>1
  <2>3. a \o h.recent \in Seq(S) /\ IsInjective(a \o h.recent) /\ ToSet(a \o h.recent) = ToSet(a) \cup ToSet(h.recent)
    BY <1>7, <2>1, <2>2, Joined
  <2>4. QED
    BY <1>2, <1>6, <1>7, <2>1, <2>3
<1>10. /\ messages \in [Sessions(h) \cup {s} -> Seq(M)]
       /\ messages[s] = <<>> /\ \A t \in Sessions(h) : messages[t] = h.messages[t]
       /\ \A t \in Sessions(h) \cup {s} : Len(messages[t]) <= MaxMessages
  <2>1. DOMAIN h.messages = Sessions(h) /\ \A t \in Sessions(h) : h.messages[t] \in Seq(M)
    BY DEF IsHistory
  <2>2. <<>> \in Seq(M) /\ Len(<<>>) <= MaxMessages
    BY HistoryLimits
  <2>3. /\ messages[s] = <<>> /\ \A t \in Sessions(h) : messages[t] = h.messages[t]
        /\ DOMAIN messages = Sessions(h) \cup {s}
    BY <1>3, <2>1
  <2>4. \A t \in Sessions(h) : Len(h.messages[t]) <= MaxMessages
    BY DEF IsHistory
  <2>5. \A t \in Sessions(h) \cup {s} : messages[t] \in Seq(M)
    BY <2>1, <2>2, <2>3
  <2>6. messages = [t \in DOMAIN messages |-> messages[t]]
    BY <1>3
  <2>7. QED
    BY <2>2, <2>3, <2>4, <2>5, <2>6
<1>11. /\ g.list = list /\ g.pinned = h.pinned /\ g.recent = recent /\ g.messages = messages /\ g.active = s
       /\ \E l, p, r, m, x : g = [list |-> l, pinned |-> p, recent |-> r, messages |-> m, active |-> x]
  BY <1>4
<1>12. Sessions(g) = Sessions(h) \cup {s}
  BY <1>8, <1>11 DEF Sessions
<1>13. IsHistory(g, S, M)
  <2>1. h.pinned \subseteq Sessions(h)
    BY DEF IsHistory
  <2>2. QED
    BY <1>8, <1>9, <1>10, <1>11, <1>12, <2>1 DEF IsHistory
<1>14. PICK c : c = Slice(g)
  OBVIOUS
<1>15. /\ IsHistory(c, S, M) /\ Within(c, g) /\ Len(c.list) <= MaxSessions
       /\ \A i \in DOMAIN g.list : i <= MaxSessions => g.list[i] \in Sessions(c)
  BY <1>13, <1>14, SlicedHistory
<1>16. s \in Sessions(c)
  BY <1>8, <1>11, <1>15, HistoryLimits
<1>18. Kept(c, S, M) /\ c.active = s
  BY <1>11, <1>15, <1>16 DEF Kept, HasActive, Within
<1>19. Sessions(c) \subseteq Sessions(h) \cup {s}
  BY <1>12, <1>15 DEF Within
<1>20. c.messages[s] = <<>> /\ \A t \in Sessions(c) : t # s => c.messages[t] = h.messages[t]
  BY <1>10, <1>11, <1>15, <1>16, <1>19 DEF Within
<1>21. /\ Len(h.list) \in Nat /\ DOMAIN h.list = 1 .. Len(h.list)
       /\ Len(list) = Len(h.list) + 1 /\ DOMAIN list = 1 .. Len(h.list) + 1
       /\ \A i \in 1 .. Len(h.list) : list[i + 1] = h.list[i]
  <2>1. h.list \in Seq(S)
    BY DEF IsHistory
  <2>2. QED
    BY <1>1, <1>6, <1>7, <2>1
<1>22. ASSUME Len(h.list) < MaxSessions
       PROVE  Sessions(c) = Sessions(h) \cup {s}
  <2>1. Len(g.list) <= MaxSessions
    BY <1>11, <1>21, <1>22, HistoryLimits
  <2>2. c = g
    BY <1>14, <2>1 DEF Slice
  <2>3. QED
    BY <1>12, <2>2
<1>23. ASSUME Len(h.list) = MaxSessions
       PROVE  \E last \in Sessions(h) : Sessions(c) = (Sessions(h) \ {last}) \cup {s}
  <2>1. PICK n \in Nat \ {0} : n = MaxSessions /\ n = Len(h.list)
    BY <1>21, <1>23, HistoryLimits
  <2>2. PICK last : last = h.list[n]
    OBVIOUS
  <2>3. last \in Sessions(h) /\ last = list[n + 1] /\ n + 1 \in DOMAIN list
    BY <1>21, <2>1, <2>2 DEF Sessions, ToSet
  <2>4. \A i \in DOMAIN list : list[i] \in Sessions(c) \/ list[i] = last
    <3>1. \A i \in DOMAIN list : i <= n \/ i = n + 1
      BY <1>21, <2>1
    <3>2. QED
      BY <1>11, <1>15, <2>1, <2>3, <3>1
  <2>5. Sessions(h) \cup {s} \subseteq Sessions(c) \cup {last}
    BY <1>8, <2>4 DEF ToSet
  <2>6. last \notin Sessions(c)
    <3>1. SUFFICES ASSUME last \in Sessions(c) PROVE FALSE
      OBVIOUS
    <3>2. Sessions(c) = ToSet(list)
      BY <1>8, <1>19, <2>5, <3>1
    <3>3. Cardinality(ToSet(list)) = n + 1
      BY <1>8, <1>21, <2>1, DistinctLength
    <3>4. Cardinality(Sessions(c)) = Len(c.list)
      BY <1>15, DistinctLength DEF IsHistory, Sessions
    <3>5. QED
      BY <1>15, <2>1, <3>2, <3>3, <3>4
  <2>7. s # last
    BY <2>3
  <2>8. Sessions(c) = (Sessions(h) \ {last}) \cup {s}
    BY <1>16, <1>19, <2>5, <2>6, <2>7
  <2>9. QED
    BY <2>3, <2>8
<1>24. QED
  BY <1>5, <1>14, <1>16, <1>18, <1>19, <1>20, <1>22, <1>23

Added(h, m) == [h EXCEPT !.messages[h.active] = LastN(Append(@, m), MaxMessages)]

\* A message is added to the session on show.
LEMMA AddedMessage ==
  ASSUME NEW S, NEW M, NEW h, IsHistory(h, S, M), HasActive(h), NEW m \in M, NEW g, g = Added(h, m)
  PROVE  /\ IsHistory(g, S, M) /\ Sessions(g) = Sessions(h) /\ g.list = h.list /\ g.active = h.active
         /\ g.pinned = h.pinned
         /\ g.messages[h.active] = LastN(Append(h.messages[h.active], m), MaxMessages)
         /\ \A t \in Sessions(h) : t # h.active => g.messages[t] = h.messages[t]
<1>1. PICK l, p, r, ms, a : h = [list |-> l, pinned |-> p, recent |-> r, messages |-> ms, active |-> a]
  BY DEF IsHistory
<1>2. PICK t : t = LastN(Append(h.messages[h.active], m), MaxMessages)
  OBVIOUS
<1>3. PICK ns : ns = [ms EXCEPT ![a] = t]
  OBVIOUS
<1>4. g = [list |-> l, pinned |-> p, recent |-> r, messages |-> ns, active |-> a]
  <2>1. h.active = a /\ h.messages = ms
    BY <1>1
  <2>2. g = [h EXCEPT !.messages[h.active] = t]
    BY <1>2 DEF Added
  <2>3. g = [h EXCEPT !.messages[a] = t]
    BY <2>1, <2>2
  <2>4. QED
    BY <1>1, <1>3, <2>3
<1>5. /\ g.list = h.list /\ g.pinned = h.pinned /\ g.recent = h.recent /\ g.messages = ns /\ g.active = h.active
      /\ h.messages = ms /\ h.active = a
      /\ \E l2, p2, r2, m2, a2 : g = [list |-> l2, pinned |-> p2, recent |-> r2, messages |-> m2, active |-> a2]
  <2>1. h.list = l /\ h.pinned = p /\ h.recent = r /\ h.messages = ms /\ h.active = a
    BY <1>1
  <2>2. g.list = l /\ g.pinned = p /\ g.recent = r /\ g.messages = ns /\ g.active = a
    BY <1>4
  <2>3. QED
    BY <1>4, <2>1, <2>2
<1>6. a \in Sessions(h) /\ ms \in [Sessions(h) -> Seq(M)]
  BY <1>5 DEF IsHistory, HasActive
<1>7. t \in Seq(M) /\ Len(t) <= MaxMessages
  <2>1. Append(ms[a], m) \in Seq(M)
    BY <1>6
  <2>2. PICK q : q = Append(ms[a], m)
    OBVIOUS
  <2>3. q \in Seq(M) /\ MaxMessages \in Nat /\ Len(q) \in Nat
    BY <2>1, <2>2, HistoryLimits
  <2>4. LastN(q, MaxMessages) \in Seq(M) /\ Len(LastN(q, MaxMessages)) = IF Len(q) <= MaxMessages THEN Len(q) ELSE MaxMessages
    BY <2>3, LastNFacts
  <2>5. LastN(q, MaxMessages) \in Seq(M) /\ Len(LastN(q, MaxMessages)) <= MaxMessages
    BY <2>3, <2>4
  <2>6. QED
    BY <1>2, <1>5, <2>2, <2>5
<1>8. ns \in [Sessions(h) -> Seq(M)] /\ ns[a] = t /\ \A x \in Sessions(h) : x # a => ns[x] = ms[x]
  BY <1>3, <1>6, <1>7
<1>9. Sessions(g) = Sessions(h)
  BY <1>5 DEF Sessions
<1>10. \A x \in Sessions(h) : Len(ns[x]) <= MaxMessages
  BY <1>5, <1>7, <1>8 DEF IsHistory
<1>11. IsHistory(g, S, M)
  BY <1>5, <1>8, <1>9, <1>10 DEF IsHistory
<1>12. QED
  BY <1>2, <1>5, <1>8, <1>9, <1>11

\* The session to record in: the one on show, else a new one.
Target(h, s) == IF HasActive(h) THEN h.active ELSE s

\* Recording a message keeps the session it is recorded in, adds the message
\* to it, and leaves the messages of all others alone.
LEMMA RecordedHistory ==
  ASSUME NEW S, NEW M, NEW h, Kept(h, S, M), NEW s \in S, HasActive(h) \/ s \notin Sessions(h), NEW m \in M
  PROVE  LET g == Record(h, s, m)
         IN  /\ Kept(g, S, M) /\ HasActive(g) /\ g.active = Target(h, s)
             /\ Sessions(g) = Sessions(h) \cup {Target(h, s)}
             /\ ActiveMessages(g) = LastN(Append(ActiveMessages(h), m), MaxMessages)
             /\ \A t \in Sessions(g) : t # Target(h, s) => g.messages[t] = h.messages[t]
<1>1. PICK c : c = IF HasActive(h) THEN h ELSE Create(h, s)
  OBVIOUS
<1>2. PICK d : d = Added(c, m)
  OBVIOUS
<1>3. PICK e : e = Touch(d, c.active)
  OBVIOUS
<1>4. PICK f : f = Sort(e)
  OBVIOUS
<1>5. PICK g : g = Slice(f)
  OBVIOUS
<1>6. g = Record(h, s, m)
  BY <1>1, <1>2, <1>3, <1>4, <1>5 DEF Record, Added
<1>7. IsHistory(h, S, M)
  BY DEF Kept
<1>8. /\ Kept(c, S, M) /\ HasActive(c) /\ c.active = Target(h, s)
      /\ Sessions(c) = Sessions(h) \cup {Target(h, s)}
      /\ c.messages[c.active] = ActiveMessages(h)
      /\ \A t \in Sessions(c) : t # Target(h, s) => c.messages[t] = h.messages[t]
  <2>1. CASE HasActive(h)
    BY <1>1, <2>1 DEF Target, ActiveMessages, HasActive
  <2>2. CASE ~ HasActive(h)
    <3>1. c = Create(h, s) /\ Target(h, s) = s /\ ActiveMessages(h) = <<>>
      BY <1>1, <2>2 DEF Target, ActiveMessages
    <3>2. /\ Kept(c, S, M) /\ c.active = s /\ s \in Sessions(c) /\ Sessions(c) = Sessions(h) \cup {s}
          /\ c.messages[s] = <<>>
          /\ \A t \in Sessions(c) : t # s => c.messages[t] = h.messages[t]
      <4>1. s \notin Sessions(h)
        BY <2>2
      <4>2. Len(h.list) < MaxSessions
        <5>1. h.list = <<>>
          BY <2>2 DEF Kept
        <5>2. QED
          BY <5>1, HistoryLimits
      <4>3. QED
        BY <1>7, <3>1, <4>1, <4>2, CreatedHistory
    <3>3. QED
      BY <3>1, <3>2 DEF HasActive
  <2>3. QED
    BY <2>1, <2>2
<1>9. IsHistory(c, S, M) /\ Len(c.list) <= MaxSessions
  BY <1>8 DEF Kept
<1>10. /\ IsHistory(d, S, M) /\ Sessions(d) = Sessions(c) /\ d.active = c.active /\ d.list = c.list
       /\ d.messages[c.active] = LastN(Append(c.messages[c.active], m), MaxMessages)
       /\ \A t \in Sessions(c) : t # c.active => d.messages[t] = c.messages[t]
  BY <1>2, <1>8, <1>9, AddedMessage
<1>11. c.active \in Sessions(d)
  BY <1>8, <1>10 DEF HasActive
<1>12. Kept(d, S, M)
  BY <1>9, <1>10, <1>11 DEF Kept, HasActive
<1>13. IsHistory(e, S, M) /\ Reordered(e, d)
  BY <1>3, <1>10, <1>11, TouchedHistory
<1>14. Kept(e, S, M) /\ e.active = c.active /\ Sessions(e) = Sessions(c) /\ e.messages = d.messages
  BY <1>10, <1>12, <1>13, ReorderedKept
<1>15. IsHistory(f, S, M) /\ Reordered(f, e)
  BY <1>4, <1>13, SortedHistory
<1>16. Kept(f, S, M) /\ f.active = c.active /\ Sessions(f) = Sessions(c) /\ f.messages = d.messages
  BY <1>14, <1>15, ReorderedKept
<1>17. g = f
  BY <1>5, <1>16 DEF Slice, Kept
<1>18. HasActive(g)
  BY <1>8, <1>16, <1>17 DEF HasActive
<1>19. ActiveMessages(g) = LastN(Append(ActiveMessages(h), m), MaxMessages)
  BY <1>8, <1>10, <1>16, <1>17, <1>18 DEF ActiveMessages
<1>20. \A t \in Sessions(g) : t # Target(h, s) => g.messages[t] = h.messages[t]
  BY <1>8, <1>10, <1>16, <1>17
<1>21. QED
  BY <1>6, <1>8, <1>16, <1>17, <1>18, <1>19, <1>20

\* q2 has what q had, unless it is at the limit.
Grown(q2, q) == Len(q2) = MaxMessages \/ (Len(q) # MaxMessages /\ ToSet(q) \subseteq ToSet(q2))

\* A message more.
LEMMA GrownByOne ==
  ASSUME NEW M, NEW q \in Seq(M), Len(q) <= MaxMessages, NEW m \in M
  PROVE  Grown(LastN(Append(q, m), MaxMessages), q)
<1>1. PICK r : r = Append(q, m)
  OBVIOUS
<1>2. /\ Len(q) \in Nat /\ r \in Seq(M) /\ Len(r) = Len(q) + 1 /\ DOMAIN q = 1 .. Len(q) /\ DOMAIN r = 1 .. Len(r)
      /\ \A i \in 1 .. Len(q) : r[i] = q[i]
  BY <1>1
<1>3. MaxMessages \in Nat
  BY HistoryLimits
<1>4. CASE Len(q) = MaxMessages
  <2>1. Len(r) > MaxMessages
    BY <1>2, <1>3, <1>4
  <2>2. Len(LastN(r, MaxMessages)) = MaxMessages
    <3>1. r \in Seq(M)
      BY <1>2
    <3>2. QED
      BY <1>3, <2>1, <3>1, LastNLong
  <2>3. QED
    BY <1>1, <2>2 DEF Grown
<1>5. CASE Len(q) # MaxMessages
  <2>1. Len(r) <= MaxMessages
    <3>1. PICK k \in Nat : k = Len(q)
      BY <1>2
    <3>2. k <= MaxMessages /\ k # MaxMessages /\ Len(r) = k + 1
      BY <1>2, <1>5, <3>1
    <3>3. QED
      BY <1>3, <3>1, <3>2
  <2>2. LastN(r, MaxMessages) = r
    BY <1>2, <1>3, <2>1, LastNFacts
  <2>3. DOMAIN q \subseteq DOMAIN r
    BY <1>2
  <2>4. ToSet(q) \subseteq ToSet(r)
    BY <1>2, <2>3 DEF ToSet
  <2>5. QED
    BY <1>1, <1>5, <2>2, <2>4 DEF Grown
<1>6. QED
  BY <1>4, <1>5

\* Messages that are recorded in one step: ms goes to the session on show,
\* which is surface but for the limit.
Recorded(g, h, s, ms, S, M) ==
  /\ Kept(g, S, M)
  /\ ms # <<>> => HasActive(g)
  /\ g.active = IF ms = <<>> THEN h.active ELSE Target(h, s)
  /\ Sessions(g) = IF ms = <<>> THEN Sessions(h) ELSE Sessions(h) \cup {Target(h, s)}
  /\ \A t \in Sessions(h) : t # Target(h, s) => g.messages[t] = h.messages[t]
  /\ \A t \in Sessions(g) \cap Sessions(h) : Grown(g.messages[t], h.messages[t])

\* One message is recorded.
LEMMA RecordedOne ==
  ASSUME NEW S, NEW M, NEW h, Kept(h, S, M), NEW s \in S, HasActive(h) \/ s \notin Sessions(h), NEW m \in M,
         NEW surface \in Seq(M), ActiveMessages(h) = LastN(surface, MaxMessages),
         NEW g, g = Record(h, s, m)
  PROVE  /\ Recorded(g, h, s, <<m>>, S, M)
         /\ ActiveMessages(g) = LastN(Append(surface, m), MaxMessages)
<1>1. /\ Kept(g, S, M) /\ HasActive(g) /\ g.active = Target(h, s)
      /\ Sessions(g) = Sessions(h) \cup {Target(h, s)}
      /\ ActiveMessages(g) = LastN(Append(ActiveMessages(h), m), MaxMessages)
      /\ \A t \in Sessions(g) : t # Target(h, s) => g.messages[t] = h.messages[t]
  BY RecordedHistory
<1>2. MaxMessages \in Nat \ {0}
  BY HistoryLimits
<1>3. ActiveMessages(g) = LastN(Append(surface, m), MaxMessages)
  <2>1. LastN(Append(LastN(surface, MaxMessages), m), MaxMessages) = LastN(Append(surface, m), MaxMessages)
    BY <1>2, LastNTwice
  <2>2. QED
    BY <1>1, <2>1
<1>4. ASSUME NEW t \in Sessions(g) \cap Sessions(h)
      PROVE  Grown(g.messages[t], h.messages[t])
  <2>1. h.messages[t] \in Seq(M) /\ Len(h.messages[t]) <= MaxMessages
    BY DEF Kept, IsHistory
  <2>2. CASE t # Target(h, s)
    BY <1>1, <2>2 DEF Grown
  <2>3. CASE t = Target(h, s)
    <3>1. h.active = t /\ HasActive(h)
      BY <2>3 DEF Target
    <3>2. g.messages[t] = LastN(Append(h.messages[t], m), MaxMessages)
      BY <1>1, <2>3, <3>1 DEF ActiveMessages
    <3>3. QED
      BY <2>1, <3>2, GrownByOne
  <2>4. QED
    BY <2>2, <2>3
<1>5. QED
  BY <1>1, <1>3, <1>4 DEF Recorded

\* The messages of one step are recorded, and the session on show is again
\* the end of what is shown.
LEMMA RecordedAll ==
  ASSUME NEW S, NEW M, NEW h, Kept(h, S, M), NEW s \in S, s \notin Sessions(h),
         NEW ms \in Seq(M), Len(ms) <= 2,
         NEW surface \in Seq(M), ActiveMessages(h) = LastN(surface, MaxMessages),
         NEW g, g = RecordAll(h, s, ms)
  PROVE  /\ Recorded(g, h, s, ms, S, M)
         /\ ActiveMessages(g) = LastN(surface \o ms, MaxMessages)
<1>1. PICK c : c = IF ms = <<>> THEN h ELSE Record(h, s, ms[1])
  OBVIOUS
<1>2. g = IF Len(ms) = 2 THEN Record(c, s, ms[2]) ELSE c
  BY <1>1 DEF RecordAll
<1>3. Len(ms) \in {0, 1, 2}
  <2>1. PICK k \in Nat : k = Len(ms)
    OBVIOUS
  <2>2. k <= 2
    BY <2>1
  <2>3. QED
    BY <2>1, <2>2
<1>4. \A t \in Sessions(h) : Grown(h.messages[t], h.messages[t])
  BY DEF Grown
<1>5. CASE Len(ms) = 0
  <2>1. ms = <<>> /\ g = h
    BY <1>1, <1>2, <1>5
  <2>2. surface \o ms = surface
    BY <2>1
  <2>3. QED
    BY <1>4, <2>1, <2>2 DEF Recorded
<1>6. CASE Len(ms) # 0
  <2>1. ms # <<>> /\ ms[1] \in M /\ c = Record(h, s, ms[1])
    BY <1>1, <1>3, <1>6
  <2>2. PICK m : m = ms[1]
    OBVIOUS
  <2>3. Recorded(c, h, s, <<m>>, S, M) /\ ActiveMessages(c) = LastN(Append(surface, m), MaxMessages)
    BY <2>1, <2>2, RecordedOne
  <2>4. Recorded(c, h, s, ms, S, M) /\ HasActive(c) /\ Kept(c, S, M) /\ c.active = Target(h, s)
    BY <2>1, <2>3 DEF Recorded
  <2>5. PICK shown : shown = Append(surface, m)
    OBVIOUS
  <2>6. shown \in Seq(M)
    BY <2>1, <2>2, <2>5
  <2>7. CASE Len(ms) = 1
    <3>1. g = c
      BY <1>2, <2>7
    <3>2. surface \o ms = shown
      <4>1. ms = <<m>>
        BY <2>2, <2>7
      <4>2. QED
        BY <2>1, <2>2, <2>5, <4>1, AppendIsConcat
    <3>3. QED
      BY <2>3, <2>4, <2>5, <3>1, <3>2
  <2>8. CASE Len(ms) = 2
    <3>1. PICK n : n = ms[2]
      OBVIOUS
    <3>2. n \in M /\ g = Record(c, s, n)
      BY <1>2, <2>8, <3>1
    <3>3. Recorded(g, c, s, <<n>>, S, M) /\ ActiveMessages(g) = LastN(Append(shown, n), MaxMessages)
      <4>1. Kept(c, S, M) /\ HasActive(c) /\ ActiveMessages(c) = LastN(shown, MaxMessages)
        BY <2>3, <2>4, <2>5
      <4>2. QED
        BY <2>6, <3>2, <4>1, RecordedOne
    <3>4. surface \o ms = Append(shown, n)
      <4>1. ms = <<m, n>>
        BY <2>2, <2>8, <3>1
      <4>2. QED
        BY <2>1, <2>2, <2>5, <3>2, <4>1
    <3>5. Target(c, s) = Target(h, s) /\ <<n>> # <<>>
      BY <2>4 DEF Target
    <3>6. /\ Kept(g, S, M) /\ HasActive(g) /\ g.active = Target(h, s)
          /\ Sessions(g) = Sessions(c) \cup {Target(h, s)}
          /\ \A t \in Sessions(c) : t # Target(h, s) => g.messages[t] = c.messages[t]
      BY <2>4, <3>3, <3>5 DEF Recorded
    <3>7. /\ Sessions(g) = Sessions(c) /\ Sessions(c) = Sessions(h) \cup {Target(h, s)}
          /\ \A t \in Sessions(h) : t # Target(h, s) => g.messages[t] = h.messages[t]
      BY <2>1, <2>4, <3>6 DEF HasActive, Recorded
    <3>8. \A t \in Sessions(g) \cap Sessions(h) : Grown(g.messages[t], h.messages[t])
      BY <2>4, <3>3, <3>7 DEF Recorded, Grown
    <3>9. QED
      BY <2>1, <2>4, <3>3, <3>4, <3>6, <3>7, <3>8 DEF Recorded
  <2>9. QED
    BY <1>3, <1>6, <2>7, <2>8
<1>7. QED
  BY <1>5, <1>6

\* Reading the store gives back what was written.
LEMMA LoadedHistory ==
  ASSUME NEW S, NEW M, NEW h, Kept(h, S, M)
  PROVE  /\ Kept(Load(h), S, M) /\ Load(h).active = h.active /\ Sessions(Load(h)) = Sessions(h)
         /\ Load(h).messages = h.messages
<1>1. IsHistory(h, S, M)
  BY DEF Kept
<1>2. PICK g : g = Sort(h)
  OBVIOUS
<1>3. IsHistory(g, S, M) /\ Reordered(g, h)
  BY <1>1, <1>2, SortedHistory
<1>4. Kept(g, S, M) /\ g.active = h.active /\ Sessions(g) = Sessions(h) /\ g.messages = h.messages
  BY <1>3, ReorderedKept
<1>5. Slice(g) = g
  BY <1>4 DEF Slice, Kept
<1>6. Load(h) = g
  BY <1>2, <1>5 DEF Load
<1>7. QED
  BY <1>4, <1>6

\* Renaming makes a session the newest.
LEMMA RenamedHistory ==
  ASSUME NEW S, NEW M, NEW h, Kept(h, S, M), NEW s \in Sessions(h)
  PROVE  /\ Kept(Rename(h, s), S, M) /\ Rename(h, s).active = h.active /\ Sessions(Rename(h, s)) = Sessions(h)
         /\ Rename(h, s).messages = h.messages
<1>1. IsHistory(h, S, M)
  BY DEF Kept
<1>2. PICK g : g = Touch(h, s)
  OBVIOUS
<1>3. IsHistory(g, S, M) /\ Reordered(g, h)
  BY <1>1, <1>2, TouchedHistory
<1>4. Kept(g, S, M) /\ g.active = h.active /\ Sessions(g) = Sessions(h) /\ g.messages = h.messages
  BY <1>3, ReorderedKept
<1>5. QED
  BY <1>2, <1>4 DEF Rename

\* Another session is pinned, or a pinned one is not any more.
LEMMA PinnedHistory ==
  ASSUME NEW S, NEW M, NEW h, Kept(h, S, M), NEW s \in Sessions(h)
  PROVE  /\ Kept(TogglePin(h, s), S, M) /\ TogglePin(h, s).active = h.active
         /\ Sessions(TogglePin(h, s)) = Sessions(h) /\ TogglePin(h, s).messages = h.messages
<1>1. IsHistory(h, S, M)
  BY DEF Kept
<1>2. PICK l, p, r, m, a : h = [list |-> l, pinned |-> p, recent |-> r, messages |-> m, active |-> a]
  BY <1>1 DEF IsHistory
<1>3. PICK q : q = IF s \in h.pinned THEN h.pinned \ {s} ELSE h.pinned \cup {s}
  OBVIOUS
<1>4. PICK g : g = [h EXCEPT !.pinned = q]
  OBVIOUS
<1>5. g = [list |-> l, pinned |-> q, recent |-> r, messages |-> m, active |-> a]
  BY <1>2, <1>4
<1>6. /\ g.list = h.list /\ g.pinned = q /\ g.recent = h.recent /\ g.messages = h.messages /\ g.active = h.active
      /\ \E l2, p2, r2, m2, a2 : g = [list |-> l2, pinned |-> p2, recent |-> r2, messages |-> m2, active |-> a2]
  <2>1. h.list = l /\ h.recent = r /\ h.messages = m /\ h.active = a
    BY <1>2
  <2>2. g.list = l /\ g.pinned = q /\ g.recent = r /\ g.messages = m /\ g.active = a
    BY <1>5
  <2>3. QED
    BY <1>5, <2>1, <2>2
<1>7. Sessions(g) = Sessions(h)
  BY <1>6 DEF Sessions
<1>8. q \subseteq Sessions(h)
  BY <1>1, <1>3 DEF IsHistory
<1>9. IsHistory(g, S, M)
  BY <1>1, <1>6, <1>7, <1>8 DEF IsHistory
<1>11. Kept(g, S, M)
  BY <1>6, <1>7, <1>9 DEF Kept, HasActive
<1>12. PICK t : t = Touch(g, s)
  OBVIOUS
<1>13. IsHistory(t, S, M) /\ Reordered(t, g)
  BY <1>7, <1>9, <1>12, TouchedHistory
<1>14. Kept(t, S, M) /\ t.active = h.active /\ Sessions(t) = Sessions(h) /\ t.messages = h.messages
  BY <1>6, <1>7, <1>11, <1>13, ReorderedKept
<1>15. PICK u : u = Sort(t)
  OBVIOUS
<1>16. IsHistory(u, S, M) /\ Reordered(u, t)
  BY <1>13, <1>15, SortedHistory
<1>17. Kept(u, S, M) /\ u.active = h.active /\ Sessions(u) = Sessions(h) /\ u.messages = h.messages
  BY <1>14, <1>16, ReorderedKept
<1>18. u = TogglePin(h, s)
  BY <1>3, <1>4, <1>12, <1>15 DEF TogglePin
<1>19. QED
  BY <1>17, <1>18

\* Another session is on show.
LEMMA OpenedHistory ==
  ASSUME NEW S, NEW M, NEW h, IsHistory(h, S, M), NEW x, NEW g, g = Open(h, x)
  PROVE  /\ IsHistory(g, S, M) /\ g.active = x /\ Sessions(g) = Sessions(h) /\ g.messages = h.messages
         /\ g.list = h.list /\ g.pinned = h.pinned
<1>1. PICK l, p, r, m, a : h = [list |-> l, pinned |-> p, recent |-> r, messages |-> m, active |-> a]
  BY DEF IsHistory
<1>2. g = [list |-> l, pinned |-> p, recent |-> r, messages |-> m, active |-> x]
  BY <1>1 DEF Open
<1>3. /\ g.list = h.list /\ g.pinned = h.pinned /\ g.recent = h.recent /\ g.messages = h.messages /\ g.active = x
      /\ \E l2, p2, r2, m2, a2 : g = [list |-> l2, pinned |-> p2, recent |-> r2, messages |-> m2, active |-> a2]
  <2>1. h.list = l /\ h.pinned = p /\ h.recent = r /\ h.messages = m
    BY <1>1
  <2>2. g.list = l /\ g.pinned = p /\ g.recent = r /\ g.messages = m /\ g.active = x
    BY <1>2
  <2>3. QED
    BY <1>2, <2>1, <2>2
<1>4. Sessions(g) = Sessions(h)
  BY <1>3 DEF Sessions
<1>5. IsHistory(g, S, M)
  BY <1>3, <1>4 DEF IsHistory
<1>6. QED
  BY <1>3, <1>4, <1>5

\* Opening a session there is.
LEMMA OpenedKept ==
  ASSUME NEW S, NEW M, NEW h, Kept(h, S, M), NEW s \in Sessions(h)
  PROVE  /\ Kept(Open(h, s), S, M) /\ Sessions(Open(h, s)) = Sessions(h) /\ Open(h, s).messages = h.messages
<1>1. PICK g : g = Open(h, s)
  OBVIOUS
<1>2. IsHistory(h, S, M)
  BY DEF Kept
<1>3. /\ IsHistory(g, S, M) /\ g.active = s /\ Sessions(g) = Sessions(h) /\ g.messages = h.messages
      /\ g.list = h.list /\ g.pinned = h.pinned
  BY <1>1, <1>2, OpenedHistory
<1>4. HasActive(g)
  BY <1>3 DEF HasActive
<1>5. Kept(g, S, M)
  BY <1>3, <1>4 DEF Kept
<1>6. QED
  BY <1>1, <1>3, <1>5

\* A session is gone; if it was on show, the first one left is.
LEMMA DiscardedHistory ==
  ASSUME NEW S, NEW M, NEW h, Kept(h, S, M), NEW s \in Sessions(h)
  PROVE  /\ Kept(Discard(h, s), S, M)
         /\ Sessions(Discard(h, s)) = Sessions(h) \ {s}
         /\ \A t \in Sessions(Discard(h, s)) : Discard(h, s).messages[t] = h.messages[t]
         /\ s # h.active => Discard(h, s).active = h.active
<1>1. IsHistory(h, S, M) /\ Len(h.list) <= MaxSessions
  BY DEF Kept
<1>2. PICK g : g = Keep(h, Sessions(h) \ {s})
  OBVIOUS
<1>3. /\ IsHistory(g, S, M) /\ Within(g, h) /\ Sessions(g) = Sessions(h) \ {s}
      /\ Len(g.list) <= Len(h.list)
  <2>1. PICK kept : kept = Sessions(h) \ {s}
    OBVIOUS
  <2>2. /\ IsHistory(g, S, M) /\ Within(g, h) /\ Sessions(g) = Sessions(h) \cap kept /\ Len(g.list) <= Len(h.list)
    BY <1>1, <1>2, <2>1, KeptSessions
  <2>3. QED
    BY <2>1, <2>2
<1>4. Len(g.list) <= MaxSessions
  <2>1. PICK i \in Nat, j \in Nat : i = Len(g.list) /\ j = Len(h.list)
    BY <1>1, <1>3 DEF IsHistory
  <2>2. QED
    BY <1>1, <1>3, <2>1, HistoryLimits
<1>6. CASE s # h.active
  <2>1. Discard(h, s) = g
    BY <1>2, <1>6 DEF Discard
  <2>2. g.active = h.active
    BY <1>3 DEF Within
  <2>3. HasActive(h)
    BY DEF Kept, Sessions, ToSet
  <2>4. HasActive(g)
    BY <1>3, <1>6, <2>2, <2>3 DEF HasActive
  <2>5. Kept(g, S, M)
    BY <1>3, <1>4, <2>4 DEF Kept
  <2>6. QED
    BY <1>3, <2>1, <2>2, <2>5 DEF Within
<1>7. CASE s = h.active
  <2>1. PICK x : x = IF g.list = <<>> THEN None ELSE g.list[1]
    OBVIOUS
  <2>2. PICK d : d = Open(g, x)
    OBVIOUS
  <2>3. Discard(h, s) = d
    BY <1>2, <1>7, <2>1, <2>2 DEF Discard
  <2>4. /\ IsHistory(d, S, M) /\ d.active = x /\ Sessions(d) = Sessions(g) /\ d.messages = g.messages
        /\ d.list = g.list /\ d.pinned = g.pinned
    BY <1>3, <2>2, OpenedHistory
  <2>5. CASE g.list = <<>>
    <3>1. d.active = None /\ d.list = <<>>
      BY <2>1, <2>4, <2>5
    <3>2. Kept(d, S, M)
      BY <1>4, <2>4, <3>1 DEF Kept
    <3>3. QED
      BY <1>3, <1>7, <2>3, <2>4, <3>2 DEF Within
  <2>6. CASE g.list # <<>>
    <3>1. 1 \in DOMAIN g.list
      BY <1>3, <2>6 DEF IsHistory
    <3>2. x \in Sessions(g)
      BY <2>1, <2>6, <3>1 DEF Sessions, ToSet
    <3>3. HasActive(d)
      BY <2>4, <3>2 DEF HasActive
    <3>4. Kept(d, S, M)
      BY <1>4, <2>4, <3>3 DEF Kept
    <3>5. QED
      BY <1>3, <1>7, <2>3, <2>4, <3>4 DEF Within
  <2>7. QED
    BY <2>5, <2>6
<1>8. QED
  BY <1>6, <1>7
=============================================================================
