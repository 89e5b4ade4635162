------------------------ MODULE ChatPaneHistory_proofs ------------------------
(***************************************************************************)
(* What ChatPane shows, saves and gives to the agent, for any windows, any *)
(* limits and any number of messages, conversations and reloads.           *)
(***************************************************************************)
EXTENDS ChatPane_proofs, ChatHistory_proofs

-----------------------------------------------------------------------------
(* Replaying *)

Heard(m) == m.kind \in {"user", "assistant"}

\* A message more is replayed last, or not at all.
LEMMA ReplayOne ==
  ASSUME NEW T, NEW s \in Seq(T), NEW m \in T
  PROVE  /\ Replay(s) \in Seq(T)
         /\ Replay(Append(s, m)) = IF Heard(m) THEN Append(Replay(s), m) ELSE Replay(s)
<1>1. PICK P : P = {i \in DOMAIN s : s[i].kind \in {"user", "assistant"}}
  OBVIOUS
<1>2. PICK t : t = Append(s, m)
  OBVIOUS
<1>3. PICK Q : Q = {i \in DOMAIN t : t[i].kind \in {"user", "assistant"}}
  OBVIOUS
<1>4. Replay(s) = At(s, P) /\ Replay(t) = At(t, Q)
  BY <1>1, <1>3 DEF Replay
<1>5. /\ t \in Seq(T) /\ Len(s) \in Nat /\ DOMAIN s = 1 .. Len(s) /\ DOMAIN t = 1 .. Len(s) + 1
      /\ t[Len(s) + 1] = m /\ \A i \in DOMAIN s : t[i] = s[i]
  BY <1>2
<1>6. P \in SUBSET DOMAIN s
  BY <1>1
<1>7. DOMAIN s \subseteq DOMAIN t /\ Len(s) + 1 \in DOMAIN t /\ Len(s) + 1 \notin DOMAIN s
  BY <1>5
<1>8. \A i \in DOMAIN t : i \in DOMAIN s \/ i = Len(s) + 1
  BY <1>5
<1>9. CASE Heard(m)
  <2>1. \A i \in DOMAIN t : i \in Q <=> i \in P \/ i = Len(s) + 1
    BY <1>1, <1>3, <1>5, <1>7, <1>8, <1>9 DEF Heard
  <2>2. Q = P \cup {Len(s) + 1}
    BY <1>3, <1>6, <1>7, <2>1
  <2>3. At(t, Q) = Append(At(s, P), m)
    BY <1>2, <1>6, <2>2, AtLast
  <2>4. QED
    BY <1>2, <1>4, <1>6, <1>9, <2>3, AtRank
<1>10. CASE ~ Heard(m)
  <2>1. \A i \in DOMAIN t : i \in Q <=> i \in P
    BY <1>1, <1>3, <1>5, <1>7, <1>8, <1>10 DEF Heard
  <2>2. Q = P
    BY <1>3, <1>6, <1>7, <2>1
  <2>3. At(t, P) = At(s, P)
    BY <1>5, <1>6, <1>7, AtPrefix
  <2>4. QED
    BY <1>2, <1>4, <1>6, <1>10, <2>2, <2>3, AtRank
<1>11. QED
  BY <1>9, <1>10

\* What is replayed is among the messages.
LEMMA ReplayPart ==
  ASSUME NEW T, NEW s \in Seq(T)
  PROVE  Replay(s) \in Seq(T) /\ ToSet(Replay(s)) \subseteq ToSet(s)
<1>1. PICK P : P = {i \in DOMAIN s : s[i].kind \in {"user", "assistant"}}
  OBVIOUS
<1>2. Replay(s) = At(s, P) /\ P \in SUBSET DOMAIN s
  BY <1>1 DEF Replay
<1>3. /\ At(s, P) \in Seq(T) /\ DOMAIN At(s, P) = 1 .. Cardinality(P)
      /\ \A p \in P : At(s, P)[Rank(P, p)] = s[p]
      /\ \A i \in 1 .. Cardinality(P) : \E p \in P : Rank(P, p) = i
  BY <1>2, AtRank
<1>4. \A i \in DOMAIN At(s, P) : \E p \in DOMAIN s : At(s, P)[i] = s[p]
  BY <1>2, <1>3
<1>5. ToSet(At(s, P)) \subseteq ToSet(s)
  BY <1>4 DEF ToSet
<1>6. QED
  BY <1>2, <1>3, <1>5

\* Nothing is replayed of nothing, and of one message itself or nothing.
LEMMA ReplayFirst ==
  /\ Replay(<<>>) = <<>>
  /\ \A m : Replay(<<m>>) = IF Heard(m) THEN <<m>> ELSE <<>>
<1>1. Replay(<<>>) = <<>>
  <2>1. {i \in DOMAIN <<>> : (<<>>)[i].kind \in {"user", "assistant"}} = {}
    OBVIOUS
  <2>2. Replay(<<>>) = At(<<>>, {})
    BY <2>1, Zenon DEF Replay
  <2>3. 1 .. Cardinality({}) = {}
    BY FS_EmptySet
  <2>4. At(<<>>, {}) = <<>>
    BY <2>3 DEF At
  <2>5. QED
    BY <2>2, <2>4
<1>2. ASSUME NEW m
      PROVE  Replay(<<m>>) = IF Heard(m) THEN <<m>> ELSE <<>>
  <2>1. PICK e : e = <<>>
    OBVIOUS
  <2>2. e \in Seq({m}) /\ Append(e, m) = <<m>>
    BY <2>1
  <2>3. Replay(Append(e, m)) = IF Heard(m) THEN Append(Replay(e), m) ELSE Replay(e)
    BY <2>2, ReplayOne
  <2>4. QED
    BY <1>1, <2>1, <2>2, <2>3
<1>3. QED
  BY <1>1, <1>2

-----------------------------------------------------------------------------
(* Suffixes *)

\* s is the end of t, element by element.
LEMMA Suffix ==
  ASSUME NEW T, NEW s \in Seq(T), NEW t \in Seq(T)
  PROVE  IsSuffix(s, t) <=> Len(s) <= Len(t) /\ \A i \in 1 .. Len(s) : s[i] = t[Len(t) - Len(s) + i]
<1>1. PICK n \in Nat : n = Len(s)
  OBVIOUS
<1>2. PICK k \in Nat : k = Len(t)
  OBVIOUS
<1>3. PICK a : a = Reverse(s)
  OBVIOUS
<1>4. PICK b : b = Reverse(t)
  OBVIOUS
<1>5. a \in Seq(T) /\ Len(a) = n /\ \A i \in 1 .. n : a[i] = s[n - i + 1]
  <2>1. a = [i \in 1 .. n |-> s[(n - i) + 1]]
    BY <1>1, <1>3 DEF Reverse
  <2>2. \A i \in 1 .. n : (n - i) + 1 \in 1 .. n
    OBVIOUS
  <2>3. a \in [1 .. n -> T]
    BY <1>1, <2>1, <2>2
  <2>4. QED
    BY <2>1, <2>3
<1>6. b \in Seq(T) /\ Len(b) = k /\ \A i \in 1 .. k : b[i] = t[k - i + 1]
  <2>1. b = [i \in 1 .. k |-> t[(k - i) + 1]]
    BY <1>2, <1>4 DEF Reverse
  <2>2. \A i \in 1 .. k : (k - i) + 1 \in 1 .. k
    OBVIOUS
  <2>3. b \in [1 .. k -> T]
    BY <1>2, <2>1, <2>2
  <2>4. QED
    BY <2>1, <2>3
<1>7. IsSuffix(s, t) <=> n <= k /\ SubSeq(a, 1, n) = SubSeq(b, 1, n)
  BY <1>3, <1>4, <1>5, <1>6 DEF IsSuffix, IsPrefix
<1>8. ASSUME n <= k
      PROVE  SubSeq(a, 1, n) = SubSeq(b, 1, n) <=> \A i \in 1 .. n : s[i] = t[k - n + i]
  <2>1. SubSeq(a, 1, n) \in Seq(T) /\ Len(SubSeq(a, 1, n)) = n /\ \A i \in 1 .. n : SubSeq(a, 1, n)[i] = a[i]
    BY <1>5
  <2>2. SubSeq(b, 1, n) \in Seq(T) /\ Len(SubSeq(b, 1, n)) = n /\ \A i \in 1 .. n : SubSeq(b, 1, n)[i] = b[i]
    BY <1>6, <1>8
  <2>3. SubSeq(a, 1, n) = SubSeq(b, 1, n) <=> \A i \in 1 .. n : a[i] = b[i]
    BY <2>1, <2>2, SeqEqual
  <2>4. \A i \in 1 .. n : n - i + 1 \in 1 .. n /\ n - (n - i + 1) + 1 = i /\ k - i + 1 = k - n + (n - i + 1) /\ i \in 1 .. k
    BY <1>8
  <2>5. (\A i \in 1 .. n : a[i] = b[i]) => \A i \in 1 .. n : s[i] = t[k - n + i]
    <3>1. SUFFICES ASSUME \A i \in 1 .. n : a[i] = b[i], NEW i \in 1 .. n
                   PROVE  s[i] = t[k - n + i]
      OBVIOUS
    <3>2. PICK j \in 1 .. n : j = n - i + 1
      BY <2>4
    <3>3. n - j + 1 = i /\ k - j + 1 = k - n + i /\ j \in 1 .. k
      BY <1>8, <3>2
    <3>4. a[j] = s[i] /\ b[j] = t[k - n + i]
      BY <1>5, <1>6, <3>3
    <3>5. QED
      BY <3>1, <3>4
  <2>6. (\A i \in 1 .. n : s[i] = t[k - n + i]) => \A i \in 1 .. n : a[i] = b[i]
    <3>1. SUFFICES ASSUME \A i \in 1 .. n : s[i] = t[k - n + i], NEW i \in 1 .. n
                   PROVE  a[i] = b[i]
      OBVIOUS
    <3>2. PICK j \in 1 .. n : j = n - i + 1
      BY <2>4
    <3>3. k - i + 1 = k - n + j /\ i \in 1 .. k
      BY <1>8, <3>2
    <3>4. a[i] = s[j] /\ b[i] = t[k - n + j]
      BY <1>5, <1>6, <3>2, <3>3
    <3>5. QED
      BY <3>1, <3>4
  <2>7. QED
    BY <2>3, <2>5, <2>6
<1>9. QED
  BY <1>1, <1>2, <1>7, <1>8

\* A sequence is its own end.
LEMMA SuffixOfItself ==
  ASSUME NEW T, NEW s \in Seq(T)
  PROVE  IsSuffix(s, s)
<1>1. PICK n \in Nat : n = Len(s)
  OBVIOUS
<1>2. \A i \in 1 .. n : n - n + i = i
  OBVIOUS
<1>3. QED
  BY <1>1, <1>2, Suffix

\* The end of a sequence, with one element more on both.
LEMMA SuffixAndOne ==
  ASSUME NEW T, NEW s \in Seq(T), NEW t \in Seq(T), NEW m \in T, IsSuffix(s, t)
  PROVE  IsSuffix(Append(s, m), Append(t, m))
<1>1. PICK n \in Nat : n = Len(s)
  OBVIOUS
<1>2. PICK k \in Nat : k = Len(t)
  OBVIOUS
<1>3. n <= k /\ \A i \in 1 .. n : s[i] = t[k - n + i]
  BY <1>1, <1>2, Suffix
<1>4. PICK a : a = Append(s, m)
  OBVIOUS
<1>5. PICK b : b = Append(t, m)
  OBVIOUS
<1>6. a \in Seq(T) /\ Len(a) = n + 1 /\ a[n + 1] = m /\ \A i \in 1 .. n : a[i] = s[i]
  BY <1>1, <1>4
<1>7. b \in Seq(T) /\ Len(b) = k + 1 /\ b[k + 1] = m /\ \A i \in 1 .. k : b[i] = t[i]
  BY <1>2, <1>5
<1>8. ASSUME NEW i \in 1 .. n + 1
      PROVE  a[i] = b[(k + 1) - (n + 1) + i]
  <2>1. CASE i = n + 1
    <3>1. (k + 1) - (n + 1) + i = k + 1
      BY <2>1
    <3>2. QED
      BY <1>6, <1>7, <2>1, <3>1
  <2>2. CASE i # n + 1
    <3>1. i \in 1 .. n /\ (k + 1) - (n + 1) + i = k - n + i /\ k - n + i \in 1 .. k
      BY <1>3, <2>2
    <3>2. QED
      BY <1>3, <1>6, <1>7, <3>1
  <2>3. QED
    BY <2>1, <2>2
<1>9. n + 1 <= k + 1
  BY <1>3
<1>10. IsSuffix(a, b)
  BY <1>6, <1>7, <1>8, <1>9, Suffix
<1>11. QED
  BY <1>4, <1>5, <1>10

\* What is left of an end when it is cut at the front.
LEMMA SuffixCut ==
  ASSUME NEW T, NEW s \in Seq(T), NEW t \in Seq(T), IsSuffix(s, t), NEW n \in Nat
  PROVE  LastN(s, n) \in Seq(T) /\ IsSuffix(LastN(s, n), t)
<1>1. CASE Len(s) <= n
  BY <1>1, LastNFacts
<1>2. CASE Len(s) > n
  <2>1. PICK l \in Nat : l = Len(s)
    OBVIOUS
  <2>2. PICK k \in Nat : k = Len(t)
    OBVIOUS
  <2>3. PICK u : u = LastN(s, n)
    OBVIOUS
  <2>4. u \in Seq(T) /\ Len(u) = n /\ \A i \in 1 .. n : u[i] = s[l - n + i]
    BY <1>2, <2>1, <2>3, LastNLong
  <2>5. l <= k /\ \A i \in 1 .. l : s[i] = t[k - l + i]
    BY <2>1, <2>2, Suffix
  <2>6. ASSUME NEW i \in 1 .. n
        PROVE  u[i] = t[k - n + i]
    <3>1. l - n + i \in 1 .. l /\ k - l + (l - n + i) = k - n + i
      BY <1>2, <2>1
    <3>2. QED
      BY <2>4, <2>5, <3>1
  <2>7. n <= k
    BY <1>2, <2>1, <2>5
  <2>8. IsSuffix(u, t)
    BY <2>2, <2>4, <2>6, <2>7, Suffix
  <2>9. QED
    BY <2>3, <2>4, <2>8
<1>3. QED
  <2>1. Len(s) \in Nat
    OBVIOUS
  <2>2. QED
    BY <1>1, <1>2, <2>1

\* The end of a sequence is part of it.
LEMMA SuffixPart ==
  ASSUME NEW T, NEW s \in Seq(T), NEW t \in Seq(T), IsSuffix(s, t)
  PROVE  ToSet(s) \subseteq ToSet(t)
<1>1. PICK n \in Nat : n = Len(s)
  OBVIOUS
<1>2. PICK k \in Nat : k = Len(t)
  OBVIOUS
<1>3. n <= k /\ \A i \in 1 .. n : s[i] = t[k - n + i]
  BY <1>1, <1>2, Suffix
<1>4. DOMAIN s = 1 .. n /\ DOMAIN t = 1 .. k
  BY <1>1, <1>2
<1>5. \A i \in 1 .. n : k - n + i \in 1 .. k
  BY <1>3
<1>6. QED
  BY <1>3, <1>4, <1>5 DEF ToSet

-----------------------------------------------------------------------------
(* The pane *)

\* What a window holds, shows and gives to the agent, of sessions from S and
\* messages from M.
Fits(h, u, c, S, M) ==
  /\ Kept(h, S, M)
  /\ u \in Seq(M) /\ c \in Seq(M)
  /\ ActiveMessages(h) = LastN(u, MaxMessages)
  /\ IsSuffix(c, Replay(u))

PaneInv ==
  /\ made \in Nat
  /\ history = [w \in Windows |-> history[w]]
  /\ surface = [w \in Windows |-> surface[w]]
  /\ context = [w \in Windows |-> context[w]]
  /\ \A w \in Windows : Fits(history[w], surface[w], context[w], 1 .. made, Message)
  /\ Kept(store, 1 .. made, Message)

\* A history stays one when more sessions and messages are possible.
LEMMA KeptOf ==
  ASSUME NEW S, NEW M, NEW h, Kept(h, S, M), NEW S2, NEW M2, Sessions(h) \subseteq S2, M \subseteq M2
  PROVE  Kept(h, S2, M2)
<1>1. IsHistory(h, S2, M2)
  BY HistoryOf DEF Kept
<1>2. QED
  BY <1>1 DEF Kept

\* The sessions of a history of sessions from S.
LEMMA SessionsFrom ==
  ASSUME NEW S, NEW M, NEW h, Kept(h, S, M)
  PROVE  Sessions(h) \subseteq S
<1>1. h.list \in Seq(S)
  BY DEF Kept, IsHistory
<1>2. QED
  BY <1>1 DEF Sessions, ToSet

\* What a window shows stays what it is when more is possible.
LEMMA FitsOf ==
  ASSUME NEW S, NEW M, NEW h, NEW u, NEW c, Fits(h, u, c, S, M), NEW S2, NEW M2, S \subseteq S2, M \subseteq M2
  PROVE  Fits(h, u, c, S2, M2)
<1>1. Kept(h, S2, M2)
  BY KeptOf, SessionsFrom DEF Fits
<1>2. u \in Seq(M2) /\ c \in Seq(M2)
  BY SeqMonotonic DEF Fits
<1>3. QED
  BY <1>1, <1>2 DEF Fits

\* A step of one window leaves the others alone, though there may be more
\* messages and one more session.
LEMMA OneWindow ==
  ASSUME PaneInv, NEW w \in Windows, NEW h, NEW u, NEW c,
         made' \in Nat, made <= made', Message \subseteq Message',
         history' = [history EXCEPT ![w] = h], surface' = [surface EXCEPT ![w] = u],
         context' = [context EXCEPT ![w] = c],
         Fits(h, u, c, 1 .. made', Message'),
         store' = store \/ store' = h
  PROVE  PaneInv'
<1>1. \A v \in Windows : v # w => history'[v] = history[v] /\ surface'[v] = surface[v] /\ context'[v] = context[v]
  BY DEF PaneInv
<1>2. history'[w] = h /\ surface'[w] = u /\ context'[w] = c
  BY DEF PaneInv
<1>3. 1 .. made \subseteq 1 .. made'
  BY DEF PaneInv
<1>4. ASSUME NEW v \in Windows
      PROVE  Fits(history'[v], surface'[v], context'[v], 1 .. made', Message')
  <2>1. CASE v = w
    BY <1>2, <2>1
  <2>2. CASE v # w
    <3>1. Fits(history[v], surface[v], context[v], 1 .. made, Message)
      BY DEF PaneInv
    <3>2. Fits(history[v], surface[v], context[v], 1 .. made', Message')
      BY <1>3, <3>1, FitsOf
    <3>3. QED
      BY <1>1, <2>2, <3>2, Zenon
  <2>3. QED
    BY <2>1, <2>2
<1>5. Kept(store', 1 .. made', Message')
  <2>1. Kept(store, 1 .. made, Message)
    BY DEF PaneInv
  <2>2. Kept(store, 1 .. made', Message')
    BY <1>3, <2>1, KeptOf, SessionsFrom
  <2>3. QED
    BY <2>2 DEF Fits
<1>6. /\ history' = [v \in Windows |-> history'[v]] /\ surface' = [v \in Windows |-> surface'[v]]
      /\ context' = [v \in Windows |-> context'[v]]
  BY DEF PaneInv
<1>7. QED
  BY <1>4, <1>5, <1>6 DEF PaneInv

\* A history that is put in place is in the store as well; a new session in
\* it counts.
LEMMA HistorySet ==
  ASSUME PaneInv, NEW w \in Windows, NEW M, NEW h, Kept(h, 1 .. made + 1, M), SetHistory(w, h)
  PROVE  /\ history' = [history EXCEPT ![w] = h] /\ history'[w] = h /\ store' = h
         /\ made' \in Nat /\ made <= made' /\ made' <= made + 1
         /\ Kept(h, 1 .. made', M)
         /\ \A s \in Sessions(h) : s <= made'
<1>1. history' = [history EXCEPT ![w] = h] /\ history'[w] = h /\ store' = h
  BY DEF SetHistory, PaneInv
<1>2. made \in Nat /\ made' = IF made + 1 \in Sessions(h) THEN made + 1 ELSE made
  BY <1>1 DEF SetHistory, PaneInv
<1>3. Sessions(h) \subseteq 1 .. made + 1
  BY SessionsFrom
<1>4. Sessions(h) \subseteq 1 .. made'
  <2>1. CASE made + 1 \in Sessions(h)
    BY <1>2, <1>3, <2>1
  <2>2. CASE made + 1 \notin Sessions(h)
    <3>1. \A s \in Sessions(h) : s \in 1 .. made
      BY <1>2, <1>3, <2>2
    <3>2. QED
      BY <1>2, <2>2, <3>1
  <2>3. QED
    BY <2>1, <2>2
<1>5. Kept(h, 1 .. made', M)
  BY <1>4, KeptOf
<1>6. made' \in Nat /\ made <= made' /\ made' <= made + 1
  BY <1>2
<1>7. \A s \in Sessions(h) : s <= made'
  BY <1>4, <1>6
<1>8. QED
  BY <1>1, <1>5, <1>6, <1>7

\* Messages that are shown are recorded as well.
LEMMA Shown ==
  ASSUME PaneInv, NEW w \in Windows, NEW M, Message \subseteq M, NEW ms \in Seq(M), Len(ms) <= 2,
         Show(w, ms), NEW g, g = history'[w]
  PROVE  /\ surface' = [surface EXCEPT ![w] = surface[w] \o ms] /\ surface[w] \o ms \in Seq(M)
         /\ history' = [history EXCEPT ![w] = g]
         /\ store' = IF ms = <<>> THEN store ELSE g
         /\ made' \in Nat /\ made <= made' /\ made' <= made + 1
         /\ Kept(g, 1 .. made', M) /\ ActiveMessages(g) = LastN(surface[w] \o ms, MaxMessages)
         /\ Recorded(g, history[w], made + 1, ms, 1 .. made + 1, M)
         /\ \A s \in Sessions(g) : s <= made'
<1>1. PICK r : r = RecordAll(history[w], made + 1, ms)
  OBVIOUS
<1>2. \/ ms = <<>> /\ UNCHANGED <<history, store, surface, made>>
      \/ ms # <<>> /\ SetHistory(w, r) /\ surface' = [surface EXCEPT ![w] = surface[w] \o ms]
  BY <1>1 DEF Show
<1>3. made \in Nat /\ Fits(history[w], surface[w], context[w], 1 .. made, Message)
  BY DEF PaneInv
<1>4. 1 .. made \subseteq 1 .. made + 1 /\ made + 1 \in 1 .. made + 1 /\ made + 1 \notin 1 .. made
  BY <1>3
<1>5. Fits(history[w], surface[w], context[w], 1 .. made + 1, M)
  BY <1>3, <1>4, FitsOf
<1>6. Sessions(history[w]) \subseteq 1 .. made
  BY <1>3, SessionsFrom DEF Fits
<1>7. /\ Kept(history[w], 1 .. made + 1, M) /\ surface[w] \in Seq(M)
      /\ ActiveMessages(history[w]) = LastN(surface[w], MaxMessages)
      /\ made + 1 \notin Sessions(history[w])
  BY <1>4, <1>5, <1>6 DEF Fits
<1>8. /\ Recorded(r, history[w], made + 1, ms, 1 .. made + 1, M)
      /\ ActiveMessages(r) = LastN(surface[w] \o ms, MaxMessages)
  BY <1>1, <1>4, <1>7, RecordedAll
<1>9. Kept(r, 1 .. made + 1, M)
  BY <1>8 DEF Recorded
<1>10. /\ surface' = [surface EXCEPT ![w] = surface[w] \o ms]
       /\ history' = [history EXCEPT ![w] = r] /\ history'[w] = r
       /\ store' = IF ms = <<>> THEN store ELSE r
       /\ made' \in Nat /\ made <= made' /\ made' <= made + 1
       /\ Kept(r, 1 .. made', M)
       /\ \A s \in Sessions(r) : s <= made'
  <2>1. CASE ms # <<>>
    BY <1>2, <1>9, <2>1, HistorySet
  <2>2. CASE ms = <<>>
    <3>1. UNCHANGED <<history, store, surface, made>> /\ r = history[w]
      BY <1>1, <1>2, <2>2 DEF RecordAll
    <3>2. surface[w] \o ms = surface[w]
      BY <1>7, <2>2
    <3>3. history = [history EXCEPT ![w] = history[w]] /\ surface = [surface EXCEPT ![w] = surface[w]]
      <4>1. history = [v \in Windows |-> history[v]] /\ surface = [v \in Windows |-> surface[v]]
        BY DEF PaneInv
      <4>2. QED
        BY <4>1
    <3>4. Kept(r, 1 .. made, M)
      <4>1. Kept(history[w], 1 .. made, Message)
        BY <1>3 DEF Fits
      <4>2. Kept(history[w], 1 .. made, M)
        BY <1>6, <4>1, KeptOf
      <4>3. QED
        BY <3>1, <4>2
    <3>5. \A s \in Sessions(r) : s <= made
      BY <1>3, <1>6, <3>1
    <3>6. /\ surface' = [surface EXCEPT ![w] = surface[w] \o ms]
          /\ history' = [history EXCEPT ![w] = r] /\ history'[w] = r
      BY <3>1, <3>2, <3>3
    <3>7. made' \in Nat /\ made <= made' /\ made' <= made + 1
      BY <1>3, <3>1
    <3>8. store' = IF ms = <<>> THEN store ELSE r
      BY <2>2, <3>1
    <3>9. Kept(r, 1 .. made', M) /\ \A s \in Sessions(r) : s <= made'
      BY <3>1, <3>4, <3>5
    <3>10. QED
      BY <3>6, <3>7, <3>8, <3>9
  <2>3. QED
    BY <2>1, <2>2
<1>11. surface[w] \o ms \in Seq(M)
  BY <1>7
<1>12. g = r
  BY <1>10
<1>13. QED
  BY <1>2, <1>8, <1>10, <1>11, <1>12

\* Another conversation is shown, from its messages alone.
LEMMA ShownSession ==
  ASSUME PaneInv, NEW w \in Windows, Message \subseteq Message', NEW h, Kept(h, 1 .. made + 1, Message'),
         ShowSession(w, h)
  PROVE  PaneInv'
<1>1. PICK u : u = ActiveMessages(h)
  OBVIOUS
<1>2. PICK c : c = Replay(u)
  OBVIOUS
<1>3. /\ SetHistory(w, h) /\ surface' = [surface EXCEPT ![w] = u]
      /\ context' = [context EXCEPT ![w] = c]
  BY <1>1, <1>2 DEF ShowSession
<1>4. /\ history' = [history EXCEPT ![w] = h] /\ store' = h
      /\ made' \in Nat /\ made <= made' /\ Kept(h, 1 .. made', Message')
  BY <1>3, HistorySet
<1>5. u \in Seq(Message') /\ Len(u) <= MaxMessages
  <2>1. CASE HasActive(h)
    <3>1. u = h.messages[h.active] /\ h.active \in Sessions(h)
      BY <1>1, <2>1 DEF ActiveMessages, HasActive
    <3>2. QED
      BY <1>4, <3>1 DEF Kept, IsHistory
  <2>2. CASE ~ HasActive(h)
    <3>1. u = <<>>
      BY <1>1, <2>2 DEF ActiveMessages
    <3>2. QED
      BY <3>1, HistoryLimits
  <2>3. QED
    BY <2>1, <2>2
<1>6. LastN(u, MaxMessages) = u
  BY <1>5 DEF LastN
<1>7. c \in Seq(Message')
  BY <1>2, <1>5, ReplayPart
<1>8. IsSuffix(c, c)
  BY <1>7, SuffixOfItself
<1>9. Fits(h, u, c, 1 .. made', Message')
  BY <1>1, <1>2, <1>4, <1>5, <1>6, <1>7, <1>8 DEF Fits
<1>10. QED
  BY <1>3, <1>4, <1>9, OneWindow

\* The list of a window changes behind the conversation on show.
LEMMA ListSet ==
  ASSUME PaneInv, NEW w \in Windows, Message \subseteq Message', NEW h, Kept(h, 1 .. made + 1, Message'),
         ActiveMessages(h) = ActiveMessages(history[w]),
         SetHistory(w, h), surface' = surface, context' = context
  PROVE  PaneInv'
<1>1. /\ history' = [history EXCEPT ![w] = h] /\ store' = h
      /\ made' \in Nat /\ made <= made' /\ Kept(h, 1 .. made', Message')
  BY HistorySet
<1>2. PICK u : u = surface[w]
  OBVIOUS
<1>3. PICK c : c = context[w]
  OBVIOUS
<1>4. Fits(history[w], u, c, 1 .. made, Message)
  BY <1>2, <1>3 DEF PaneInv
<1>5. Fits(history[w], u, c, 1 .. made, Message')
  BY <1>4, FitsOf
<1>6. Fits(h, u, c, 1 .. made', Message')
  BY <1>1, <1>5 DEF Fits
<1>7. surface' = [surface EXCEPT ![w] = u] /\ context' = [context EXCEPT ![w] = c]
  BY <1>2, <1>3 DEF PaneInv
<1>8. QED
  BY <1>1, <1>6, <1>7, OneWindow

\* Messages are shown and the context is the end of what is on show.
LEMMA ShownWithContext ==
  ASSUME PaneInv, NEW w \in Windows, Message \subseteq Message', NEW ms \in Seq(Message'), Len(ms) <= 2,
         Show(w, ms), NEW c \in Seq(Message'), context' = [context EXCEPT ![w] = c],
         IsSuffix(c, Replay(surface[w] \o ms))
  PROVE  PaneInv'
<1>1. PICK g : g = history'[w]
  OBVIOUS
<1>2. PICK u : u = surface[w] \o ms
  OBVIOUS
<1>3. /\ surface' = [surface EXCEPT ![w] = u] /\ u \in Seq(Message')
      /\ history' = [history EXCEPT ![w] = g] /\ store' \in {store, g}
      /\ made' \in Nat /\ made <= made'
      /\ Kept(g, 1 .. made', Message') /\ ActiveMessages(g) = LastN(u, MaxMessages)
  BY <1>1, <1>2, Shown
<1>4. Fits(g, u, c, 1 .. made', Message')
  BY <1>2, <1>3 DEF Fits
<1>5. QED
  BY <1>3, <1>4, OneWindow

-----------------------------------------------------------------------------
(* Steps *)

\* There are as many asks as before, or more.
LEMMA MoreAsks ==
  ASSUME Len(asks) \in Nat, Len(asks') \in Nat, Len(asks) <= Len(asks')
  PROVE  Message \subseteq Message'
<1>1. 1 .. Len(asks) \subseteq 1 .. Len(asks')
  OBVIOUS
<1>2. QED
  BY <1>1 DEF Message

\* An error is shown last and not replayed.
LEMMA ReplayError ==
  ASSUME NEW T, NEW u \in Seq(T), NEW ms \in Seq(T), NEW e \in T, e.kind = "error"
  PROVE  Replay(u \o Append(ms, e)) = Replay(u \o ms)
<1>1. PICK t : t = u \o ms
  OBVIOUS
<1>2. t \in Seq(T) /\ u \o Append(ms, e) = Append(t, e)
  BY <1>1
<1>3. ~ Heard(e)
  BY DEF Heard
<1>4. Replay(Append(t, e)) = Replay(t)
  BY <1>2, <1>3, ReplayOne
<1>5. QED
  BY <1>1, <1>2, <1>4

\* Whether the guard refuses the ask or not, what is shown is recorded.
LEMMA SubmitShows ==
  ASSUME PaneInv, NEW w \in Windows, Message \subseteq Message', NEW a \in 1 .. Len(asks'),
         NEW before, NEW ms \in Seq(Message'), Len(ms) <= 1, NEW more, Submit(w, a, before, ms, more),
         NEW c \in Seq(Message'), context' = [context EXCEPT ![w] = c],
         IsSuffix(c, Replay(surface[w] \o ms))
  PROVE  PaneInv'
<1>1. PICK e : e = [ask |-> a, kind |-> "error"]
  OBVIOUS
<1>2. e \in Message' /\ e.kind = "error"
  BY <1>1 DEF Message
<1>3. PICK both : both = Append(ms, e)
  OBVIOUS
<1>4. both \in Seq(Message') /\ Len(both) <= 2
  BY <1>2, <1>3
<1>5. Show(w, both) \/ Show(w, ms)
  BY <1>1, <1>3 DEF Submit
<1>6. ASSUME NEW some \in Seq(Message'), Len(some) <= 2, Show(w, some),
             IsSuffix(c, Replay(surface[w] \o some))
      PROVE  PaneInv'
  BY <1>6, ShownWithContext
<1>7. CASE Show(w, both)
  <2>1. surface[w] \in Seq(Message')
    <3>1. Fits(history[w], surface[w], context[w], 1 .. made, Message)
      BY DEF PaneInv
    <3>2. Fits(history[w], surface[w], context[w], 1 .. made, Message')
      BY <3>1, FitsOf
    <3>3. QED
      BY <3>2 DEF Fits
  <2>2. Replay(surface[w] \o both) = Replay(surface[w] \o ms)
    BY <1>2, <1>3, <2>1, ReplayError
  <2>3. IsSuffix(c, Replay(surface[w] \o both))
    BY <2>2, Zenon
  <2>4. QED
    BY <1>4, <1>6, <1>7, <2>3
<1>8. CASE Show(w, ms)
  <2>1. Len(ms) <= 2
    OBVIOUS
  <2>2. QED
    BY <1>6, <1>8, <2>1
<1>9. QED
  BY <1>5, <1>7, <1>8

\* What one more message does to the context and to what is on show.
LEMMA ContextAndOne ==
  ASSUME NEW M, NEW u \in Seq(M), NEW c \in Seq(M), IsSuffix(c, Replay(u)), NEW m \in M
  PROVE  /\ c \o Replay(<<m>>) \in Seq(M)
         /\ IsSuffix(c \o Replay(<<m>>), Replay(u \o <<m>>))
<1>1. u \o <<m>> = Append(u, m)
  OBVIOUS
<1>2. Replay(u) \in Seq(M) /\ Replay(Append(u, m)) = IF Heard(m) THEN Append(Replay(u), m) ELSE Replay(u)
  BY ReplayOne
<1>3. CASE Heard(m)
  <2>1. Replay(<<m>>) = <<m>>
    BY <1>3, ReplayFirst
  <2>2. c \o <<m>> = Append(c, m)
    OBVIOUS
  <2>3. Append(c, m) \in Seq(M)
    OBVIOUS
  <2>4. PICK r : r = Replay(u)
    OBVIOUS
  <2>5. IsSuffix(Append(c, m), Append(r, m))
    BY <1>2, <2>4, SuffixAndOne
  <2>6. QED
    BY <1>1, <1>2, <1>3, <2>1, <2>2, <2>3, <2>4, <2>5
<1>4. CASE ~ Heard(m)
  <2>1. Replay(<<m>>) = <<>>
    BY <1>4, ReplayFirst
  <2>2. c \o <<>> = c
    OBVIOUS
  <2>3. QED
    BY <1>1, <1>2, <1>4, <2>1, <2>2
<1>5. QED
  BY <1>3, <1>4

\* The user's message joins both, and the context may be cut.
LEMMA SendMessageShows ==
  ASSUME PaneInv, RequestInv, NEW w \in Windows, NEW long \in BOOLEAN, SendMessage(w, long)
  PROVE  PaneInv'
<1>1. PICK a : a = Len(asks) + 1
  OBVIOUS
<1>2. PICK m : m = [ask |-> a, kind |-> "user"]
  OBVIOUS
<1>3. PICK c : c = Compacted(Append(context[w], m), long)
  OBVIOUS
<1>4. PICK ask : ask = [window |-> w, pc |-> "reading", attempt |-> 0, agent |-> "none", shown |-> FALSE,
                        session |-> IF HasActive(history[w]) THEN history[w].active ELSE made + 1, context |-> c]
  OBVIOUS
<1>5. PICK after : after = Append(asks, ask)
  OBVIOUS
<1>6. /\ context' = [context EXCEPT ![w] = c]
      /\ \/ Submit(w, a, after, <<m>>, 1)
         \/ asks' = after /\ Show(w, <<m>>)
  BY <1>1, <1>2, <1>3, <1>4, <1>5 DEF SendMessage
<1>7. PICK S, C : asks \in Seq(AskOf(S, C))
  BY DEF RequestInv, Shape
<1>8. Len(asks) \in Nat /\ a \in Nat /\ Len(asks) <= a
  BY <1>1, <1>7
<1>9. PICK R : R = S \cup {IF HasActive(history[w]) THEN history[w].active ELSE made + 1}
  OBVIOUS
<1>10. PICK D : D = C \cup {c}
  OBVIOUS
<1>11. S \subseteq R /\ C \subseteq D /\ ask \in AskOf(R, D)
  BY <1>4, <1>9, <1>10, LimitsAreNumbers DEF AskOf, PCs
<1>12. after \in Seq(AskOf(R, D)) /\ Len(after) = a /\ a \in DOMAIN after
  <2>1. after \in Seq(AskOf(R, D)) /\ a \in DOMAIN after
    BY <1>1, <1>5, <1>7, <1>11, NewAsk
  <2>2. Len(after) = a
    BY <1>1, <1>5, <1>7
  <2>3. QED
    BY <2>1, <2>2
<1>13. Len(asks') = a
  <2>1. CASE Submit(w, a, after, <<m>>, 1)
    <3>1. processing \in [Windows -> BOOLEAN]
      BY DEF RequestInv, Shape
    <3>2. Len(asks') = Len(after)
      BY <1>12, <2>1, <3>1, SubmitFacts
    <3>3. QED
      BY <1>12, <3>2
  <2>2. CASE asks' = after
    BY <1>12, <2>2
  <2>3. QED
    BY <1>6, <2>1, <2>2
<1>14. Message \subseteq Message'
  BY <1>8, <1>13, MoreAsks
<1>15. m \in Message' /\ Heard(m)
  BY <1>1, <1>2, <1>8, <1>13 DEF Message, Heard
<1>16. PICK ms : ms = <<m>>
  OBVIOUS
<1>17. ms \in Seq(Message') /\ Len(ms) <= 1 /\ Len(ms) <= 2
  BY <1>15, <1>16
<1>18. PICK u : u = surface[w]
  OBVIOUS
<1>19. PICK d : d = context[w]
  OBVIOUS
<1>20. u \in Seq(Message') /\ d \in Seq(Message') /\ IsSuffix(d, Replay(u))
  <2>1. Fits(history[w], u, d, 1 .. made, Message)
    BY <1>18, <1>19 DEF PaneInv
  <2>2. Fits(history[w], u, d, 1 .. made, Message')
    BY <1>14, <2>1, FitsOf
  <2>3. QED
    BY <2>2 DEF Fits
<1>21. PICK r : r = Replay(u \o ms)
  OBVIOUS
<1>22. PICK e : e = Append(d, m)
  OBVIOUS
<1>23. e \in Seq(Message') /\ IsSuffix(e, r)
  <2>1. IsSuffix(d \o Replay(ms), Replay(u \o ms))
    BY <1>15, <1>16, <1>20, ContextAndOne
  <2>2. Replay(ms) = <<m>>
    BY <1>15, <1>16, ReplayFirst
  <2>3. d \o <<m>> = Append(d, m) /\ Append(d, m) \in Seq(Message')
    BY <1>15, <1>20
  <2>4. QED
    BY <1>21, <1>22, <2>1, <2>2, <2>3
<1>24. r \in Seq(Message')
  <2>1. u \o ms \in Seq(Message')
    BY <1>17, <1>20
  <2>2. QED
    BY <1>21, <2>1, ReplayPart
<1>25. c \in Seq(Message') /\ IsSuffix(c, r)
  <2>1. c = IF long THEN LastN(e, KeepTail) ELSE e
    BY <1>3, <1>19, <1>22, Zenon DEF Compacted
  <2>2. LastN(e, KeepTail) \in Seq(Message') /\ IsSuffix(LastN(e, KeepTail), r)
    BY <1>23, <1>24, SuffixCut, LimitsAreNumbers
  <2>3. QED
    BY <1>23, <2>1, <2>2
<1>26. a \in 1 .. Len(asks')
  BY <1>1, <1>8, <1>13
<1>27. context' = [context EXCEPT ![w] = c] /\ IsSuffix(c, Replay(surface[w] \o ms))
  BY <1>6, <1>18, <1>21, <1>25, Zenon
<1>28. CASE Submit(w, a, after, ms, 1)
  BY <1>14, <1>17, <1>25, <1>26, <1>27, <1>28, SubmitShows
<1>29. CASE Show(w, ms)
  BY <1>14, <1>17, <1>25, <1>27, <1>29, ShownWithContext
<1>30. QED
  BY <1>6, <1>16, <1>28, <1>29

\* What there is when a step has no new asks.
LEMMA SameAsks ==
  ASSUME PaneInv, RequestInv, Len(asks') = Len(asks), NEW w \in Windows
  PROVE  /\ Message \subseteq Message' /\ Len(asks) \in Nat
         /\ surface[w] \in Seq(Message') /\ context[w] \in Seq(Message')
         /\ IsSuffix(context[w], Replay(surface[w]))
         /\ context = [context EXCEPT ![w] = context[w]]
<1>1. PICK S, C : asks \in Seq(AskOf(S, C))
  BY DEF RequestInv, Shape
<1>2. Len(asks) \in Nat
  BY <1>1
<1>3. Message \subseteq Message'
  BY <1>2, MoreAsks
<1>4. PICK u : u = surface[w]
  OBVIOUS
<1>5. PICK c : c = context[w]
  OBVIOUS
<1>6. Fits(history[w], u, c, 1 .. made, Message)
  BY <1>4, <1>5 DEF PaneInv
<1>7. Fits(history[w], u, c, 1 .. made, Message')
  BY <1>3, <1>6, FitsOf
<1>8. context = [context EXCEPT ![w] = context[w]]
  BY DEF PaneInv
<1>9. QED
  BY <1>2, <1>3, <1>4, <1>5, <1>7, <1>8 DEF Fits

\* The guard is looked at when the files have been read.
LEMMA AttachmentsReadShows ==
  ASSUME PaneInv, RequestInv, NEW a \in DOMAIN asks, AttachmentsRead(a)
  PROVE  PaneInv'
<1>1. PICK S, C : asks \in Seq(AskOf(S, C))
  BY DEF RequestInv, Shape
<1>2. PICK w : w = asks[a].window
  OBVIOUS
<1>3. w \in Windows
  BY <1>1, <1>2, AskFacts
<1>4. PICK ms : ms = <<>>
  OBVIOUS
<1>5. Submit(w, a, asks, ms, 0) /\ context' = context
  BY <1>2, <1>4 DEF AttachmentsRead
<1>6. processing \in [Windows -> BOOLEAN]
  BY DEF RequestInv, Shape
<1>7. Len(asks') = Len(asks)
  BY <1>1, <1>3, <1>5, <1>6, SubmitFacts
<1>8. PICK c : c = context[w]
  OBVIOUS
<1>9. /\ Message \subseteq Message' /\ Len(asks) \in Nat
      /\ surface[w] \in Seq(Message') /\ c \in Seq(Message') /\ IsSuffix(c, Replay(surface[w]))
      /\ context = [context EXCEPT ![w] = c]
  BY <1>3, <1>7, <1>8, SameAsks
<1>10. a \in 1 .. Len(asks')
  BY <1>1, <1>7
<1>11. ms \in Seq(Message') /\ Len(ms) <= 1 /\ surface[w] \o ms = surface[w]
  BY <1>4, <1>9
<1>12. context' = [context EXCEPT ![w] = c] /\ IsSuffix(c, Replay(surface[w] \o ms))
  BY <1>5, <1>9, <1>11, Zenon
<1>13. QED
  BY <1>3, <1>5, <1>9, <1>10, <1>11, <1>12, SubmitShows

\* An event is shown, recorded and, if it is said by the agent, part of the
\* context; a note is neither.
LEMMA HandleQwenEventShows ==
  ASSUME PaneInv, RequestInv, NEW w \in Windows, HandleQwenEvent(w)
  PROVE  PaneInv'
<1>1. PICK m : m = Head(down[w])
  OBVIOUS
<1>2. PICK ms : ms = IF m.kind = "note" THEN <<>> ELSE <<m>>
  OBVIOUS
<1>3. /\ down[w] # <<>> /\ m.kind \in Events
      /\ asks' = [asks EXCEPT ![m.ask].shown = TRUE]
      /\ context' = [context EXCEPT ![w] = context[w] \o Replay(<<m>>)]
      /\ Show(w, ms)
  BY <1>1, <1>2 DEF HandleQwenEvent
<1>4. down[w] \in Seq([ask : Nat, kind : Events \cup Exits]) /\ down[w][1].ask \in DOMAIN asks
  <2>1. down[w] \in Seq([ask : Nat, kind : Events \cup Exits])
    BY DEF RequestInv, Shape
  <2>2. 1 \in DOMAIN down[w]
    BY <1>3, <2>1
  <2>3. QED
    BY <2>1, <2>2 DEF RequestInv, Shape
<1>5. m = down[w][1] /\ m \in [ask : Nat, kind : Events \cup Exits] /\ m.ask \in DOMAIN asks
  <2>1. PICK T : T = [ask : Nat, kind : Events \cup Exits]
    OBVIOUS
  <2>2. PICK q : q = down[w]
    OBVIOUS
  <2>3. q \in Seq(T) /\ q # <<>> /\ m = Head(q)
    BY <1>1, <1>3, <1>4, <2>1, <2>2
  <2>4. m = q[1] /\ m \in T
    BY <2>3
  <2>5. QED
    BY <1>4, <2>1, <2>2, <2>4
<1>6. PICK S, C : asks \in Seq(AskOf(S, C))
  BY DEF RequestInv, Shape
<1>7. Len(asks') = Len(asks) /\ m.ask \in 1 .. Len(asks)
  BY <1>3, <1>5, <1>6
<1>8. PICK c : c = context[w]
  OBVIOUS
<1>9. PICK u : u = surface[w]
  OBVIOUS
<1>10. /\ Message \subseteq Message' /\ u \in Seq(Message') /\ c \in Seq(Message')
       /\ IsSuffix(c, Replay(u))
  BY <1>7, <1>8, <1>9, SameAsks
<1>11. PICK d : d = c \o Replay(<<m>>)
  OBVIOUS
<1>12. CASE m.kind = "note"
  <2>1. ms = <<>>
    BY <1>2, <1>12
  <2>2. Replay(<<m>>) = <<>>
    BY <1>12, ReplayFirst DEF Heard
  <2>3. ms \in Seq(Message') /\ Len(ms) <= 2 /\ u \o ms = u /\ d = c
    BY <1>10, <1>11, <2>1, <2>2
  <2>4. context' = [context EXCEPT ![w] = d] /\ IsSuffix(d, Replay(surface[w] \o ms)) /\ d \in Seq(Message')
    BY <1>3, <1>8, <1>9, <1>10, <1>11, <2>3, Zenon
  <2>5. QED
    BY <1>3, <1>10, <2>3, <2>4, ShownWithContext
<1>13. CASE m.kind # "note"
  <2>1. ms = <<m>>
    BY <1>2, <1>13
  <2>2. m \in Message'
    BY <1>3, <1>5, <1>7, <1>13 DEF Events, Message
  <2>3. ms \in Seq(Message') /\ Len(ms) <= 2
    BY <2>1, <2>2
  <2>4. d \in Seq(Message') /\ IsSuffix(d, Replay(u \o <<m>>))
    BY <1>10, <1>11, <2>2, ContextAndOne
  <2>5. context' = [context EXCEPT ![w] = d] /\ IsSuffix(d, Replay(surface[w] \o ms)) /\ d \in Seq(Message')
    BY <1>3, <1>8, <1>9, <1>11, <2>1, <2>4, Zenon
  <2>6. QED
    BY <1>3, <1>10, <2>3, <2>5, ShownWithContext
<1>14. QED
  BY <1>12, <1>13

\* A step that shows and records nothing.
LEMMA NothingShown ==
  ASSUME PaneInv, Len(asks') = Len(asks), UNCHANGED <<history, store, surface, context, made>>
  PROVE  PaneInv'
<1>1. Message' = Message
  BY DEF Message
<1>2. history' = history /\ store' = store /\ surface' = surface /\ context' = context /\ made' = made
  OBVIOUS
<1>3. ASSUME NEW w \in Windows
      PROVE  Fits(history'[w], surface'[w], context'[w], 1 .. made', Message')
  <2>1. Fits(history[w], surface[w], context[w], 1 .. made, Message)
    BY DEF PaneInv
  <2>2. QED
    BY <1>1, <1>2, <2>1, Zenon
<1>4. Kept(store', 1 .. made', Message')
  <2>1. Kept(store, 1 .. made, Message)
    BY DEF PaneInv
  <2>2. QED
    BY <1>1, <1>2, <2>1, Zenon
<1>5. /\ made' \in Nat /\ history' = [w \in Windows |-> history'[w]]
      /\ surface' = [w \in Windows |-> surface'[w]] /\ context' = [w \in Windows |-> context'[w]]
  BY <1>2 DEF PaneInv
<1>6. QED
  BY <1>3, <1>4, <1>5 DEF PaneInv

\* An ask that is changed in place leaves their number alone.
LEMMA AsksInPlace ==
  ASSUME RequestInv, NEW a, NEW r, asks' = [asks EXCEPT ![a] = r]
  PROVE  Len(asks') = Len(asks)
<1>1. PICK S, C : asks \in Seq(AskOf(S, C))
  BY DEF RequestInv, Shape
<1>2. PICK n \in Nat : n = Len(asks)
  BY <1>1
<1>3. PICK T : T = AskOf(S, C) \cup {r}
  OBVIOUS
<1>4. asks \in [1 .. n -> T]
  BY <1>1, <1>2, <1>3
<1>5. asks' \in [1 .. n -> T]
  BY <1>3, <1>4
<1>6. QED
  BY <1>2, <1>5

\* A failure is shown as an error; the other answers are not shown.
LEMMA HandleAnswerShows ==
  ASSUME PaneInv, RequestInv, NEW w \in Windows, HandleAnswer(w)
  PROVE  PaneInv'
<1>1. PICK a : a = Head(down[w]).ask
  OBVIOUS
<1>2. /\ down[w] # <<>> /\ context' = context
      /\ Answered(w, a) \/ Retry(w, a) \/ Failed(w, a)
  BY <1>1 DEF HandleAnswer
<1>3. Len(asks') = Len(asks)
  <2>1. \E r : asks' = [asks EXCEPT ![a] = r]
    BY <1>2 DEF Answered, Retry, Failed
  <2>2. QED
    BY <2>1, AsksInPlace
<1>4. CASE Answered(w, a) \/ Retry(w, a)
  BY <1>2, <1>3, <1>4, NothingShown DEF Answered, Retry
<1>5. CASE Failed(w, a)
  <2>1. PICK e : e = [ask |-> a, kind |-> "error"]
    OBVIOUS
  <2>2. PICK ms : ms = <<e>>
    OBVIOUS
  <2>3. Show(w, ms)
    BY <1>5, <2>1, <2>2 DEF Failed
  <2>4. a \in 1 .. Len(asks')
    <3>1. PICK q : q = down[w]
      OBVIOUS
    <3>2. q \in Seq([ask : Nat, kind : Events \cup Exits]) /\ q # <<>>
      BY <1>2, <3>1 DEF RequestInv, Shape
    <3>3. 1 \in DOMAIN q /\ Head(q) = q[1]
      BY <3>2
    <3>4. a \in DOMAIN asks
      BY <1>1, <3>1, <3>3 DEF RequestInv, Shape
    <3>5. PICK S, C : asks \in Seq(AskOf(S, C))
      BY DEF RequestInv, Shape
    <3>6. QED
      BY <1>3, <3>4, <3>5
  <2>5. e \in Message' /\ e.kind = "error"
    BY <2>1, <2>4 DEF Message
  <2>6. PICK c : c = context[w]
    OBVIOUS
  <2>7. PICK u : u = surface[w]
    OBVIOUS
  <2>8. /\ Message \subseteq Message' /\ u \in Seq(Message') /\ c \in Seq(Message')
        /\ IsSuffix(c, Replay(u)) /\ context' = [context EXCEPT ![w] = c]
    BY <1>2, <1>3, <2>6, <2>7, SameAsks
  <2>9. ms \in Seq(Message') /\ Len(ms) <= 2
    BY <2>2, <2>5
  <2>10. Replay(u \o ms) = Replay(u)
    <3>1. u \o ms = Append(u, e)
      BY <2>2
    <3>2. ~ Heard(e) /\ e \in Message' /\ u \in Seq(Message')
      BY <2>5, <2>8 DEF Heard
    <3>3. Replay(Append(u, e)) = Replay(u)
      BY <3>2, ReplayOne
    <3>4. QED
      BY <3>1, <3>3
  <2>11. IsSuffix(c, Replay(surface[w] \o ms))
    BY <2>7, <2>8, <2>10, Zenon
  <2>12. QED
    BY <2>3, <2>8, <2>9, <2>11, ShownWithContext
<1>6. QED
  BY <1>2, <1>4, <1>5

\* The histories there are when a step has no new asks.
LEMMA Held ==
  ASSUME PaneInv, RequestInv, Len(asks') = Len(asks), NEW w \in Windows
  PROVE  /\ Message \subseteq Message'
         /\ Kept(history[w], 1 .. made + 1, Message') /\ Kept(store, 1 .. made + 1, Message')
         /\ made + 1 \in 1 .. made + 1 /\ made + 1 \notin Sessions(history[w])
<1>1. Message \subseteq Message'
  BY SameAsks
<1>2. made \in Nat /\ Kept(history[w], 1 .. made, Message) /\ Kept(store, 1 .. made, Message)
  BY DEF PaneInv, Fits
<1>3. 1 .. made \subseteq 1 .. made + 1 /\ made + 1 \in 1 .. made + 1 /\ made + 1 \notin 1 .. made
  BY <1>2
<1>4. Sessions(history[w]) \subseteq 1 .. made /\ Sessions(store) \subseteq 1 .. made
  BY <1>2, SessionsFrom
<1>5. Sessions(history[w]) \subseteq 1 .. made + 1 /\ Sessions(store) \subseteq 1 .. made + 1
  BY <1>3, <1>4
<1>6. Kept(history[w], 1 .. made + 1, Message') /\ Kept(store, 1 .. made + 1, Message')
  BY <1>1, <1>2, <1>5, KeptOf
<1>7. QED
  BY <1>1, <1>3, <1>4, <1>6

\* Creating, opening and removing the conversation on show.
LEMMA ListShows ==
  ASSUME PaneInv, RequestInv, NEW w \in Windows,
         \/ CreateSession(w)
         \/ \E s \in Sessions(history[w]) :
              OpenSession(w, s) \/ RemoveSession(w, s) \/ PinSession(w, s) \/ RenameSession(w, s)
  PROVE  PaneInv'
<1>1. asks' = asks
  BY DEF CreateSession, OpenSession, RemoveSession, PinSession, RenameSession, listVars
<1>2. PICK h : h = history[w]
  OBVIOUS
<1>3. PICK S : S = 1 .. made + 1
  OBVIOUS
<1>4. PICK M : M = Message'
  OBVIOUS
<1>5. /\ Message \subseteq M /\ Kept(h, S, M)
      /\ made + 1 \in S /\ made + 1 \notin Sessions(h)
  BY <1>1, <1>2, <1>3, <1>4, Held
<1>6. IsHistory(h, S, M)
  BY <1>5 DEF Kept
<1>7. ASSUME NEW g, Kept(g, S, M), ShowSession(w, g)
      PROVE  PaneInv'
  BY <1>3, <1>4, <1>5, <1>7, ShownSession
<1>8. ASSUME NEW g, Kept(g, S, M), ActiveMessages(g) = ActiveMessages(h), SetHistory(w, g),
             surface' = surface, context' = context
      PROVE  PaneInv'
  BY <1>2, <1>3, <1>4, <1>5, <1>8, ListSet
<1>9. ASSUME NEW g, g.active = h.active, \A s \in Sessions(g) : g.messages[s] = h.messages[s],
             h.active \in Sessions(g) <=> h.active \in Sessions(h)
      PROVE  ActiveMessages(g) = ActiveMessages(h)
  BY <1>9 DEF ActiveMessages, HasActive
<1>10. CASE CreateSession(w)
  <2>1. PICK g : g = Create(h, made + 1)
    OBVIOUS
  <2>2. Kept(g, S, M)
    BY <1>5, <1>6, <2>1, CreatedHistory
  <2>3. ShowSession(w, g)
    BY <1>2, <1>10, <2>1 DEF CreateSession
  <2>4. QED
    BY <1>7, <2>2, <2>3
<1>11. ASSUME NEW s \in Sessions(h), OpenSession(w, s)
       PROVE  PaneInv'
  <2>1. PICK g : g = Open(h, s)
    OBVIOUS
  <2>2. Kept(g, S, M)
    BY <1>5, <2>1, OpenedKept
  <2>3. ShowSession(w, g)
    BY <1>2, <1>11, <2>1 DEF OpenSession
  <2>4. QED
    BY <1>7, <2>2, <2>3
<1>12. ASSUME NEW s \in Sessions(h), RemoveSession(w, s)
       PROVE  PaneInv'
  <2>1. PICK g : g = Discard(h, s)
    OBVIOUS
  <2>2. /\ Kept(g, S, M) /\ Sessions(g) = Sessions(h) \ {s}
        /\ \A t \in Sessions(g) : g.messages[t] = h.messages[t]
        /\ s # h.active => g.active = h.active
    BY <1>5, <2>1, DiscardedHistory
  <2>3. CASE s = h.active
    <3>1. ShowSession(w, g)
      BY <1>2, <1>12, <2>1, <2>3 DEF RemoveSession
    <3>2. QED
      BY <1>7, <2>2, <3>1
  <2>4. CASE s # h.active
    <3>1. SetHistory(w, g) /\ surface' = surface /\ context' = context
      BY <1>2, <1>12, <2>1, <2>4 DEF RemoveSession
    <3>2. ActiveMessages(g) = ActiveMessages(h)
      BY <1>9, <2>2, <2>4
    <3>3. QED
      BY <1>8, <2>2, <3>1, <3>2
  <2>5. QED
    BY <2>3, <2>4
<1>13. ASSUME NEW s \in Sessions(h), PinSession(w, s)
       PROVE  PaneInv'
  <2>1. PICK g : g = TogglePin(h, s)
    OBVIOUS
  <2>2. Kept(g, S, M) /\ g.active = h.active /\ Sessions(g) = Sessions(h) /\ g.messages = h.messages
    BY <1>5, <2>1, PinnedHistory
  <2>3. ActiveMessages(g) = ActiveMessages(h)
    BY <1>9, <2>2
  <2>4. SetHistory(w, g) /\ surface' = surface /\ context' = context
    BY <1>2, <1>13, <2>1 DEF PinSession
  <2>5. QED
    BY <1>8, <2>2, <2>3, <2>4
<1>14. ASSUME NEW s \in Sessions(h), RenameSession(w, s)
       PROVE  PaneInv'
  <2>1. PICK g : g = Rename(h, s)
    OBVIOUS
  <2>2. Kept(g, S, M) /\ g.active = h.active /\ Sessions(g) = Sessions(h) /\ g.messages = h.messages
    BY <1>5, <2>1, RenamedHistory
  <2>3. ActiveMessages(g) = ActiveMessages(h)
    BY <1>9, <2>2
  <2>4. SetHistory(w, g) /\ surface' = surface /\ context' = context
    BY <1>2, <1>14, <2>1 DEF RenameSession
  <2>5. QED
    BY <1>8, <2>2, <2>3, <2>4
<1>15. QED
  BY <1>2, <1>10, <1>11, <1>12, <1>13, <1>14

\* After a reload the window shows the conversation the store names.
LEMMA ReloadShows ==
  ASSUME PaneInv, RequestInv, NEW w \in Windows, Reload(w)
  PROVE  PaneInv'
<1>1. PICK S, C : asks \in Seq(AskOf(S, C))
  BY DEF RequestInv, Shape
<1>2. PICK n \in Nat : n = Len(asks) /\ DOMAIN asks = 1 .. n
  BY <1>1
<1>3. asks' = [a \in 1 .. n |-> IF asks[a].window = w /\ asks[a].pc \in {"reading", "sent"}
                                THEN [asks[a] EXCEPT !.pc = "lost"] ELSE asks[a]]
  BY <1>2 DEF Reload
<1>4. asks' \in [1 .. n -> {asks'[a] : a \in 1 .. n}]
  BY <1>3
<1>5. Len(asks') = Len(asks)
  BY <1>2, <1>4
<1>6. PICK g : g = Load(store)
  OBVIOUS
<1>7. Message \subseteq Message' /\ Kept(store, 1 .. made + 1, Message')
  BY <1>5, Held
<1>8. Kept(g, 1 .. made + 1, Message')
  BY <1>6, <1>7, LoadedHistory
<1>9. ShowSession(w, g)
  BY <1>6 DEF Reload
<1>10. QED
  BY <1>7, <1>8, <1>9, ShownSession

\* Nothing is there at first.
LEMMA PaneInvInit ==
  ASSUME Init
  PROVE  PaneInv
<1>1. PICK h : h = Empty
  OBVIOUS
<1>2. /\ made = 0 /\ store = h /\ history = [w \in Windows |-> h]
      /\ surface = [w \in Windows |-> <<>>] /\ context = [w \in Windows |-> <<>>]
  BY <1>1 DEF Init
<1>3. h = [list |-> <<>>, pinned |-> {}, recent |-> <<>>, messages |-> <<>>, active |-> None]
  BY <1>1 DEF Empty
<1>4. Sessions(h) = {}
  BY <1>3 DEF Sessions, ToSet
<1>5. Kept(h, 1 .. made, Message) /\ ~ HasActive(h)
  <2>1. IsInjective(<<>>) /\ ToSet(<<>>) = {}
    BY DEF IsInjective, ToSet
  <2>2. h.list = <<>> /\ h.recent = <<>> /\ h.pinned = {} /\ h.messages = <<>> /\ h.active = None
    BY <1>3
  <2>3. <<>> \in [{} -> Seq(Message)]
    OBVIOUS
  <2>4. IsHistory(h, 1 .. made, Message)
    <3>1. \E list, pinned, recent, messages, active :
            h = [list |-> list, pinned |-> pinned, recent |-> recent, messages |-> messages, active |-> active]
      BY <1>3
    <3>2. h.list \in Seq(1 .. made) /\ h.recent \in Seq(1 .. made)
      BY <2>2
    <3>3. IsInjective(h.list) /\ IsInjective(h.recent) /\ ToSet(h.recent) = Sessions(h)
      BY <1>4, <2>1, <2>2, Zenon
    <3>4. h.pinned \subseteq Sessions(h) /\ \A s \in Sessions(h) : Len(h.messages[s]) <= MaxMessages
      BY <1>4, <2>2
    <3>5. h.messages \in [Sessions(h) -> Seq(Message)]
      BY <1>4, <2>2, <2>3, Zenon
    <3>6. QED
      BY <3>1, <3>2, <3>3, <3>4, <3>5 DEF IsHistory
  <2>5. Len(h.list) = 0
    BY <2>2
  <2>6. QED
    BY <1>4, <2>2, <2>4, <2>5, HistoryLimits DEF Kept, HasActive
<1>6. ActiveMessages(h) = <<>>
  BY <1>5 DEF ActiveMessages
<1>7. LastN(<<>>, MaxMessages) = <<>>
  BY HistoryLimits DEF LastN
<1>8. IsSuffix(<<>>, Replay(<<>>))
  <2>1. PICK e : e = <<>>
    OBVIOUS
  <2>2. e \in Seq(Message)
    BY <2>1
  <2>3. IsSuffix(e, e)
    BY <2>2, SuffixOfItself
  <2>4. QED
    BY <2>1, <2>3, ReplayFirst
<1>9. Fits(h, <<>>, <<>>, 1 .. made, Message)
  BY <1>5, <1>6, <1>7, <1>8 DEF Fits
<1>10. \A w \in Windows : Fits(history[w], surface[w], context[w], 1 .. made, Message)
  BY <1>2, <1>9
<1>11. QED
  BY <1>2, <1>5, <1>10 DEF PaneInv

\* Every step keeps what is shown, recorded and given to the agent together.
LEMMA PaneInvStep ==
  ASSUME PaneInv, RequestInv, [Next]_vars
  PROVE  PaneInv'
<1>1. ASSUME UNCHANGED <<history, store, surface, context, made>>, Len(asks') = Len(asks)
      PROVE  PaneInv'
  BY <1>1, NothingShown
<1>2. CASE User
  <2>1. PICK w \in Windows :
          \/ \E long \in BOOLEAN : SendMessage(w, long)
          \/ CreateSession(w)
          \/ \E s \in Sessions(history[w]) :
               OpenSession(w, s) \/ RemoveSession(w, s) \/ PinSession(w, s) \/ RenameSession(w, s)
          \/ Reload(w)
          \/ \E f \in PathFiles \cup InlineFiles : AttachFile(w, f) \/ DropFile(w, f) \/ DetachFile(w, f)
    BY <1>2 DEF User
  <2>2. CASE \E long \in BOOLEAN : SendMessage(w, long)
    BY <2>2, SendMessageShows
  <2>3. CASE \/ CreateSession(w)
             \/ \E s \in Sessions(history[w]) :
                  OpenSession(w, s) \/ RemoveSession(w, s) \/ PinSession(w, s) \/ RenameSession(w, s)
    BY <2>3, ListShows
  <2>4. CASE Reload(w)
    BY <2>4, ReloadShows
  <2>5. CASE \E f \in PathFiles \cup InlineFiles : AttachFile(w, f) \/ DropFile(w, f) \/ DetachFile(w, f)
    BY <1>1, <2>5 DEF AttachFile, DropFile, DetachFile, paneVars
  <2>6. QED
    BY <2>1, <2>2, <2>3, <2>4, <2>5
<1>3. CASE Pane
  <2>1. CASE \E a \in DOMAIN asks : AttachmentsRead(a)
    BY <2>1, AttachmentsReadShows
  <2>2. CASE \E w \in Windows : HandleQwenEvent(w)
    BY <2>2, HandleQwenEventShows
  <2>3. CASE \E w \in Windows : HandleAnswer(w)
    BY <2>3, HandleAnswerShows
  <2>4. CASE \E w \in Windows : \E f \in InlineFiles : FileRead(w, f)
    BY <1>1, <2>4 DEF FileRead, paneVars
  <2>5. QED
    BY <1>3, <2>1, <2>2, <2>3, <2>4 DEF Pane
<1>4. CASE Agent
  <2>1. CASE \E a \in DOMAIN asks : \E kind \in Events : Emit(a, kind)
    BY <1>1, <2>1 DEF Emit
  <2>2. ASSUME NEW a \in DOMAIN asks, NEW exit \in Exits, AgentExits(a, exit)
        PROVE  PaneInv'
    <3>1. \E r : asks' = [asks EXCEPT ![a] = r]
      BY <2>2 DEF AgentExits
    <3>2. Len(asks') = Len(asks)
      BY <3>1, AsksInPlace
    <3>3. QED
      BY <1>1, <2>2, <3>2 DEF AgentExits
  <2>3. QED
    BY <1>4, <2>1, <2>2 DEF Agent, AgentEnds
<1>5. CASE UNCHANGED vars
  BY <1>1, <1>5 DEF vars
<1>6. QED
  BY <1>2, <1>3, <1>4, <1>5 DEF Next

\* They stay together throughout.
LEMMA PaneInvAlways == Spec => []PaneInv
<1>1. Init => PaneInv
  BY PaneInvInit
<1>2. PaneInv /\ RequestInv /\ [Next]_vars => PaneInv'
  BY PaneInvStep
<1>3. QED
  BY <1>1, <1>2, RequestInvAlways, PTL DEF Spec

\* What a window shows is what it has recorded (a message is rendered and
\* then goes through appendHistoryMessage of chatViewPane.ts), whatever is
\* sent, answered, opened, removed and reloaded, in any number of windows.
THEOREM ShownAlwaysRecorded == Spec => []ShownIsRecorded
<1>1. PaneInv => ShownIsRecorded
  <2>1. SUFFICES ASSUME PaneInv, NEW w \in Windows
                 PROVE  /\ ActiveMessages(history[w]) = LastN(surface[w], MaxMessages)
                        /\ history[w].active = None <=> history[w].list = <<>>
    BY DEF ShownIsRecorded
  <2>2. PICK h : h = history[w]
    OBVIOUS
  <2>3. /\ Kept(h, 1 .. made, Message) /\ made \in Nat
        /\ ActiveMessages(h) = LastN(surface[w], MaxMessages)
    BY <2>1, <2>2 DEF PaneInv, Fits
  <2>4. ASSUME HasActive(h)
        PROVE  h.active # None /\ h.list # <<>>
    <3>1. h.active \in Sessions(h)
      BY <2>4 DEF HasActive
    <3>2. h.active \in 1 .. made
      BY <2>3, <3>1, SessionsFrom
    <3>3. h.list # <<>>
      BY <3>1 DEF Sessions, ToSet
    <3>4. QED
      BY <2>3, <3>2, <3>3, NoneIsNoSession
  <2>5. HasActive(h) \/ (h.active = None /\ h.list = <<>>)
    BY <2>3 DEF Kept
  <2>6. QED
    BY <2>2, <2>3, <2>4, <2>5
<1>2. QED
  BY <1>1, PaneInvAlways, PTL

\* What the agent is given is the end of the conversation on show
\* (contextSegments, which is cut, rebuilt and carried over beside it).
THEOREM ContextAlwaysTail == Spec => []ContextIsTail
<1>1. PaneInv => ContextIsTail
  BY DEF PaneInv, Fits, ContextIsTail
<1>2. QED
  BY <1>1, PaneInvAlways, PTL

-----------------------------------------------------------------------------
(* Asks *)

\* An ask carries a session there was and messages there were.
AsksInv == \A a \in DOMAIN asks : asks[a].session \in 1 .. made /\ asks[a].context \in Seq(Message)

\* What an ask says of its conversation is said when it is sent.
Settled(i) ==
  /\ i \in DOMAIN asks'
  /\ asks'[i].window = asks[i].window
  /\ asks'[i].session = asks[i].session /\ asks'[i].context = asks[i].context
  /\ InFlight(asks'[i]) => InFlight(asks[i])

\* Of an ask that changes, only how far it has come does.
LEMMA AskChanged ==
  ASSUME RequestInv, NEW a \in DOMAIN asks, NEW r, asks' = [asks EXCEPT ![a] = r],
         r.window = asks[a].window, r.session = asks[a].session, r.context = asks[a].context,
         InFlight(r) => InFlight(asks[a])
  PROVE  /\ \A i \in DOMAIN asks : Settled(i)
         /\ DOMAIN asks' = DOMAIN asks
<1>1. asks'[a] = r /\ DOMAIN asks' = DOMAIN asks /\ \A i \in DOMAIN asks : i # a => asks'[i] = asks[i]
  OBVIOUS
<1>2. QED
  BY <1>1 DEF Settled

\* A message that is sent is a new ask, of the session on show or of the one
\* about to be created.
LEMMA SendMessageAsks ==
  ASSUME RequestInv, NEW w \in Windows, NEW long \in BOOLEAN, SendMessage(w, long)
  PROVE  /\ \A i \in DOMAIN asks : Settled(i)
         /\ Len(asks) \in Nat /\ Len(asks') = Len(asks) + 1
         /\ \A i \in DOMAIN asks' : i \in DOMAIN asks \/ i = Len(asks) + 1
         /\ LET ask == asks'[Len(asks) + 1]
            IN  /\ ask.window = w /\ (w \in DOMAIN context => ask.context = context'[w])
                /\ ask.session = Target(history[w], made + 1)
<1>1. PICK a : a = Len(asks) + 1
  OBVIOUS
<1>2. PICK m : m = [ask |-> a, kind |-> "user"]
  OBVIOUS
<1>3. PICK c : c = Compacted(Append(context[w], m), long)
  OBVIOUS
<1>4. PICK s : s = IF HasActive(history[w]) THEN history[w].active ELSE made + 1
  OBVIOUS
<1>5. PICK ask : ask = [window |-> w, pc |-> "reading", attempt |-> 0, agent |-> "none", shown |-> FALSE,
                        session |-> s, context |-> c]
  OBVIOUS
<1>6. PICK after : after = Append(asks, ask)
  OBVIOUS
<1>7. /\ context' = [context EXCEPT ![w] = c]
      /\ Submit(w, a, after, <<m>>, 1) \/ asks' = after
  BY <1>1, <1>2, <1>3, <1>4, <1>5, <1>6 DEF SendMessage
<1>8. PICK S, C : asks \in Seq(AskOf(S, C))
  BY DEF RequestInv, Shape
<1>9. PICK R : R = S \cup {s}
  OBVIOUS
<1>10. PICK D : D = C \cup {c}
  OBVIOUS
<1>11. S \subseteq R /\ C \subseteq D /\ ask \in AskOf(R, D)
  BY <1>5, <1>9, <1>10, LimitsAreNumbers DEF AskOf, PCs
<1>12. /\ after \in Seq(AskOf(R, D)) /\ a \in DOMAIN after /\ after[a] = ask
       /\ \A i \in DOMAIN asks : i \in DOMAIN after /\ i # a /\ after[i] = asks[i]
       /\ \A i \in DOMAIN after : i \in DOMAIN asks \/ i = a
  BY <1>1, <1>6, <1>8, <1>11, NewAsk
<1>13. Len(asks) \in Nat /\ Len(after) = a
  BY <1>1, <1>6, <1>8
<1>14. /\ Len(asks') = a /\ DOMAIN asks' = DOMAIN after
       /\ \A i \in DOMAIN after : i # a => asks'[i] = after[i]
       /\ asks'[a].window = w /\ asks'[a].session = s /\ asks'[a].context = c
  <2>1. ask.window = w /\ ask.session = s /\ ask.context = c
    BY <1>5
  <2>2. CASE Submit(w, a, after, <<m>>, 1)
    <3>1. processing \in [Windows -> BOOLEAN]
      BY DEF RequestInv, Shape
    <3>2. /\ asks' \in Seq(AskOf(R, D)) /\ Len(asks') = Len(after)
          /\ \A i \in DOMAIN after : i # a => asks'[i] = after[i]
          /\ asks'[a].window = after[a].window
          /\ asks'[a].session = after[a].session /\ asks'[a].context = after[a].context
      BY <1>12, <2>2, <3>1, SubmitFacts
    <3>3. DOMAIN asks' = DOMAIN after
      BY <1>12, <3>2
    <3>4. QED
      BY <1>12, <1>13, <2>1, <3>2, <3>3
  <2>3. CASE asks' = after
    BY <1>12, <1>13, <2>1, <2>3
  <2>4. QED
    BY <1>7, <2>2, <2>3
<1>15. \A i \in DOMAIN asks : Settled(i)
  BY <1>12, <1>14 DEF Settled
<1>16. s = Target(history[w], made + 1)
  BY <1>4 DEF Target
<1>17. w \in DOMAIN context => context'[w] = c
  BY <1>7
<1>18. QED
  BY <1>1, <1>12, <1>13, <1>14, <1>15, <1>16, <1>17

\* What arrives leaves the number of asks and their conversations alone.
LEMMA PaneAsks ==
  ASSUME RequestInv, Pane
  PROVE  (\A i \in DOMAIN asks : Settled(i)) /\ DOMAIN asks' = DOMAIN asks
<1>1. PICK S, C : asks \in Seq(AskOf(S, C))
  BY DEF RequestInv, Shape
<1>2. \A a \in DOMAIN asks : asks[a] \in AskOf(S, C)
  BY <1>1, AskFacts
<1>3. ASSUME asks' = asks
      PROVE  (\A i \in DOMAIN asks : Settled(i)) /\ DOMAIN asks' = DOMAIN asks
  BY <1>3 DEF Settled
<1>4. ASSUME NEW a \in DOMAIN asks, AttachmentsRead(a)
      PROVE  (\A i \in DOMAIN asks : Settled(i)) /\ DOMAIN asks' = DOMAIN asks
  <2>1. processing \in [Windows -> BOOLEAN]
    BY DEF RequestInv, Shape
  <2>2. PICK w : w = asks[a].window
    OBVIOUS
  <2>3. w \in Windows
    BY <1>1, <2>2, AskFacts
  <2>4. Submit(w, a, asks, <<>>, 0)
    BY <1>4, <2>2 DEF AttachmentsRead
  <2>5. /\ asks' \in Seq(AskOf(S, C)) /\ Len(asks') = Len(asks)
        /\ \A i \in DOMAIN asks : i # a => asks'[i] = asks[i]
        /\ asks'[a].window = asks[a].window
        /\ asks'[a].session = asks[a].session /\ asks'[a].context = asks[a].context
    BY <1>1, <2>1, <2>3, <2>4, SubmitFacts
  <2>6. DOMAIN asks' = DOMAIN asks
    BY <1>1, <2>5
  <2>7. QED
    BY <1>4, <2>5, <2>6 DEF Settled, AttachmentsRead, InFlight
<1>5. ASSUME NEW w \in Windows, NEW a, a = Head(down[w]).ask, down[w] # <<>>, NEW r, asks' = [asks EXCEPT ![a] = r],
             a \in DOMAIN asks => /\ r.window = asks[a].window
                                  /\ r.session = asks[a].session /\ r.context = asks[a].context
                                  /\ InFlight(r) => InFlight(asks[a])
      PROVE  (\A i \in DOMAIN asks : Settled(i)) /\ DOMAIN asks' = DOMAIN asks
  <2>1. PICK q : q = down[w]
    OBVIOUS
  <2>2. q \in Seq([ask : Nat, kind : Events \cup Exits]) /\ q # <<>>
    BY <1>5, <2>1 DEF RequestInv, Shape
  <2>3. 1 \in DOMAIN q /\ Head(q) = q[1]
    BY <2>2
  <2>4. a \in DOMAIN asks
    BY <1>5, <2>1, <2>3 DEF RequestInv, Shape
  <2>5. QED
    BY <1>5, <2>4, AskChanged
<1>6. ASSUME NEW w \in Windows, HandleQwenEvent(w)
      PROVE  (\A i \in DOMAIN asks : Settled(i)) /\ DOMAIN asks' = DOMAIN asks
  <2>1. PICK a : a = Head(down[w]).ask
    OBVIOUS
  <2>2. PICK r : r = [asks[a] EXCEPT !.shown = TRUE]
    OBVIOUS
  <2>3. down[w] # <<>> /\ asks' = [asks EXCEPT ![a] = r]
    BY <1>6, <2>1, <2>2 DEF HandleQwenEvent
  <2>4. a \in DOMAIN asks => /\ r.window = asks[a].window
                             /\ r.session = asks[a].session /\ r.context = asks[a].context
                             /\ InFlight(r) => InFlight(asks[a])
    BY <1>2, <2>2 DEF AskOf, InFlight
  <2>5. QED
    BY <1>5, <2>1, <2>3, <2>4
<1>7. ASSUME NEW w \in Windows, HandleAnswer(w)
      PROVE  (\A i \in DOMAIN asks : Settled(i)) /\ DOMAIN asks' = DOMAIN asks
  <2>1. PICK a : a = Head(down[w]).ask
    OBVIOUS
  <2>2. down[w] # <<>> /\ (Answered(w, a) \/ Retry(w, a) \/ Failed(w, a))
    BY <1>7, <2>1 DEF HandleAnswer
  <2>3. PICK r : /\ asks' = [asks EXCEPT ![a] = r]
                 /\ \/ r = [asks[a] EXCEPT !.pc = "answered"] \/ r = [asks[a] EXCEPT !.pc = "failed"]
                    \/ r = [asks[a] EXCEPT !.attempt = @ + 1, !.agent = "running"]
    BY <2>2 DEF Answered, Retry, Failed
  <2>4. a \in DOMAIN asks => /\ r.window = asks[a].window
                             /\ r.session = asks[a].session /\ r.context = asks[a].context
                             /\ InFlight(r) => InFlight(asks[a])
    BY <1>2, <2>3 DEF AskOf, InFlight
  <2>5. QED
    BY <1>5, <2>1, <2>2, <2>3, <2>4
<1>8. QED
  BY <1>3, <1>4, <1>6, <1>7 DEF Pane, FileRead, paneVars

\* Every other step leaves the number of asks and their conversations alone.
LEMMA AsksStay ==
  ASSUME RequestInv, [Next]_vars, ~ \E w \in Windows : \E long \in BOOLEAN : SendMessage(w, long)
  PROVE  (\A i \in DOMAIN asks : Settled(i)) /\ DOMAIN asks' = DOMAIN asks
<1>1. PICK S, C : asks \in Seq(AskOf(S, C))
  BY DEF RequestInv, Shape
<1>2. \A a \in DOMAIN asks : asks[a] \in AskOf(S, C)
  BY <1>1, AskFacts
<1>3. ASSUME asks' = asks
      PROVE  (\A i \in DOMAIN asks : Settled(i)) /\ DOMAIN asks' = DOMAIN asks
  BY <1>3 DEF Settled
<1>4. ASSUME NEW w \in Windows, Reload(w)
      PROVE  (\A i \in DOMAIN asks : Settled(i)) /\ DOMAIN asks' = DOMAIN asks
  <2>1. DOMAIN asks' = DOMAIN asks
    BY <1>4 DEF Reload
  <2>2. ASSUME NEW i \in DOMAIN asks
        PROVE  Settled(i)
    <3>1. PICK r : r = [asks[i] EXCEPT !.pc = "lost"]
      OBVIOUS
    <3>2. asks'[i] = asks[i] \/ asks'[i] = r
      BY <1>4, <3>1 DEF Reload
    <3>3. /\ r.window = asks[i].window /\ r.session = asks[i].session /\ r.context = asks[i].context
          /\ InFlight(r) => InFlight(asks[i])
      BY <1>2, <3>1 DEF AskOf, InFlight
    <3>4. QED
      BY <2>1, <3>2, <3>3 DEF Settled
  <2>3. QED
    BY <2>1, <2>2
<1>5. CASE User
  BY <1>3, <1>4, <1>5 DEF User, CreateSession, OpenSession, RemoveSession, PinSession, RenameSession, listVars,
                          AttachFile, DropFile, DetachFile, paneVars
<1>6. CASE Pane
  BY <1>6, PaneAsks
<1>7. ASSUME NEW a \in DOMAIN asks, NEW exit \in Exits, AgentExits(a, exit)
       PROVE  (\A i \in DOMAIN asks : Settled(i)) /\ DOMAIN asks' = DOMAIN asks
  <2>1. PICK r : r = [asks[a] EXCEPT !.agent = "ended"]
    OBVIOUS
  <2>2. asks' = [asks EXCEPT ![a] = r]
    BY <1>7, <2>1 DEF AgentExits
  <2>3. /\ r.window = asks[a].window /\ r.session = asks[a].session /\ r.context = asks[a].context
        /\ InFlight(r) => InFlight(asks[a])
    BY <1>2, <2>1 DEF AskOf, InFlight
  <2>4. QED
    BY <2>2, <2>3, AskChanged
<1>8. CASE Agent
  BY <1>3, <1>7, <1>8 DEF Agent, AgentEnds, Emit
<1>9. CASE UNCHANGED vars
  BY <1>3, <1>9 DEF vars
<1>10. QED
  BY <1>5, <1>6, <1>8, <1>9 DEF Next

\* Sessions of g that are not new were in h, with what they have, but for the
\* limit.
Continues(g, h) ==
  \A s \in Sessions(g) : s <= made => s \in Sessions(h) /\ Grown(g.messages[s], h.messages[s])

\* Recording continues a history.
LEMMA RecordedContinues ==
  ASSUME PaneInv, NEW w \in Windows, NEW g, NEW ms, NEW S, NEW M, Recorded(g, history[w], made + 1, ms, S, M)
  PROVE  Continues(g, history[w])
<1>1. PICK h : h = history[w]
  OBVIOUS
<1>2. made \in Nat /\ Sessions(h) \subseteq 1 .. made
  BY <1>1, SessionsFrom DEF PaneInv, Fits
<1>3. /\ Sessions(g) \subseteq Sessions(h) \cup {Target(h, made + 1)}
      /\ \A t \in Sessions(g) \cap Sessions(h) : Grown(g.messages[t], h.messages[t])
  BY <1>1 DEF Recorded
<1>4. Target(h, made + 1) \in Sessions(h) \/ Target(h, made + 1) = made + 1
  BY DEF Target, HasActive
<1>5. ASSUME NEW s \in Sessions(g), s <= made
      PROVE  s \in Sessions(h)
  BY <1>2, <1>3, <1>4, <1>5
<1>6. QED
  BY <1>1, <1>3, <1>5 DEF Continues

\* One message, or it and another.
LEMMA OneOrTwo ==
  ASSUME NEW M, NEW m \in M, NEW e \in M, NEW ms, ms = <<m>> \/ ms = Append(<<m>>, e)
  PROVE  ms \in Seq(M) /\ Len(ms) <= 2 /\ ms # <<>>
<1>1. CASE ms = <<m>>
  BY <1>1
<1>2. CASE ms = Append(<<m>>, e)
  BY <1>2
<1>3. QED
  BY <1>1, <1>2

\* A message that is sent is recorded in the session its ask names.
LEMMA SendMessageRecords ==
  ASSUME PaneInv, RequestInv, NEW w \in Windows, NEW long \in BOOLEAN, SendMessage(w, long),
         NEW g, g = history'[w]
  PROVE  /\ HasActive(g) /\ g.active = Target(history[w], made + 1) /\ g.active \in 1 .. made'
         /\ Continues(g, history[w]) /\ history' = [history EXCEPT ![w] = g]
<1>1. PICK a : a = Len(asks) + 1
  OBVIOUS
<1>2. PICK m : m = [ask |-> a, kind |-> "user"]
  OBVIOUS
<1>3. PICK e : e = [ask |-> a, kind |-> "error"]
  OBVIOUS
<1>4. a \in Nat /\ Len(asks') = a /\ Len(asks) \in Nat /\ Len(asks) <= a
  BY <1>1, SendMessageAsks
<1>5. Message \subseteq Message' /\ a \in 1 .. Len(asks')
  BY <1>1, <1>4, MoreAsks
<1>6. m \in Message' /\ e \in Message'
  BY <1>2, <1>3, <1>5 DEF Message
<1>7. Show(w, <<m>>) \/ Show(w, Append(<<m>>, e))
  BY <1>1, <1>2, <1>3 DEF SendMessage, Submit
<1>8. PICK ms : Show(w, ms) /\ (ms = <<m>> \/ ms = Append(<<m>>, e))
  BY <1>7
<1>9. ms \in Seq(Message') /\ Len(ms) <= 2 /\ ms # <<>>
  BY <1>6, <1>8, OneOrTwo
<1>10. /\ Recorded(g, history[w], made + 1, ms, 1 .. made + 1, Message')
       /\ Kept(g, 1 .. made', Message') /\ history' = [history EXCEPT ![w] = g]
  BY <1>5, <1>8, <1>9, Shown
<1>11. HasActive(g) /\ g.active = Target(history[w], made + 1)
  BY <1>9, <1>10 DEF Recorded
<1>12. g.active \in 1 .. made'
  BY <1>10, <1>11, SessionsFrom DEF HasActive
<1>13. Continues(g, history[w])
  BY <1>10, RecordedContinues
<1>14. QED
  BY <1>10, <1>11, <1>12, <1>13

\* The history of one window is put in place, or none is.
LEMMA HistoryStep ==
  ASSUME RequestInv, [Next]_vars
  PROVE  UNCHANGED <<history, store, made>> \/ \E w \in Windows : \E h : SetHistory(w, h)
<1>1. CASE User
  <2>1. PICK w \in Windows :
          \/ \E long \in BOOLEAN : SendMessage(w, long)
          \/ CreateSession(w)
          \/ \E s \in Sessions(history[w]) :
               OpenSession(w, s) \/ RemoveSession(w, s) \/ PinSession(w, s) \/ RenameSession(w, s)
          \/ Reload(w)
          \/ \E f \in PathFiles \cup InlineFiles : AttachFile(w, f) \/ DropFile(w, f) \/ DetachFile(w, f)
    BY <1>1 DEF User
  <2>2. CASE \E long \in BOOLEAN : SendMessage(w, long)
    <3>1. \E ms : Show(w, ms)
      BY <2>2 DEF SendMessage, Submit
    <3>2. QED
      BY <3>1 DEF Show
  <2>3. CASE CreateSession(w) \/ Reload(w)
    BY <2>3 DEF CreateSession, Reload, ShowSession
  <2>4. CASE \E s \in Sessions(history[w]) :
               OpenSession(w, s) \/ RemoveSession(w, s) \/ PinSession(w, s) \/ RenameSession(w, s)
    BY <2>4 DEF OpenSession, RemoveSession, PinSession, RenameSession, ShowSession
  <2>5. CASE \E f \in PathFiles \cup InlineFiles : AttachFile(w, f) \/ DropFile(w, f) \/ DetachFile(w, f)
    BY <2>5 DEF AttachFile, DropFile, DetachFile, paneVars
  <2>6. QED
    BY <2>1, <2>2, <2>3, <2>4, <2>5
<1>2. CASE Pane
  <2>1. ASSUME NEW a \in DOMAIN asks, AttachmentsRead(a)
        PROVE  UNCHANGED <<history, store, made>> \/ \E w \in Windows : \E h : SetHistory(w, h)
    <3>1. asks[a].window \in Windows
      BY AskFacts DEF RequestInv, Shape
    <3>2. \E ms : Show(asks[a].window, ms)
      BY <2>1 DEF AttachmentsRead, Submit
    <3>3. QED
      BY <3>1, <3>2 DEF Show
  <2>2. ASSUME NEW w \in Windows, HandleQwenEvent(w)
        PROVE  UNCHANGED <<history, store, made>> \/ \E h : SetHistory(w, h)
    BY <2>2 DEF HandleQwenEvent, Show
  <2>3. ASSUME NEW w \in Windows, HandleAnswer(w)
        PROVE  UNCHANGED <<history, store, made>> \/ \E h : SetHistory(w, h)
    BY <2>3 DEF HandleAnswer, Answered, Retry, Failed, Show
  <2>4. CASE \E w \in Windows : \E f \in InlineFiles : FileRead(w, f)
    BY <2>4 DEF FileRead, paneVars
  <2>5. QED
    BY <1>2, <2>1, <2>2, <2>3, <2>4 DEF Pane
<1>3. CASE Agent
  BY <1>3 DEF Agent, AgentEnds, Emit, AgentExits
<1>4. CASE UNCHANGED vars
  BY <1>4 DEF vars
<1>5. QED
  BY <1>1, <1>2, <1>3, <1>4 DEF Next

\* Every step keeps what asks carry among what there is.
LEMMA AsksInvStep ==
  ASSUME PaneInv, PaneInv', RequestInv, AsksInv, [Next]_vars
  PROVE  AsksInv'
<1>1. made \in Nat /\ made' \in Nat
  BY DEF PaneInv
<1>2. ASSUME Message \subseteq Message', made <= made', NEW i \in DOMAIN asks, Settled(i)
      PROVE  asks'[i].session \in 1 .. made' /\ asks'[i].context \in Seq(Message')
  <2>1. asks[i].session \in 1 .. made /\ asks[i].context \in Seq(Message)
    BY DEF AsksInv
  <2>2. PICK c : c = asks[i].context
    OBVIOUS
  <2>3. c \in Seq(Message')
    BY <1>2, <2>1, <2>2, SeqMonotonic
  <2>4. asks[i].session \in 1 .. made'
    BY <1>1, <1>2, <2>1
  <2>5. QED
    BY <1>2, <2>2, <2>3, <2>4 DEF Settled
<1>3. made' = made \/ made' = made + 1
  BY HistoryStep DEF SetHistory
<1>4. made <= made'
  BY <1>1, <1>3
<1>5. ASSUME NEW w \in Windows, NEW long \in BOOLEAN, SendMessage(w, long)
      PROVE  AsksInv'
  <2>1. PICK a : a = Len(asks) + 1
    OBVIOUS
  <2>2. /\ \A i \in DOMAIN asks : Settled(i)
        /\ Len(asks) \in Nat /\ Len(asks') = a
        /\ \A i \in DOMAIN asks' : i \in DOMAIN asks \/ i = a
        /\ w \in DOMAIN context => asks'[a].context = context'[w]
        /\ asks'[a].session = Target(history[w], made + 1)
    BY <1>5, <2>1, SendMessageAsks
  <2>3. Message \subseteq Message'
    BY <2>1, <2>2, MoreAsks
  <2>4. Target(history[w], made + 1) \in 1 .. made'
    BY <1>5, SendMessageRecords
  <2>5. context'[w] \in Seq(Message') /\ w \in DOMAIN context
    BY DEF PaneInv, Fits
  <2>6. QED
    BY <1>2, <1>4, <2>2, <2>3, <2>4, <2>5 DEF AsksInv
<1>6. CASE ~ \E w \in Windows : \E long \in BOOLEAN : SendMessage(w, long)
  <2>1. (\A i \in DOMAIN asks : Settled(i)) /\ DOMAIN asks' = DOMAIN asks
    BY <1>6, AsksStay
  <2>2. Message \subseteq Message'
    <3>1. PICK S, C : asks \in Seq(AskOf(S, C))
      BY DEF RequestInv, Shape
    <3>2. Len(asks) \in Nat /\ DOMAIN asks = 1 .. Len(asks)
      BY <3>1
    <3>3. QED
      BY <2>1, <3>2 DEF Message
  <2>3. QED
    BY <1>2, <1>4, <2>1, <2>2 DEF AsksInv
<1>7. QED
  BY <1>5, <1>6

\* It holds throughout.
LEMMA AsksInvAlways == Spec => []AsksInv
<1>1. Init => AsksInv
  <2>1. SUFFICES ASSUME Init PROVE AsksInv
    OBVIOUS
  <2>2. asks = <<>>
    BY <2>1 DEF Init
  <2>3. DOMAIN asks = {}
    BY <2>2
  <2>4. QED
    BY <2>3 DEF AsksInv
<1>2. PaneInv /\ PaneInv' /\ RequestInv /\ AsksInv /\ [Next]_vars => AsksInv'
  BY AsksInvStep
<1>3. QED
  BY <1>1, <1>2, PaneInvAlways, RequestInvAlways, PTL DEF Spec

-----------------------------------------------------------------------------
(* Types *)

\* A history is of the type the pane says it is.
LEMMA HistoryType ==
  ASSUME made \in Nat, NEW h, Kept(h, 1 .. made, Message)
  PROVE  HistoryOK(h)
<1>1. IsHistory(h, 1 .. made, Message) /\ Len(h.list) <= MaxSessions
  BY DEF Kept
<1>2. Cardinality(Sessions(h)) = Len(h.list)
  BY <1>1, DistinctLength DEF IsHistory, Sessions
<1>3. ToSet(h.recent) = Sessions(h) /\ Len(h.recent) = Len(h.list)
  <2>1. ToSet(h.recent) = Sessions(h)
    BY <1>1 DEF IsHistory
  <2>2. Cardinality(ToSet(h.recent)) = Len(h.recent)
    BY <1>1, DistinctLength DEF IsHistory
  <2>3. QED
    BY <1>2, <2>1, <2>2
<1>4. Sessions(h) \subseteq 1 .. made
  BY SessionsFrom
<1>5. /\ h.pinned \subseteq Sessions(h) /\ DOMAIN h.messages = Sessions(h)
      /\ \A s \in Sessions(h) : h.messages[s] \in Seq(Message) /\ Len(h.messages[s]) <= MaxMessages
  BY <1>1 DEF IsHistory
<1>6. QED
  BY <1>1, <1>2, <1>3, <1>4, <1>5 DEF HistoryOK

\* A sequence whose elements are in R.
LEMMA ElementsIn ==
  ASSUME NEW Q, NEW R, NEW q \in Seq(Q), \A i \in DOMAIN q : q[i] \in R
  PROVE  q \in Seq(R)
<1>1. PICK k \in Nat : k = Len(q) /\ DOMAIN q = 1 .. k
  OBVIOUS
<1>2. q \in [1 .. k -> R]
  BY <1>1
<1>3. QED
  BY <1>2

\* Every variable of the chat has its type, for any windows, files and
\* limits, and histories their form: no session twice in the list, the same
\* sessions by time, no messages of sessions that are gone.
THEOREM TypeCorrect == Spec => []TypeOK
<1>1. ASSUME PaneInv, RequestInv, AsksInv, AttachInv, RowsInv, ReadingInv
      PROVE  TypeOK
  <2>1. made \in Nat /\ surface \in [Windows -> Seq(Message)] /\ context \in [Windows -> Seq(Message)]
    <3>1. /\ surface = [w \in Windows |-> surface[w]] /\ context = [w \in Windows |-> context[w]]
          /\ \A w \in Windows : surface[w] \in Seq(Message) /\ context[w] \in Seq(Message)
      BY <1>1 DEF PaneInv, Fits
    <3>2. QED
      BY <1>1, <3>1 DEF PaneInv
  <2>2. (\A w \in Windows : HistoryOK(history[w])) /\ HistoryOK(store)
    BY <1>1, HistoryType DEF PaneInv, Fits
  <2>3. rows \in [Windows -> Nat] /\ attached \in [Windows -> SUBSET (PathFiles \cup InlineFiles)]
    BY <1>1 DEF RowsInv, AttachInv
  <2>4. reading \in [Windows -> SUBSET InlineFiles] /\ processing \in [Windows -> BOOLEAN]
    BY <1>1 DEF ReadingInv, RequestInv, Shape
  <2>5. PICK S, C : asks \in Seq(AskOf(S, C))
    BY <1>1 DEF RequestInv, Shape
  <2>6. PICK n \in Nat : n = Len(asks) /\ DOMAIN asks = 1 .. n
    BY <2>5
  <2>7. asks \in Seq(Ask)
    <3>1. ASSUME NEW a \in 1 .. n
          PROVE  asks[a] \in Ask
      <4>1. asks[a] \in AskOf(S, C)
        BY <2>5, <2>6, AskFacts
      <4>2. asks[a].session \in 1 .. made /\ asks[a].context \in Seq(Message)
        BY <1>1, <2>6 DEF AsksInv
      <4>3. asks[a] \in AskOf(1 .. made, Seq(Message))
        BY <4>1, <4>2 DEF AskOf
      <4>4. QED
        BY <4>3 DEF AskOf, PCs, Ask
    <3>2. asks \in [1 .. n -> Ask]
      BY <2>5, <2>6, <3>1
    <3>3. QED
      BY <3>2
  <2>8. down \in [Windows -> Seq([ask : 1 .. Len(asks), kind : Events \cup Exits])]
    <3>1. PICK K : K = Events \cup Exits
      OBVIOUS
    <3>2. /\ down \in [Windows -> Seq([ask : Nat, kind : K])]
          /\ \A w \in Windows : \A i \in DOMAIN down[w] : down[w][i].ask \in 1 .. n
      BY <1>1, <2>6, <3>1 DEF RequestInv, Shape
    <3>3. ASSUME NEW w \in Windows
          PROVE  down[w] \in Seq([ask : 1 .. n, kind : K])
      <4>1. PICK Q : Q = [ask : Nat, kind : K]
        OBVIOUS
      <4>2. PICK q : q = down[w]
        OBVIOUS
      <4>3. q \in Seq(Q) /\ \A i \in DOMAIN q : q[i].ask \in 1 .. n
        BY <3>2, <4>1, <4>2
      <4>4. \A i \in DOMAIN q : q[i] \in Q
        BY <4>3
      <4>5. \A i \in DOMAIN q : q[i] \in [ask : 1 .. n, kind : K]
        BY <4>1, <4>3, <4>4
      <4>6. q \in Seq([ask : 1 .. n, kind : K])
        BY <4>3, <4>5, ElementsIn
      <4>7. QED
        BY <4>2, <4>6
    <3>4. QED
      BY <2>6, <3>1, <3>2, <3>3
  <2>9. QED
    BY <2>1, <2>2, <2>3, <2>4, <2>7, <2>8 DEF TypeOK
<1>2. QED
  BY <1>1, PaneInvAlways, RequestInvAlways, AsksInvAlways, AttachInvAlways, RowsInvAlways, ReadingInvAlways, PTL

-----------------------------------------------------------------------------
(* Conversations *)

\* Nothing is lost when nothing changes.
LEMMA ContinuesItself ==
  ASSUME NEW h, NEW g, Sessions(g) \subseteq Sessions(h), \A s \in Sessions(g) : g.messages[s] = h.messages[s]
  PROVE  Continues(g, h)
BY DEF Continues, Grown

\* The first event or answer on its way to a window.
LEMMA FirstDown ==
  ASSUME RequestInv, NEW w \in Windows, down[w] # <<>>, NEW m, m = Head(down[w])
  PROVE  m \in [ask : Nat, kind : Events \cup Exits] /\ m.ask \in DOMAIN asks
<1>1. PICK T : T = [ask : Nat, kind : Events \cup Exits]
  OBVIOUS
<1>2. PICK q : q = down[w]
  OBVIOUS
<1>3. q \in Seq(T) /\ q # <<>> /\ m = Head(q)
  BY <1>1, <1>2 DEF RequestInv, Shape
<1>4. m = q[1] /\ m \in T /\ 1 \in DOMAIN q
  BY <1>3
<1>5. m.ask \in DOMAIN asks
  BY <1>2, <1>4 DEF RequestInv, Shape
<1>6. QED
  BY <1>1, <1>4, <1>5

\* A message of an ask there is.
LEMMA MessageOf ==
  ASSUME RequestInv, DOMAIN asks' = DOMAIN asks, NEW a \in DOMAIN asks, NEW kind \in {"user", "assistant", "tool", "error"}
  PROVE  Message \subseteq Message' /\ [ask |-> a, kind |-> kind] \in Message'
<1>1. PICK S, C : asks \in Seq(AskOf(S, C))
  BY DEF RequestInv, Shape
<1>2. Len(asks) \in Nat /\ DOMAIN asks = 1 .. Len(asks)
  BY <1>1
<1>3. Len(asks') = Len(asks)
  BY <1>2
<1>4. QED
  BY <1>2, <1>3 DEF Message

\* One message, or none.
LEMMA NoneOrOne ==
  ASSUME NEW M, NEW e \in M, NEW ms, ms = <<>> \/ ms = <<e>>
  PROVE  ms \in Seq(M) /\ Len(ms) <= 2
<1>1. CASE ms = <<>>
  BY <1>1
<1>2. CASE ms = <<e>>
  BY <1>2
<1>3. QED
  BY <1>1, <1>2

\* A step that shows something shows messages of asks there are.
LEMMA PaneMessages ==
  ASSUME RequestInv, Pane
  PROVE  \/ UNCHANGED <<history, store>>
         \/ \E w \in Windows : \E ms \in Seq(Message') : Message \subseteq Message' /\ Len(ms) <= 2 /\ Show(w, ms)
<1>1. ASSUME NEW w \in Windows, NEW a \in DOMAIN asks, NEW kind \in {"user", "assistant", "tool", "error"},
             DOMAIN asks' = DOMAIN asks, NEW ms, Show(w, ms),
             ms = <<>> \/ ms = <<[ask |-> a, kind |-> kind]>>
      PROVE  ms \in Seq(Message') /\ Message \subseteq Message' /\ Len(ms) <= 2
  <2>1. PICK e : e = [ask |-> a, kind |-> kind]
    OBVIOUS
  <2>2. e \in Message' /\ Message \subseteq Message'
    BY <1>1, <2>1, MessageOf
  <2>3. ms = <<>> \/ ms = <<e>>
    BY <1>1, <2>1
  <2>4. QED
    BY <2>2, <2>3, NoneOrOne
<1>2. ASSUME NEW a \in DOMAIN asks, AttachmentsRead(a), DOMAIN asks' = DOMAIN asks
      PROVE  \E w \in Windows : \E ms \in Seq(Message') : Message \subseteq Message' /\ Len(ms) <= 2 /\ Show(w, ms)
  <2>1. PICK w : w = asks[a].window
    OBVIOUS
  <2>2. w \in Windows
    BY <2>1, AskFacts DEF RequestInv, Shape
  <2>3. PICK ms : Show(w, ms) /\ (ms = <<>> \/ ms = Append(<<>>, [ask |-> a, kind |-> "error"]))
    BY <1>2, <2>1 DEF AttachmentsRead, Submit
  <2>4. ms = <<>> \/ ms = <<[ask |-> a, kind |-> "error"]>>
    BY <2>3
  <2>5. ms \in Seq(Message') /\ Message \subseteq Message' /\ Len(ms) <= 2
    BY <1>1, <1>2, <2>2, <2>3, <2>4
  <2>6. QED
    BY <2>2, <2>3, <2>5
<1>3. ASSUME NEW w \in Windows, HandleQwenEvent(w), DOMAIN asks' = DOMAIN asks
      PROVE  \E ms \in Seq(Message') : Message \subseteq Message' /\ Len(ms) <= 2 /\ Show(w, ms)
  <2>1. PICK m : m = Head(down[w])
    OBVIOUS
  <2>2. PICK ms : ms = IF m.kind = "note" THEN <<>> ELSE <<m>>
    OBVIOUS
  <2>3. down[w] # <<>> /\ m.kind \in Events /\ Show(w, ms)
    BY <1>3, <2>1, <2>2 DEF HandleQwenEvent
  <2>4. m \in [ask : Nat, kind : Events \cup Exits] /\ m.ask \in DOMAIN asks
    BY <2>1, <2>3, FirstDown
  <2>5. m = [ask |-> m.ask, kind |-> m.kind]
    BY <2>4
  <2>6. CASE m.kind = "note"
    <3>1. ms = <<>>
      BY <2>2, <2>6
    <3>2. ms \in Seq(Message') /\ Message \subseteq Message' /\ Len(ms) <= 2
      BY <1>1, <1>3, <2>3, <2>4, <3>1
    <3>3. QED
      BY <2>3, <3>2
  <2>7. CASE m.kind # "note"
    <3>1. PICK kind : kind = m.kind
      OBVIOUS
    <3>2. kind \in {"user", "assistant", "tool", "error"} /\ ms = <<[ask |-> m.ask, kind |-> kind]>>
      BY <2>2, <2>3, <2>5, <2>7, <3>1 DEF Events
    <3>3. ms \in Seq(Message') /\ Message \subseteq Message' /\ Len(ms) <= 2
      BY <1>1, <1>3, <2>3, <2>4, <3>2
    <3>4. QED
      BY <2>3, <3>3
  <2>8. QED
    BY <2>6, <2>7
<1>4. ASSUME NEW w \in Windows, HandleAnswer(w), DOMAIN asks' = DOMAIN asks,
             ~ UNCHANGED <<history, store>>
      PROVE  \E ms \in Seq(Message') : Message \subseteq Message' /\ Len(ms) <= 2 /\ Show(w, ms)
  <2>1. PICK m : m = Head(down[w])
    OBVIOUS
  <2>2. PICK ms : ms = <<[ask |-> m.ask, kind |-> "error"]>>
    OBVIOUS
  <2>3. down[w] # <<>> /\ Show(w, ms)
    BY <1>4, <2>1, <2>2 DEF HandleAnswer, Answered, Retry, Failed
  <2>4. m.ask \in DOMAIN asks
    BY <2>1, <2>3, FirstDown
  <2>5. ms \in Seq(Message') /\ Message \subseteq Message' /\ Len(ms) <= 2
    BY <1>1, <1>4, <2>2, <2>3, <2>4
  <2>6. QED
    BY <2>3, <2>5
<1>5. DOMAIN asks' = DOMAIN asks
  BY PaneAsks
<1>6. CASE \E w \in Windows : \E f \in InlineFiles : FileRead(w, f)
  BY <1>6 DEF FileRead, paneVars
<1>7. QED
  BY <1>2, <1>3, <1>4, <1>5, <1>6 DEF Pane

\* Every step but the reload of a window continues its history, or shortens
\* it.
LEMMA HistoryContinues ==
  ASSUME PaneInv, RequestInv, [Next]_vars, NEW v \in Windows, ~ Reload(v)
  PROVE  Continues(history'[v], history[v])
<1>1. CASE history' = history
  BY <1>1, ContinuesItself
<1>2. ASSUME NEW w \in Windows, NEW g, history' = [history EXCEPT ![w] = g], Continues(g, history[w])
      PROVE  Continues(history'[v], history[v])
  <2>1. CASE v = w
    <3>1. history'[v] = g
      BY <1>2, <2>1 DEF PaneInv
    <3>2. QED
      BY <1>2, <2>1, <3>1
  <2>2. CASE v # w
    <3>1. history'[v] = history[v]
      BY <1>2, <2>2 DEF PaneInv
    <3>2. QED
      BY <3>1, ContinuesItself
  <2>3. QED
    BY <2>1, <2>2
<1>3. ASSUME NEW w \in Windows, NEW ms, Show(w, ms), Message \subseteq Message', ms \in Seq(Message'), Len(ms) <= 2
      PROVE  Continues(history'[v], history[v])
  <2>1. PICK g : g = history'[w]
    OBVIOUS
  <2>2. /\ Recorded(g, history[w], made + 1, ms, 1 .. made + 1, Message')
        /\ history' = [history EXCEPT ![w] = g]
    BY <1>3, <2>1, Shown
  <2>3. Continues(g, history[w])
    BY <2>2, RecordedContinues
  <2>4. QED
    BY <1>2, <2>2, <2>3
<1>4. ASSUME NEW w \in Windows, NEW g, SetHistory(w, g), Sessions(g) \subseteq Sessions(history[w]),
             \A s \in Sessions(g) : g.messages[s] = history[w].messages[s]
      PROVE  Continues(history'[v], history[v])
  <2>1. history' = [history EXCEPT ![w] = g]
    BY <1>4 DEF SetHistory
  <2>2. Continues(g, history[w])
    BY <1>4, ContinuesItself
  <2>3. QED
    BY <1>2, <2>1, <2>2
<1>5. \A w \in Windows : Kept(history[w], 1 .. made, Message)
  BY DEF PaneInv, Fits
<1>6. ASSUME NEW w \in Windows, CreateSession(w)
      PROVE  Continues(history'[v], history[v])
  <2>1. PICK g : g = Create(history[w], made + 1)
    OBVIOUS
  <2>2. PICK h : h = history[w]
    OBVIOUS
  <2>3. SetHistory(w, g) /\ asks' = asks
    BY <1>6, <2>1 DEF CreateSession, ShowSession, listVars
  <2>4. made \in Nat /\ Kept(h, 1 .. made + 1, Message') /\ made + 1 \in 1 .. made + 1 /\ made + 1 \notin Sessions(h)
    BY <2>2, <2>3, Held DEF PaneInv
  <2>5. IsHistory(h, 1 .. made + 1, Message')
    BY <2>4 DEF Kept
  <2>6. /\ Sessions(g) \subseteq Sessions(h) \cup {made + 1}
        /\ \A t \in Sessions(g) : t # made + 1 => g.messages[t] = h.messages[t]
    BY <2>1, <2>2, <2>4, <2>5, CreatedHistory
  <2>7. Continues(g, h)
    <3>1. ~ made + 1 <= made
      BY <2>4
    <3>2. QED
      BY <2>6, <3>1 DEF Continues, Grown
  <2>8. history' = [history EXCEPT ![w] = g]
    BY <2>3 DEF SetHistory
  <2>9. QED
    BY <1>2, <2>2, <2>7, <2>8
<1>7. ASSUME NEW w \in Windows, NEW s \in Sessions(history[w]),
             OpenSession(w, s) \/ RemoveSession(w, s) \/ PinSession(w, s) \/ RenameSession(w, s)
      PROVE  Continues(history'[v], history[v])
  <2>1. PICK h : h = history[w]
    OBVIOUS
  <2>2. Kept(h, 1 .. made, Message) /\ s \in Sessions(h)
    BY <1>5, <1>7, <2>1
  <2>3. CASE OpenSession(w, s)
    <3>1. SetHistory(w, Open(h, s))
      BY <2>1, <2>3 DEF OpenSession, ShowSession
    <3>2. Sessions(Open(h, s)) = Sessions(h) /\ Open(h, s).messages = h.messages
      BY <2>2, OpenedKept
    <3>3. QED
      BY <1>4, <2>1, <3>1, <3>2
  <2>4. CASE RemoveSession(w, s)
    <3>1. SetHistory(w, Discard(h, s))
      BY <2>1, <2>4 DEF RemoveSession, ShowSession
    <3>2. /\ Sessions(Discard(h, s)) \subseteq Sessions(h)
          /\ \A t \in Sessions(Discard(h, s)) : Discard(h, s).messages[t] = h.messages[t]
      BY <2>2, DiscardedHistory
    <3>3. QED
      BY <1>4, <2>1, <3>1, <3>2
  <2>5. CASE PinSession(w, s)
    <3>1. SetHistory(w, TogglePin(h, s))
      BY <2>1, <2>5 DEF PinSession
    <3>2. Sessions(TogglePin(h, s)) = Sessions(h) /\ TogglePin(h, s).messages = h.messages
      BY <2>2, PinnedHistory
    <3>3. QED
      BY <1>4, <2>1, <3>1, <3>2
  <2>6. CASE RenameSession(w, s)
    <3>1. SetHistory(w, Rename(h, s))
      BY <2>1, <2>6 DEF RenameSession
    <3>2. Sessions(Rename(h, s)) = Sessions(h) /\ Rename(h, s).messages = h.messages
      BY <2>2, RenamedHistory
    <3>3. QED
      BY <1>4, <2>1, <3>1, <3>2
  <2>7. QED
    BY <1>7, <2>3, <2>4, <2>5, <2>6
<1>8. ASSUME NEW w \in Windows, Reload(w)
      PROVE  Continues(history'[v], history[v])
  <2>1. history' = [history EXCEPT ![w] = Load(store)] /\ v # w
    BY <1>8 DEF Reload, ShowSession, SetHistory
  <2>2. history'[v] = history[v]
    BY <2>1 DEF PaneInv
  <2>3. QED
    BY <2>2, ContinuesItself
<1>9. CASE Pane
  BY <1>1, <1>3, <1>9, PaneMessages
<1>10. ASSUME NEW w \in Windows, NEW long \in BOOLEAN, SendMessage(w, long)
       PROVE  Continues(history'[v], history[v])
  <2>1. PICK g : g = history'[w]
    OBVIOUS
  <2>2. Continues(g, history[w]) /\ history' = [history EXCEPT ![w] = g]
    BY <1>10, <2>1, SendMessageRecords
  <2>3. QED
    BY <1>2, <2>1, <2>2
<1>11. CASE User
  <2>1. CASE \E w \in Windows : \E f \in PathFiles \cup InlineFiles :
               AttachFile(w, f) \/ DropFile(w, f) \/ DetachFile(w, f)
    BY <1>1, <2>1 DEF AttachFile, DropFile, DetachFile, paneVars
  <2>2. QED
    BY <1>6, <1>7, <1>8, <1>10, <1>11, <2>1 DEF User
<1>12. CASE Agent \/ UNCHANGED vars
  BY <1>1, <1>12 DEF Agent, AgentEnds, Emit, AgentExits, vars
<1>13. QED
  BY <1>9, <1>11, <1>12 DEF Next

\* An ask carries messages of its conversation, and goes on doing so.
LEMMA AskedStays ==
  ASSUME AskedInItsConversation, AsksInv, made \in Nat, NEW i \in DOMAIN asks, Settled(i), InFlight(asks[i]),
         Continues(history'[asks[i].window], history[asks[i].window])
  PROVE  LET h == history'[asks'[i].window]
             s == asks'[i].session
         IN  \/ s \notin Sessions(h) \/ Len(h.messages[s]) = MaxMessages
             \/ ToSet(asks'[i].context) \subseteq ToSet(h.messages[s])
<1>1. PICK h : h = history[asks[i].window]
  OBVIOUS
<1>2. PICK g : g = history'[asks[i].window]
  OBVIOUS
<1>3. PICK s : s = asks[i].session
  OBVIOUS
<1>4. asks'[i].window = asks[i].window /\ asks'[i].session = s /\ asks'[i].context = asks[i].context
  BY <1>3 DEF Settled
<1>5. s <= made
  BY <1>3 DEF AsksInv
<1>6. \/ s \notin Sessions(h) \/ Len(h.messages[s]) = MaxMessages
      \/ ToSet(asks[i].context) \subseteq ToSet(h.messages[s])
  BY <1>1, <1>3 DEF AskedInItsConversation
<1>7. s \in Sessions(g) => s \in Sessions(h) /\ Grown(g.messages[s], h.messages[s])
  BY <1>1, <1>2, <1>5 DEF Continues
<1>8. \/ s \notin Sessions(g) \/ Len(g.messages[s]) = MaxMessages
      \/ ToSet(asks[i].context) \subseteq ToSet(g.messages[s])
  BY <1>6, <1>7 DEF Grown
<1>9. QED
  BY <1>2, <1>4, <1>8

\* A new ask carries messages of the conversation it was recorded in.
LEMMA AskedNew ==
  ASSUME PaneInv', NEW w \in Windows, NEW h, h = history'[w], HasActive(h),
         NEW s, s = h.active, NEW c, c = context'[w]
  PROVE  Len(h.messages[s]) = MaxMessages \/ ToSet(c) \subseteq ToSet(h.messages[s])
<1>1. PICK M : M = Message'
  OBVIOUS
<1>2. PICK u : u = surface'[w]
  OBVIOUS
<1>3. Fits(h, u, c, 1 .. made', M)
  BY <1>1, <1>2 DEF PaneInv
<1>4. u \in Seq(M) /\ c \in Seq(M) /\ IsSuffix(c, Replay(u)) /\ h.messages[s] = LastN(u, MaxMessages)
  BY <1>3 DEF Fits, ActiveMessages
<1>5. ToSet(c) \subseteq ToSet(u)
  <2>1. Replay(u) \in Seq(M) /\ ToSet(Replay(u)) \subseteq ToSet(u)
    BY <1>4, ReplayPart
  <2>2. ToSet(c) \subseteq ToSet(Replay(u))
    BY <1>4, <2>1, SuffixPart
  <2>3. QED
    BY <2>1, <2>2
<1>6. /\ Len(LastN(u, MaxMessages)) = IF Len(u) <= MaxMessages THEN Len(u) ELSE MaxMessages
      /\ Len(u) <= MaxMessages => LastN(u, MaxMessages) = u
  BY <1>4, LastNFacts, HistoryLimits
<1>7. QED
  BY <1>4, <1>5, <1>6

\* The asks of a window that is reloaded are no longer in flight.
LEMMA ReloadEnds ==
  ASSUME RequestInv, NEW i \in DOMAIN asks, Reload(asks[i].window)
  PROVE  ~ InFlight(asks'[i])
<1>1. PICK S, C : asks[i] \in AskOf(S, C)
  BY AskFacts DEF RequestInv, Shape
<1>2. CASE InFlight(asks[i])
  <2>1. PICK r : r = [asks[i] EXCEPT !.pc = "lost"]
    OBVIOUS
  <2>2. asks'[i] = r
    BY <1>2, <2>1 DEF Reload, InFlight
  <2>3. r.pc = "lost"
    BY <1>1, <2>1 DEF AskOf
  <2>4. QED
    BY <2>2, <2>3 DEF InFlight
<1>3. CASE ~ InFlight(asks[i])
  <2>1. asks'[i] = asks[i]
    BY <1>3 DEF Reload, InFlight
  <2>2. QED
    BY <1>3, <2>1
<1>4. QED
  BY <1>2, <1>3

\* Every step keeps the asks in flight in their conversations.
LEMMA AskedStep ==
  ASSUME PaneInv, PaneInv', RequestInv, AsksInv, AskedInItsConversation, [Next]_vars
  PROVE  AskedInItsConversation'
<1> DEFINE Carries(i) ==
      LET h == history'[asks'[i].window]
          s == asks'[i].session
      IN  \/ s \notin Sessions(h) \/ Len(h.messages[s]) = MaxMessages
          \/ ToSet(asks'[i].context) \subseteq ToSet(h.messages[s])
<1>1. PICK S, C : asks \in Seq(AskOf(S, C))
  BY DEF RequestInv, Shape
<1>2. \A i \in DOMAIN asks : asks[i].window \in Windows
  BY <1>1, AskFacts
<1>3. ASSUME NEW i \in DOMAIN asks, Settled(i), InFlight(asks'[i])
      PROVE  Carries(i)
  <2>1. ~ Reload(asks[i].window)
    BY <1>3, ReloadEnds
  <2>2. Continues(history'[asks[i].window], history[asks[i].window])
    BY <1>2, <2>1, HistoryContinues
  <2>3. made \in Nat
    BY DEF PaneInv
  <2>4. InFlight(asks[i])
    BY <1>3 DEF Settled
  <2>5. QED
    BY <1>3, <2>2, <2>3, <2>4, AskedStays
<1>4. ASSUME NEW w \in Windows, NEW long \in BOOLEAN, SendMessage(w, long)
      PROVE  AskedInItsConversation'
  <2>1. PICK a : a = Len(asks) + 1
    OBVIOUS
  <2>2. /\ \A i \in DOMAIN asks : Settled(i)
        /\ \A i \in DOMAIN asks' : i \in DOMAIN asks \/ i = a
        /\ asks'[a].window = w
        /\ w \in DOMAIN context => asks'[a].context = context'[w]
        /\ asks'[a].session = Target(history[w], made + 1)
    BY <1>4, <2>1, SendMessageAsks
  <2>3. w \in DOMAIN context
    BY DEF PaneInv
  <2>4. PICK h : h = history'[w]
    OBVIOUS
  <2>5. HasActive(h) /\ h.active = Target(history[w], made + 1)
    BY <1>4, <2>4, SendMessageRecords
  <2>6. PICK s : s = h.active
    OBVIOUS
  <2>7. PICK c : c = context'[w]
    OBVIOUS
  <2>8. Len(h.messages[s]) = MaxMessages \/ ToSet(c) \subseteq ToSet(h.messages[s])
    BY <2>4, <2>5, <2>6, <2>7, AskedNew
  <2>9. asks'[a].window = w /\ asks'[a].session = s /\ asks'[a].context = c
    BY <2>2, <2>3, <2>5, <2>6, <2>7
  <2>10. Carries(a)
    BY <2>4, <2>8, <2>9
  <2>11. QED
    BY <1>3, <2>2, <2>10 DEF AskedInItsConversation
<1>5. CASE ~ \E w \in Windows : \E long \in BOOLEAN : SendMessage(w, long)
  <2>1. (\A i \in DOMAIN asks : Settled(i)) /\ DOMAIN asks' = DOMAIN asks
    BY <1>5, AsksStay
  <2>2. QED
    BY <1>3, <2>1 DEF AskedInItsConversation
<1>6. QED
  BY <1>4, <1>5

\* A request carries the conversation it was asked in, in any number of
\* windows that share the store, though another was opened, created or
\* removed while its attachments were read (sendMessage of chatViewPane.ts
\* builds the context before it waits).
THEOREM AlwaysAskedInItsConversation == Spec => []AskedInItsConversation
<1>1. Init => AskedInItsConversation
  <2>1. SUFFICES ASSUME Init PROVE AskedInItsConversation
    OBVIOUS
  <2>2. asks = <<>>
    BY <2>1 DEF Init
  <2>3. DOMAIN asks = {}
    BY <2>2
  <2>4. QED
    BY <2>3 DEF AskedInItsConversation
<1>2. PaneInv /\ PaneInv' /\ RequestInv /\ AsksInv /\ AskedInItsConversation /\ [Next]_vars
        => AskedInItsConversation'
  BY AskedStep
<1>3. QED
  BY <1>1, <1>2, PaneInvAlways, RequestInvAlways, AsksInvAlways, PTL DEF Spec

-----------------------------------------------------------------------------
(* Conversations *)

\* The last messages of u and ms continue the last ones of u.
LEMMA LastNContinued ==
  ASSUME NEW T, NEW u \in Seq(T), NEW ms \in Seq(T), ms # <<>>
  PROVE  Saved!Continued(LastN(u \o ms, MaxMessages), LastN(u, MaxMessages))
<1>1. PICK max \in Nat \ {0} : max = MaxMessages
  BY HistoryLimits
<1>2. PICK k \in Nat : k = Len(u)
  OBVIOUS
<1>3. PICK j \in Nat \ {0} : j = Len(ms)
  OBVIOUS
<1>4. PICK all : all = u \o ms
  OBVIOUS
<1>5. all \in Seq(T) /\ Len(all) = k + j /\ \A i \in 1 .. k : all[i] = u[i]
  BY <1>2, <1>3, <1>4
<1>6. PICK old : old = LastN(u, max)
  OBVIOUS
<1>7. PICK new : new = LastN(all, max)
  OBVIOUS
<1>8. PICK m \in Nat : m = IF k <= max THEN k ELSE max
  OBVIOUS
<1>9. Len(old) = m /\ \A i \in 1 .. m : old[i] = u[k - m + i]
  <2>1. CASE k <= max
    <3>1. old = u /\ m = k
      BY <1>2, <1>6, <1>8, <2>1 DEF LastN
    <3>2. QED
      BY <1>2, <3>1
  <2>2. CASE k > max
    <3>1. m = max /\ Len(u) > max
      BY <1>2, <1>8, <2>2
    <3>2. QED
      BY <1>2, <1>6, <3>1, LastNLong
  <2>3. QED
    BY <2>1, <2>2
<1>10. CASE k + j <= max
  <2>1. new = all
    BY <1>5, <1>7, <1>10 DEF LastN
  <2>2. m = k /\ k < k + j /\ k \in 0 .. m
    BY <1>8, <1>10
  <2>3. Len(new) = k + j /\ \A i \in 1 .. k : new[i] = old[m - k + i]
    BY <1>5, <1>9, <2>1, <2>2
  <2>4. Saved!Continued(new, old)
    BY <1>1, <1>9, <1>10, <2>2, <2>3 DEF Saved!Continued
  <2>5. QED
    BY <1>1, <1>4, <1>6, <1>7, <2>4
<1>11. CASE k + j > max
  <2>1. Len(new) = max /\ \A i \in 1 .. max : new[i] = all[k + j - max + i]
    <3>1. all \in Seq(T) /\ Len(all) = k + j /\ Len(all) > max
      BY <1>5, <1>11
    <3>2. Len(new) = max /\ \A i \in 1 .. max : new[i] = all[Len(all) - max + i]
      BY <1>7, <3>1, LastNLong
    <3>3. QED
      BY <3>1, <3>2
  <2>2. PICK n \in Nat : (j <= max => n = max - j) /\ (j > max => n = 0)
    <3>1. CASE j <= max
      <4>1. max - j \in Nat
        BY <3>1
      <4>2. QED
        BY <3>1, <4>1
    <3>2. CASE j > max
      BY <3>2
    <3>3. QED
      BY <3>1, <3>2
  <2>3. n \in 0 .. m /\ n < max
    BY <1>1, <1>8, <1>11, <2>2
  <2>4. \A i \in 1 .. n : new[i] = old[m - n + i]
    <3>1. SUFFICES ASSUME NEW i \in 1 .. n PROVE new[i] = old[m - n + i]
      OBVIOUS
    <3>2. j <= max /\ n = max - j
      BY <2>2, <3>1
    <3>3. new[i] = all[k - n + i] /\ k - n + i \in 1 .. k
      BY <1>11, <2>1, <2>3, <3>2
    <3>4. m - n + i \in 1 .. m /\ k - m + (m - n + i) = k - n + i
      BY <2>3
    <3>5. QED
      BY <1>5, <1>9, <3>3, <3>4
  <2>5. Saved!Continued(new, old)
    BY <1>1, <1>9, <2>1, <2>3, <2>4 DEF Saved!Continued
  <2>6. QED
    BY <1>1, <1>4, <1>6, <1>7, <2>5
<1>12. QED
  BY <1>10, <1>11

Placed(w, g) == history' = [history EXCEPT ![w] = g] /\ store' = g

\* What a history of its own form says of its pages.
LEMMA PagesOf ==
  ASSUME NEW S, NEW M, NEW h, Kept(h, S, M)
  PROVE  /\ DOMAIN h.messages = Sessions(h)
         /\ Cardinality(DOMAIN h.messages) = Len(h.list)
         /\ h.messages = [s \in Sessions(h) |-> h.messages[s]]
<1>1. IsHistory(h, S, M)
  BY DEF Kept
<1>2. h.messages \in [Sessions(h) -> Seq(M)]
  BY <1>1 DEF IsHistory
<1>3. Cardinality(Sessions(h)) = Len(h.list)
  BY <1>1, DistinctLength DEF IsHistory, Sessions
<1>4. QED
  BY <1>2, <1>3

\* A window whose history is put in place saves its pages.
LEMMA PlacedSaves ==
  ASSUME PaneInv, NEW w \in Windows, NEW g, Placed(w, g)
  PROVE  /\ history'[w] = g
         /\ Saved!Saves(w)
<1>1. history = [v \in Windows |-> history[v]] /\ history' = [history EXCEPT ![w] = g] /\ store' = g
  BY DEF PaneInv, Placed
<1>2. history'[w] = g /\ \A v \in Windows : v # w => history'[v] = history[v]
  BY <1>1
<1>3. [v \in Windows |-> history'[v].messages]
        = [[v \in Windows |-> history[v].messages] EXCEPT ![w] = g.messages]
  BY <1>2
<1>4. [v \in Windows |-> history'[v].active]
        = [[v \in Windows |-> history[v].active] EXCEPT ![w] = g.active]
  BY <1>2
<1>5. QED
  BY <1>1, <1>2, <1>3, <1>4 DEF Saved!Saves

\* The next session has a name that is not used anywhere.
LEMMA NextUnused ==
  ASSUME PaneInv
  PROVE  Saved!Unused(made + 1)
<1>1. made \in Nat /\ made + 1 \notin 1 .. made
  BY DEF PaneInv
<1>2. ASSUME NEW h, Kept(h, 1 .. made, Message)
      PROVE  made + 1 \notin DOMAIN h.messages
  BY <1>1, <1>2, PagesOf, SessionsFrom
<1>3. made + 1 \notin DOMAIN store.messages
  BY <1>2 DEF PaneInv
<1>4. \A w \in Windows : made + 1 \notin DOMAIN history[w].messages
  BY <1>2 DEF PaneInv, Fits
<1>5. QED
  BY <1>3, <1>4 DEF Saved!Unused

\* Messages that are shown are written to the open conversation.
LEMMA ShownWrites ==
  ASSUME PaneInv, NEW w \in Windows, NEW M, Message \subseteq M, NEW ms \in Seq(M), Len(ms) <= 2,
         ms # <<>>, Show(w, ms)
  PROVE  Saved!Write(w)
<1>1. PICK h : h = history[w]
  OBVIOUS
<1>2. PICK g : g = history'[w]
  OBVIOUS
<1>3. PICK u : u = surface[w]
  OBVIOUS
<1>4. PICK s : s = Target(h, made + 1)
  OBVIOUS
<1>5. /\ Placed(w, g) /\ ActiveMessages(g) = LastN(u \o ms, MaxMessages)
      /\ Recorded(g, h, made + 1, ms, 1 .. made + 1, M)
  BY <1>1, <1>2, <1>3, Shown DEF Placed
<1>6. /\ Kept(g, 1 .. made + 1, M) /\ HasActive(g) /\ g.active = s
      /\ Sessions(g) = Sessions(h) \cup {s}
      /\ \A t \in Sessions(h) : t # s => g.messages[t] = h.messages[t]
  BY <1>4, <1>5 DEF Recorded
<1>7. /\ made \in Nat /\ Kept(h, 1 .. made, Message) /\ u \in Seq(Message)
      /\ ActiveMessages(h) = LastN(u, MaxMessages)
  BY <1>1, <1>3 DEF PaneInv, Fits
<1>8. DOMAIN h.messages = Sessions(h) /\ DOMAIN g.messages = Sessions(g)
  BY <1>6, <1>7, PagesOf
<1>9. s \in Sessions(g) /\ g.messages[s] = LastN(u \o ms, MaxMessages)
  BY <1>5, <1>6 DEF HasActive, ActiveMessages
<1>10. s = h.active \/ (h.active = None /\ Saved!Unused(s))
  <2>1. CASE HasActive(h)
    BY <1>4, <2>1 DEF Target
  <2>2. CASE ~ HasActive(h)
    BY <1>4, <1>7, <2>2, NextUnused DEF Target, Kept
  <2>3. QED
    BY <2>1, <2>2
<1>11. (IF s = h.active THEN h.messages[s] ELSE <<>>) = LastN(u, MaxMessages)
  <2>1. CASE HasActive(h)
    BY <1>4, <1>7, <2>1 DEF Target, ActiveMessages
  <2>2. CASE ~ HasActive(h)
    <3>1. h.active = None /\ s = made + 1 /\ made + 1 \in Nat
      BY <1>4, <1>7, <2>2 DEF Target, Kept
    <3>2. s # h.active
      BY <3>1, NoneIsNoSession
    <3>3. QED
      BY <1>7, <2>2, <3>2 DEF ActiveMessages
  <2>3. QED
    BY <2>1, <2>2
<1>12. Saved!Continued(g.messages[s], IF s = h.active THEN h.messages[s] ELSE <<>>)
  <2>1. u \in Seq(M)
    BY <1>7, SeqMonotonic
  <2>2. Saved!Continued(LastN(u \o ms, MaxMessages), LastN(u, MaxMessages))
    BY <2>1, LastNContinued
  <2>3. QED
    BY <1>9, <1>11, <2>2
<1>13. Saved!Saves(w) /\ history'[w] = g
  BY <1>5, PlacedSaves
<1>14. /\ [v \in Windows |-> history[v].messages][w] = h.messages
       /\ [v \in Windows |-> history[v].active][w] = h.active
       /\ [v \in Windows |-> history'[v].messages][w] = g.messages
       /\ [v \in Windows |-> history'[v].active][w] = g.active
  BY <1>1, <1>13
<1>15. \A t \in Sessions(h) \ {s} : t \in Sessions(g) /\ g.messages[t] = h.messages[t]
  BY <1>6
<1>16. QED
  BY <1>6, <1>8, <1>9, <1>10, <1>12, <1>13, <1>14, <1>15 DEF Saved!Write, Saved!Stay

\* A new conversation is begun.
LEMMA CreateBegins ==
  ASSUME PaneInv, RequestInv, NEW w \in Windows, CreateSession(w)
  PROVE  Saved!Begin(w)
<1>1. PICK h : h = history[w]
  OBVIOUS
<1>2. PICK s : s = made + 1
  OBVIOUS
<1>3. PICK g : g = Create(h, s)
  OBVIOUS
<1>4. SetHistory(w, g) /\ asks' = asks
  BY <1>1, <1>2, <1>3 DEF CreateSession, ShowSession, listVars
<1>5. Placed(w, g)
  BY <1>4 DEF SetHistory, Placed, PaneInv
<1>6. PICK S, M : Kept(h, S, M) /\ s \in S /\ s \notin Sessions(h)
  BY <1>1, <1>2, <1>4, Held
<1>7. IsHistory(h, S, M) /\ Len(h.list) <= MaxSessions /\ Len(h.list) \in Nat
  <2>1. IsHistory(h, S, M) /\ Len(h.list) <= MaxSessions
    BY <1>6 DEF Kept
  <2>2. h.list \in Seq(S)
    BY <2>1 DEF IsHistory
  <2>3. QED
    BY <2>1, <2>2
<1>8. /\ Kept(g, S, M)
      /\ g.active = s /\ s \in Sessions(g) /\ g.messages[s] = <<>>
      /\ \A t \in Sessions(g) : t # s => g.messages[t] = h.messages[t]
      /\ Len(h.list) < MaxSessions => Sessions(g) = Sessions(h) \cup {s}
      /\ Len(h.list) = MaxSessions => \E last \in Sessions(h) : Sessions(g) = (Sessions(h) \ {last}) \cup {s}
  BY <1>3, <1>6, <1>7, CreatedHistory
<1>9. /\ DOMAIN h.messages = Sessions(h) /\ DOMAIN g.messages = Sessions(g)
      /\ Cardinality(DOMAIN h.messages) = Len(h.list)
  BY <1>6, <1>8, PagesOf
<1>10. Saved!Saves(w) /\ history'[w] = g
  BY <1>5, PlacedSaves
<1>11. \A t \in Sessions(g) \ {s} : t \in Sessions(g) /\ g.messages[t] = h.messages[t]
  BY <1>8
<1>12. Saved!Unused(s)
  BY <1>2, NextUnused
<1>13. /\ [v \in Windows |-> history[v].messages][w] = h.messages
       /\ [v \in Windows |-> history'[v].messages][w] = g.messages
       /\ [v \in Windows |-> history'[v].active][w] = g.active
  BY <1>1, <1>10
<1>14. \A P : Saved!Cardinality(P) = Cardinality(P)
  BY DEF Saved!Cardinality, Cardinality
<1>15. CASE Len(h.list) < MaxSessions
  <2>1. Sessions(g) = Sessions(h) \cup {s}
    BY <1>8, <1>15
  <2>2. QED
    BY <1>8, <1>9, <1>10, <1>11, <1>12, <1>13, <1>14, <1>15, <2>1 DEF Saved!Begin, Saved!Stay
<1>16. CASE Len(h.list) = MaxSessions
  <2>1. PICK last \in Sessions(h) : Sessions(g) = (Sessions(h) \ {last}) \cup {s}
    BY <1>8, <1>16
  <2>2. ~ Len(h.list) < MaxSessions
    BY <1>16, HistoryLimits
  <2>3. QED
    BY <1>8, <1>9, <1>10, <1>11, <1>12, <1>13, <1>14, <2>1, <2>2 DEF Saved!Begin, Saved!Stay
<1>17. QED
  BY <1>7, <1>15, <1>16, HistoryLimits

\* A conversation is removed, with the one opened in its place if it was on
\* show.
LEMMA DiscardRemoves ==
  ASSUME PaneInv, NEW w \in Windows, NEW s \in Sessions(history[w]), RemoveSession(w, s)
  PROVE  Saved!Remove(w)
<1>1. PICK h : h = history[w]
  OBVIOUS
<1>2. PICK g : g = Discard(h, s)
  OBVIOUS
<1>3. Placed(w, g)
  BY <1>1, <1>2 DEF RemoveSession, ShowSession, SetHistory, Placed, PaneInv
<1>4. Kept(h, 1 .. made, Message) /\ s \in Sessions(h)
  BY <1>1 DEF PaneInv, Fits
<1>5. /\ Kept(g, 1 .. made, Message) /\ Sessions(g) = Sessions(h) \ {s}
      /\ \A t \in Sessions(g) : g.messages[t] = h.messages[t]
      /\ s # h.active => g.active = h.active
  BY <1>2, <1>4, DiscardedHistory
<1>6. DOMAIN h.messages = Sessions(h) /\ DOMAIN g.messages = Sessions(g)
  BY <1>4, <1>5, PagesOf
<1>7. Saved!Saves(w) /\ history'[w] = g
  BY <1>3, PlacedSaves
<1>8. /\ [v \in Windows |-> history[v].messages][w] = h.messages
      /\ [v \in Windows |-> history[v].active][w] = h.active
      /\ [v \in Windows |-> history'[v].messages][w] = g.messages
      /\ [v \in Windows |-> history'[v].active][w] = g.active
  BY <1>1, <1>7
<1>9. IF s # h.active THEN g.active = h.active
      ELSE IF Sessions(g) = {} THEN g.active = None
      ELSE g.active \in Sessions(g)
  <2>1. Sessions(g) = {} => ~ HasActive(g)
    BY DEF HasActive
  <2>2. g.list = <<>> => Sessions(g) = {}
    BY DEF Sessions, ToSet
  <2>3. QED
    BY <1>5, <2>1, <2>2 DEF Kept, HasActive
<1>10. QED
  BY <1>4, <1>5, <1>6, <1>7, <1>8, <1>9 DEF Saved!Remove, Saved!Stay

\* Opening, pinning and renaming change no conversation.
LEMMA ListTurns ==
  ASSUME PaneInv, NEW w \in Windows, NEW s \in Sessions(history[w]),
         OpenSession(w, s) \/ PinSession(w, s) \/ RenameSession(w, s)
  PROVE  Saved!Turn(w)
<1>1. PICK h : h = history[w]
  OBVIOUS
<1>2. Kept(h, 1 .. made, Message) /\ s \in Sessions(h)
  BY <1>1 DEF PaneInv, Fits
<1>3. HasActive(h)
  <2>1. h.list # <<>>
    BY <1>2 DEF Sessions, ToSet
  <2>2. QED
    BY <1>2, <2>1 DEF Kept
<1>4. PICK g : /\ SetHistory(w, g) /\ g.messages = h.messages
               /\ g.active \in Sessions(h)
  <2>1. CASE OpenSession(w, s)
    <3>1. SetHistory(w, Open(h, s))
      BY <1>1, <2>1 DEF OpenSession, ShowSession
    <3>2. Open(h, s).messages = h.messages /\ Open(h, s).active = s
      BY <1>2, OpenedHistory DEF Kept
    <3>3. QED
      BY <1>2, <3>1, <3>2
  <2>2. CASE PinSession(w, s)
    <3>1. SetHistory(w, TogglePin(h, s))
      BY <1>1, <2>2 DEF PinSession
    <3>2. TogglePin(h, s).messages = h.messages /\ TogglePin(h, s).active = h.active
      BY <1>2, PinnedHistory
    <3>3. QED
      BY <1>3, <3>1, <3>2 DEF HasActive
  <2>3. CASE RenameSession(w, s)
    <3>1. SetHistory(w, Rename(h, s))
      BY <1>1, <2>3 DEF RenameSession
    <3>2. Rename(h, s).messages = h.messages /\ Rename(h, s).active = h.active
      BY <1>2, RenamedHistory
    <3>3. QED
      BY <1>3, <3>1, <3>2 DEF HasActive
  <2>4. QED
    BY <2>1, <2>2, <2>3
<1>5. Placed(w, g)
  BY <1>4 DEF SetHistory, Placed, PaneInv
<1>6. Saved!Saves(w) /\ history'[w] = g
  BY <1>5, PlacedSaves
<1>7. DOMAIN h.messages = Sessions(h)
  BY <1>2, PagesOf
<1>8. QED
  BY <1>1, <1>4, <1>6, <1>7 DEF Saved!Turn

\* A reload takes what was saved.
LEMMA ReloadRestarts ==
  ASSUME PaneInv, NEW w \in Windows, Reload(w)
  PROVE  Saved!Restart(w)
<1>1. PICK g : g = Load(store)
  OBVIOUS
<1>2. Placed(w, g)
  BY <1>1 DEF Reload, ShowSession, SetHistory, Placed, PaneInv
<1>3. g.active = store.active /\ g.messages = store.messages
  BY <1>1, LoadedHistory DEF PaneInv
<1>4. Saved!Saves(w) /\ history'[w] = g
  BY <1>2, PlacedSaves
<1>5. QED
  BY <1>3, <1>4 DEF Saved!Restart

\* A message that is sent is written to the open conversation.
LEMMA SendMessageWrites ==
  ASSUME PaneInv, RequestInv, NEW w \in Windows, NEW long \in BOOLEAN, SendMessage(w, long)
  PROVE  Saved!Write(w)
<1>1. PICK a : a = Len(asks) + 1
  OBVIOUS
<1>2. PICK m : m = [ask |-> a, kind |-> "user"]
  OBVIOUS
<1>3. PICK e : e = [ask |-> a, kind |-> "error"]
  OBVIOUS
<1>4. a \in Nat /\ Len(asks') = a /\ Len(asks) \in Nat /\ Len(asks) <= a
  BY <1>1, SendMessageAsks
<1>5. Message \subseteq Message' /\ a \in 1 .. Len(asks')
  BY <1>1, <1>4, MoreAsks
<1>6. m \in Message' /\ e \in Message'
  BY <1>2, <1>3, <1>5 DEF Message
<1>7. Show(w, <<m>>) \/ Show(w, Append(<<m>>, e))
  BY <1>1, <1>2, <1>3 DEF SendMessage, Submit
<1>8. PICK ms : Show(w, ms) /\ (ms = <<m>> \/ ms = Append(<<m>>, e))
  BY <1>7
<1>9. ms \in Seq(Message') /\ Len(ms) <= 2 /\ ms # <<>>
  BY <1>6, <1>8, OneOrTwo
<1>10. QED
  BY <1>5, <1>8, <1>9, ShownWrites

\* Every step is one of the conversations, or leaves them alone.
LEMMA PagesStep ==
  ASSUME PaneInv, RequestInv, [Next]_vars
  PROVE  [Saved!Next]_(Saved!pagesVars)
<1>1. ASSUME UNCHANGED <<history, store>>
      PROVE  [Saved!Next]_(Saved!pagesVars)
  BY <1>1 DEF Saved!pagesVars
<1>2. ASSUME NEW w \in Windows,
             Saved!Write(w) \/ Saved!Begin(w) \/ Saved!Turn(w) \/ Saved!Remove(w) \/ Saved!Restart(w)
      PROVE  [Saved!Next]_(Saved!pagesVars)
  BY <1>2 DEF Saved!Next
<1>3. ASSUME NEW w \in Windows, NEW ms \in Seq(Message'), Message \subseteq Message', Len(ms) <= 2, Show(w, ms)
      PROVE  [Saved!Next]_(Saved!pagesVars)
  <2>1. CASE ms = <<>>
    BY <1>1, <1>3, <2>1 DEF Show
  <2>2. CASE ms # <<>>
    BY <1>2, <1>3, <2>2, ShownWrites
  <2>3. QED
    BY <2>1, <2>2
<1>4. CASE User
  <2>1. PICK w \in Windows :
          \/ \E long \in BOOLEAN : SendMessage(w, long)
          \/ CreateSession(w)
          \/ \E s \in Sessions(history[w]) :
               OpenSession(w, s) \/ RemoveSession(w, s) \/ PinSession(w, s) \/ RenameSession(w, s)
          \/ Reload(w)
          \/ \E f \in PathFiles \cup InlineFiles : AttachFile(w, f) \/ DropFile(w, f) \/ DetachFile(w, f)
    BY <1>4 DEF User
  <2>2. CASE \E long \in BOOLEAN : SendMessage(w, long)
    BY <1>2, <2>2, SendMessageWrites
  <2>3. CASE CreateSession(w)
    BY <1>2, <2>3, CreateBegins
  <2>4. ASSUME NEW s \in Sessions(history[w]), RemoveSession(w, s)
        PROVE  [Saved!Next]_(Saved!pagesVars)
    BY <1>2, <2>4, DiscardRemoves
  <2>5. ASSUME NEW s \in Sessions(history[w]), OpenSession(w, s) \/ PinSession(w, s) \/ RenameSession(w, s)
        PROVE  [Saved!Next]_(Saved!pagesVars)
    BY <1>2, <2>5, ListTurns
  <2>6. CASE Reload(w)
    BY <1>2, <2>6, ReloadRestarts
  <2>7. CASE \E f \in PathFiles \cup InlineFiles : AttachFile(w, f) \/ DropFile(w, f) \/ DetachFile(w, f)
    BY <1>1, <2>7 DEF AttachFile, DropFile, DetachFile, paneVars
  <2>8. QED
    BY <2>1, <2>2, <2>3, <2>4, <2>5, <2>6, <2>7
<1>5. CASE Pane
  BY <1>1, <1>3, <1>5, PaneMessages
<1>6. CASE Agent \/ UNCHANGED vars
  BY <1>1, <1>6 DEF Agent, AgentEnds, Emit, AgentExits, vars
<1>7. QED
  BY <1>4, <1>5, <1>6 DEF Next

\* No conversation of any window is lost or changed but as Conversations
\* says (appendHistoryMessage, createSessionAndSwitch, openSessionFromHistory,
\* removeSessionFromHistory, pinSession and saveHistorySessions of
\* chatViewPane.ts, over one key of the local store).
THEOREM PaneImplementsConversations == Spec => ImplementsConversations
<1>1. Init => Saved!Init
  <2>1. SUFFICES ASSUME Init PROVE Saved!Init
    OBVIOUS
  <2>2. Empty.messages = <<>> /\ Empty.active = None
    BY DEF Empty
  <2>3. store = Empty /\ \A w \in Windows : history[w] = Empty
    BY <2>1 DEF Init
  <2>4. QED
    BY <2>2, <2>3 DEF Saved!Init
<1>2. PaneInv /\ RequestInv /\ [Next]_vars => [Saved!Next]_(Saved!pagesVars)
  BY PagesStep
<1>3. QED
  BY <1>1, <1>2, PaneInvAlways, RequestInvAlways, PTL DEF Spec, ImplementsConversations, Saved!Spec
=============================================================================
