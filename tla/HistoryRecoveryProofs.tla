----------------------- MODULE HistoryRecoveryProofs ------------------------
(***************************************************************************)
(* Theorems about MessageIngestion and about HistoryRecovery, which builds *)
(* on it.                                                                  *)
(*                                                                         *)
(* MessageIngestion, for any messages, side effects, inboxes and Layouts,  *)
(* and any bounds: the order of side effects and their targets, and the    *)
(* refinement of EventQueue.                                               *)
(*                                                                         *)
(* HistoryRecovery, for any messages, conversations, Layouts and bounds:   *)
(* whatever the network, the handlers, the Layouts and reloads do around a *)
(* recovery, the repair marker is written honestly, and, while the page    *)
(* does not sleep inside a recovery, no message that nobody has seen falls *)
(* behind a checkpoint.                                                    *)
(***************************************************************************)
EXTENDS HistoryRecovery, SequenceTheorems, FiniteSetTheorems, TLAPS

-----------------------------------------------------------------------------
(* The bridge: its inductive invariant *)

\* The tail and the buffers as one sequence, which is EventQueue's waiting.
Waiting == tail \o messageBuffer \o effectBuffer

\* Registration drains, so nothing is buffered while somebody listens.
BuffersServeNobody ==
  consumer # NoLayout => messageBuffer = <<>> /\ effectBuffer = <<>>

\* A side effect's target was handled, or waits before it.
TargetAhead(s, done) ==
  \A k \in 1 .. Len(s) :
    s[k] \in Effects => \/ TargetOf[s[k]] \in done
                        \/ \E j \in 1 .. k - 1 : s[j] = TargetOf[s[k]]

\* An addition leads from one inbox to another.
SwitchJoinsInboxes ==
  switching.step # "none" => switching.from \in Inboxes /\ switching.to \in Inboxes

IInv == TypeOK /\ SwitchJoinsInboxes /\ BuffersServeNobody /\ TargetAhead(Waiting, handled)
-----------------------------------------------------------------------------
(* Sequences *)

\* Three sequences chained, element by element.
LEMMA Chained ==
  ASSUME NEW S, NEW a \in Seq(S), NEW b \in Seq(S), NEW c \in Seq(S)
  PROVE  /\ a \o b \o c \in Seq(S)
         /\ Len(a \o b \o c) = Len(a) + Len(b) + Len(c)
         /\ \A i \in 1 .. Len(a) : (a \o b \o c)[i] = a[i]
         /\ \A i \in 1 .. Len(b) : (a \o b \o c)[Len(a) + i] = b[i]
         /\ \A i \in 1 .. Len(c) : (a \o b \o c)[Len(a) + Len(b) + i] = c[i]
<1>1. /\ Len(a) \in Nat /\ Len(b) \in Nat /\ Len(c) \in Nat
  BY LenProperties
<1>2. /\ a \o b \in Seq(S)
      /\ Len(a \o b) = Len(a) + Len(b)
      /\ \A i \in 1 .. Len(a) + Len(b) : (a \o b)[i] = IF i <= Len(a) THEN a[i] ELSE b[i - Len(a)]
  BY ConcatProperties
<1>3. /\ a \o b \o c \in Seq(S)
      /\ Len(a \o b \o c) = Len(a \o b) + Len(c)
      /\ \A i \in 1 .. Len(a \o b) + Len(c) :
           (a \o b \o c)[i] = IF i <= Len(a \o b) THEN (a \o b)[i] ELSE c[i - Len(a \o b)]
  BY <1>2, ConcatProperties
<1>4. ASSUME NEW i \in 1 .. Len(a)
      PROVE  (a \o b \o c)[i] = a[i]
  BY <1>1, <1>2, <1>3
<1>5. ASSUME NEW i \in 1 .. Len(b)
      PROVE  (a \o b \o c)[Len(a) + i] = b[i]
  <2>1. /\ Len(a) + i \in 1 .. Len(a) + Len(b) /\ ~(Len(a) + i <= Len(a))
        /\ Len(a) + i - Len(a) = i
    BY <1>1
  <2>2. (a \o b)[Len(a) + i] = b[i]
    BY <2>1, <1>2
  <2>3. QED BY <1>1, <1>2, <1>3, <2>1, <2>2
<1>6. ASSUME NEW i \in 1 .. Len(c)
      PROVE  (a \o b \o c)[Len(a) + Len(b) + i] = c[i]
  BY <1>1, <1>2, <1>3
<1>7. QED BY <1>2, <1>3, <1>4, <1>5, <1>6

\* Appending an element.
LEMMA Appended ==
  ASSUME NEW S, NEW s \in Seq(S), NEW e \in S
  PROVE  /\ Append(s, e) \in Seq(S)
         /\ Len(Append(s, e)) = Len(s) + 1
         /\ \A i \in 1 .. Len(s) : Append(s, e)[i] = s[i]
         /\ Append(s, e)[Len(s) + 1] = e
OBVIOUS

\* With nothing behind it a sequence is itself.
LEMMA ChainedAlone ==
  ASSUME NEW S, NEW a \in Seq(S)
  PROVE  a \o <<>> \o <<>> = a
BY ConcatEmptySeq, EmptySeq

\* Buffers handed over and emptied make the same chain.
LEMMA ChainedDrained ==
  ASSUME NEW S, NEW a \in Seq(S), NEW b \in Seq(S), NEW c \in Seq(S)
  PROVE  a \o b \o c \o <<>> \o <<>> = a \o b \o c
BY Chained, ChainedAlone

\* Appending to the last part appends to the chain.
LEMMA ChainedAppend ==
  ASSUME NEW S, NEW a \in Seq(S), NEW b \in Seq(S), NEW c \in Seq(S), NEW e \in S
  PROVE  a \o b \o Append(c, e) = Append(a \o b \o c, e)
<1> DEFINE s == a \o b \o Append(c, e)
           t == Append(a \o b \o c, e)
<1>1. Len(a) \in Nat /\ Len(b) \in Nat /\ Len(c) \in Nat
  BY LenProperties
<1>2. /\ Append(c, e) \in Seq(S) /\ Len(Append(c, e)) = Len(c) + 1
      /\ \A i \in 1 .. Len(c) : Append(c, e)[i] = c[i]
      /\ Append(c, e)[Len(c) + 1] = e
  BY Appended
<1>3. s \in Seq(S) /\ t \in Seq(S) /\ Len(s) = Len(t)
  BY <1>1, <1>2, Chained, Appended
<1>4. ASSUME NEW i \in 1 .. Len(s)
      PROVE  s[i] = t[i]
  <2>1. i \in 1 .. Len(a) + Len(b) + Len(c) + 1
    BY <1>2, Chained
  <2>2. CASE i <= Len(a)
    BY <2>1, <2>2, <1>1, <1>2, Chained, Appended
  <2>3. CASE Len(a) < i /\ i <= Len(a) + Len(b)
    <3>1. i - Len(a) \in 1 .. Len(b) /\ i = Len(a) + (i - Len(a))
      BY <2>1, <2>3, <1>1
    <3>2. s[i] = b[i - Len(a)] /\ (a \o b \o c)[i] = b[i - Len(a)]
      BY <3>1, <1>2, Chained
    <3>3. QED BY <3>2, <2>1, <2>3, <1>1, Chained, Appended
  <2>4. CASE Len(a) + Len(b) < i /\ i <= Len(a) + Len(b) + Len(c)
    <3>1. i - Len(a) - Len(b) \in 1 .. Len(c) /\ i = Len(a) + Len(b) + (i - Len(a) - Len(b))
      BY <2>1, <2>4, <1>1
    <3>2. s[i] = c[i - Len(a) - Len(b)] /\ (a \o b \o c)[i] = c[i - Len(a) - Len(b)]
      BY <3>1, <1>1, <1>2, Chained
    <3>3. QED BY <3>2, <2>1, <2>4, <1>1, Chained, Appended
  <2>5. CASE i = Len(a) + Len(b) + Len(c) + 1
    <3>1. s[i] = e
      BY <2>5, <1>1, <1>2, Chained
    <3>2. t[i] = e
      BY <2>5, Chained, Appended
    <3>3. QED BY <3>1, <3>2
  <2>6. QED BY <2>1, <2>2, <2>3, <2>4, <2>5, <1>1
<1>5. QED BY <1>3, <1>4, SeqEqual

\* An element put between the second part and the third.
LEMMA Inserted ==
  ASSUME NEW S, NEW a \in Seq(S), NEW b \in Seq(S), NEW c \in Seq(S), NEW e \in S
  PROVE  LET w == a \o b \o c
             k == Len(a) + Len(b)
         IN  /\ k \in 0 .. Len(w)
             /\ a \o Append(b, e) \o c = Append(SubSeq(w, 1, k), e) \o SubSeq(w, k + 1, Len(w))
             /\ \A j \in k + 1 .. Len(w) : w[j] = c[j - k]
             /\ \A j \in k + 1 .. Len(w) : j - k \in 1 .. Len(c)
<1> DEFINE w == a \o b \o c
           k == Len(a) + Len(b)
<1>1. Len(a) \in Nat /\ Len(b) \in Nat /\ Len(c) \in Nat
  BY LenProperties
<1>2. w \in Seq(S) /\ Len(w) = k + Len(c)
  BY Chained
<1>3. a \o b \in Seq(S) /\ Len(a \o b) = k
  BY ConcatProperties
<1>4. SubSeq(w, 1, k) = a \o b
  <2>1. \A i \in 1 .. k : w[i] = (a \o b)[i]
    BY <1>1, <1>3, ConcatProperties
  <2>2. \A i \in 1 .. k : w[i] \in S
    BY <1>1, <1>2, ElementOfSeq
  <2>3. /\ SubSeq(w, 1, k) \in Seq(S)
        /\ Len(SubSeq(w, 1, k)) = k
        /\ \A i \in 1 .. k : SubSeq(w, 1, k)[i] = w[i]
    <3> HIDE DEF w
    <3> QED BY <1>1, <2>2, SubSeqProperties
  <2>4. \A i \in 1 .. k : SubSeq(w, 1, k)[i] = (a \o b)[i]
    BY <2>1, <2>3
  <2> HIDE DEF w, k
  <2>5. QED BY <1>3, <2>3, <2>4, SeqEqual
<1>5. SubSeq(w, k + 1, Len(w)) = c
  <2>1. \A j \in k + 1 .. Len(w) : w[j] \in S
    BY <1>1, <1>2, ElementOfSeq
  <2>2. /\ SubSeq(w, k + 1, Len(w)) \in Seq(S)
        /\ Len(SubSeq(w, k + 1, Len(w))) = Len(c)
        /\ \A i \in 1 .. Len(c) : SubSeq(w, k + 1, Len(w))[i] = w[k + i]
    <3> HIDE DEF w
    <3>1. /\ SubSeq(w, k + 1, Len(w)) \in Seq(S)
          /\ Len(SubSeq(w, k + 1, Len(w))) = IF k + 1 <= Len(w) THEN Len(w) - (k + 1) + 1 ELSE 0
          /\ \A i \in 1 .. Len(w) - (k + 1) + 1 :
               SubSeq(w, k + 1, Len(w))[i] = w[(k + 1) + i - 1]
      BY <1>1, <1>2, <2>1, SubSeqProperties
    <3>2. QED BY <3>1, <1>1, <1>2
  <2>3. \A i \in 1 .. Len(c) : w[k + i] = c[i]
    BY Chained
  <2>4. QED BY <2>2, <2>3, SeqEqual
<1>6. a \o Append(b, e) = Append(a \o b, e)
  <2>1. <<>> \in Seq(S)
    BY EmptySeq
  <2>2. <<>> \o a \o Append(b, e) = Append(<<>> \o a \o b, e)
    BY <2>1, ChainedAppend
  <2>3. <<>> \o a = a
    BY ConcatEmptySeq
  <2>4. QED BY <2>2, <2>3
<1>7. \A j \in k + 1 .. Len(w) : j - k \in 1 .. Len(c) /\ j = k + (j - k)
  BY <1>1, <1>2
<1>8. \A j \in k + 1 .. Len(w) : w[j] = c[j - k]
  BY <1>7, Chained
<1>9. a \o Append(b, e) \o c = Append(SubSeq(w, 1, k), e) \o SubSeq(w, k + 1, Len(w))
  BY <1>4, <1>5, <1>6
<1>10. k \in 0 .. Len(w)
  BY <1>1, <1>2
<1> HIDE DEF w, k
<1>11. QED BY <1>7, <1>8, <1>9, <1>10 DEF w, k

\* The head of a chain is the head of its first part, as long as that has one.
LEMMA ChainedTail ==
  ASSUME NEW S, NEW a \in Seq(S), NEW b \in Seq(S), NEW c \in Seq(S), a # <<>>
  PROVE  /\ a \o b \o c # <<>>
         /\ Head(a \o b \o c) = Head(a)
         /\ Tail(a \o b \o c) = Tail(a) \o b \o c
<1> DEFINE w == a \o b \o c
           s == Tail(w)
           t == Tail(a) \o b \o c
<1>1. Len(a) \in Nat \ {0} /\ Len(b) \in Nat /\ Len(c) \in Nat
  BY LenProperties, EmptySeq
<1>2. w \in Seq(S) /\ Len(w) = Len(a) + Len(b) + Len(c)
  BY Chained
<1>3. w # <<>>
  BY <1>1, <1>2
<1>4. Head(w) = Head(a)
  <2>1. w[1] = a[1]
    BY <1>1, Chained
  <2>2. QED BY <1>2, <1>3, <2>1
<1>5. /\ Tail(a) \in Seq(S) /\ Len(Tail(a)) = Len(a) - 1
      /\ \A i \in 1 .. Len(a) - 1 : Tail(a)[i] = a[i + 1]
  BY HeadTailProperties
<1>6. /\ s \in Seq(S) /\ Len(s) = Len(w) - 1
      /\ \A i \in 1 .. Len(w) - 1 : s[i] = w[i + 1]
  BY <1>2, <1>3, HeadTailProperties
<1>7. t \in Seq(S) /\ Len(t) = Len(a) - 1 + Len(b) + Len(c)
  BY <1>5, Chained
<1>8. ASSUME NEW i \in 1 .. Len(s)
      PROVE  s[i] = t[i]
  <2>1. i \in 1 .. Len(a) + Len(b) + Len(c) - 1 /\ s[i] = w[i + 1]
    BY <1>2, <1>6
  <2>2. CASE i + 1 <= Len(a)
    <3>1. w[i + 1] = a[i + 1]
      BY <2>1, <2>2, <1>1, Chained
    <3>2. t[i] = Tail(a)[i]
      BY <2>1, <2>2, <1>1, <1>5, Chained
    <3>3. QED BY <3>1, <3>2, <2>1, <2>2, <1>1, <1>5
  <2>3. CASE Len(a) < i + 1 /\ i + 1 <= Len(a) + Len(b)
    <3>1. /\ i + 1 - Len(a) \in 1 .. Len(b)
          /\ i + 1 = Len(a) + (i + 1 - Len(a)) /\ i = Len(Tail(a)) + (i + 1 - Len(a))
      BY <2>1, <2>3, <1>1, <1>5
    <3>2. w[i + 1] = b[i + 1 - Len(a)]
      BY <3>1, Chained
    <3>3. t[i] = b[i + 1 - Len(a)]
      BY <3>1, <1>5, Chained
    <3>4. QED BY <3>2, <3>3, <2>1
  <2>4. CASE Len(a) + Len(b) < i + 1
    <3>1. /\ i + 1 - Len(a) - Len(b) \in 1 .. Len(c)
          /\ i + 1 = Len(a) + Len(b) + (i + 1 - Len(a) - Len(b))
          /\ i = Len(Tail(a)) + Len(b) + (i + 1 - Len(a) - Len(b))
      BY <2>1, <2>4, <1>1, <1>5
    <3>2. w[i + 1] = c[i + 1 - Len(a) - Len(b)]
      BY <3>1, Chained
    <3>3. t[i] = c[i + 1 - Len(a) - Len(b)]
      BY <3>1, <1>5, Chained
    <3>4. QED BY <3>2, <3>3, <2>1
  <2>5. QED BY <2>1, <2>2, <2>3, <2>4, <1>1
<1>9. s = t
  <2>1. Len(s) = Len(t)
    BY <1>1, <1>2, <1>6, <1>7
  <2> HIDE DEF s, t
  <2>2. QED BY <1>6, <1>7, <1>8, <2>1, SeqEqual
<1>10. QED BY <1>3, <1>4, <1>9
-----------------------------------------------------------------------------
(* Targets stay ahead *)

\* A side effect may be put at the end once its target was handled or waits.
LEMMA AppendKeepsTargets ==
  ASSUME NEW s \in Seq(Events), NEW done, NEW e \in Events, TargetAhead(s, done),
         e \in Effects => TargetOf[e] \in done \/ \E j \in 1 .. Len(s) : s[j] = TargetOf[e]
  PROVE  TargetAhead(Append(s, e), done)
<1>1. /\ Len(s) \in Nat /\ Len(Append(s, e)) = Len(s) + 1
      /\ \A i \in 1 .. Len(s) : Append(s, e)[i] = s[i]
      /\ Append(s, e)[Len(s) + 1] = e
  BY Appended
<1>2. SUFFICES ASSUME NEW k \in 1 .. Len(s) + 1, Append(s, e)[k] \in Effects
               PROVE  \/ TargetOf[Append(s, e)[k]] \in done
                      \/ \E j \in 1 .. k - 1 : Append(s, e)[j] = TargetOf[Append(s, e)[k]]
  BY <1>1 DEF TargetAhead
<1>3. CASE k \in 1 .. Len(s)
  <2>1. TargetOf[s[k]] \in done \/ \E j \in 1 .. k - 1 : s[j] = TargetOf[s[k]]
    BY <1>1, <1>2, <1>3 DEF TargetAhead
  <2>2. \A j \in 1 .. k - 1 : j \in 1 .. Len(s)
    BY <1>1, <1>3
  <2>3. QED BY <1>1, <1>3, <2>1, <2>2
<1>4. CASE k = Len(s) + 1
  BY <1>1, <1>2, <1>4
<1>5. QED BY <1>1, <1>3, <1>4

\* A message may be put anywhere: whatever comes after it moves back by one.
LEMMA InsertKeepsTargets ==
  ASSUME NEW a \in Seq(Events), NEW b \in Seq(Events), NEW c \in Seq(Events),
         NEW m \in Events, m \notin Effects, NEW done, TargetAhead(a \o b \o c, done)
  PROVE  TargetAhead(a \o Append(b, m) \o c, done)
<1> DEFINE w == a \o b \o c
           v == a \o Append(b, m) \o c
           n == Len(a) + Len(b)
<1>1. Len(a) \in Nat /\ Len(b) \in Nat /\ Len(c) \in Nat
  BY LenProperties
<1>2. /\ Append(b, m) \in Seq(Events) /\ Len(Append(b, m)) = Len(b) + 1
      /\ \A i \in 1 .. Len(b) : Append(b, m)[i] = b[i]
      /\ Append(b, m)[Len(b) + 1] = m
  BY Appended
<1>3. Len(w) = n + Len(c) /\ Len(v) = n + 1 + Len(c)
  BY <1>1, <1>2, Chained
<1>4. ASSUME NEW i \in 1 .. n
      PROVE  v[i] = w[i]
  <2>1. CASE i <= Len(a)
    BY <2>1, <1>1, <1>2, Chained
  <2>2. CASE Len(a) < i
    <3>1. i - Len(a) \in 1 .. Len(b) /\ i = Len(a) + (i - Len(a))
      BY <2>2, <1>1
    <3>2. w[i] = b[i - Len(a)]
      BY <3>1, Chained
    <3>3. v[i] = Append(b, m)[i - Len(a)]
      BY <3>1, <1>1, <1>2, Chained
    <3>4. QED BY <3>1, <3>2, <3>3, <1>2
  <2>3. QED BY <2>1, <2>2, <1>1
<1>5. v[n + 1] = m
  <2>1. Len(b) + 1 \in 1 .. Len(Append(b, m))
    BY <1>1, <1>2
  <2>2. v[Len(a) + (Len(b) + 1)] = Append(b, m)[Len(b) + 1]
    BY <2>1, <1>2, Chained
  <2>3. QED BY <2>2, <1>1, <1>2
<1>6. ASSUME NEW i \in n + 1 .. n + Len(c)
      PROVE  v[i + 1] = w[i]
  <2>1. /\ i - n \in 1 .. Len(c) /\ i = Len(a) + Len(b) + (i - n)
        /\ i + 1 = Len(a) + Len(Append(b, m)) + (i - n)
    BY <1>1, <1>2
  <2>2. w[i] = c[i - n]
    BY <2>1, Chained
  <2>3. v[i + 1] = c[i - n]
    BY <2>1, <1>2, Chained
  <2>4. QED BY <2>2, <2>3
<1>7. \A k \in 1 .. n + Len(c) :
        w[k] \in Effects => \/ TargetOf[w[k]] \in done
                            \/ \E j \in 1 .. k - 1 : w[j] = TargetOf[w[k]]
  BY <1>3 DEF TargetAhead
<1>8. n \in Nat
  BY <1>1
<1> HIDE DEF n, w, v
<1>9. SUFFICES ASSUME NEW k \in 1 .. n + 1 + Len(c), v[k] \in Effects
               PROVE  \/ TargetOf[v[k]] \in done
                      \/ \E j \in 1 .. k - 1 : v[j] = TargetOf[v[k]]
  BY <1>3 DEF TargetAhead, v
<1>10. CASE k \in 1 .. n
  <2>1. v[k] = w[k] /\ \A j \in 1 .. k - 1 : v[j] = w[j]
    BY <1>10, <1>4, <1>8
  <2>2. k \in 1 .. n + Len(c)
    BY <1>1, <1>10, <1>8
  <2>3. QED BY <2>1, <2>2, <1>7, <1>9
<1>11. CASE k = n + 1
  BY <1>5, <1>9, <1>11
<1>12. CASE k \in n + 2 .. n + 1 + Len(c)
  <2>1. k - 1 \in n + 1 .. n + Len(c) /\ k - 1 \in 1 .. n + Len(c) /\ k - 1 + 1 = k
    BY <1>1, <1>8, <1>12
  <2>2. v[k] = w[k - 1]
    BY <2>1, <1>6
  <2>3. CASE TargetOf[w[k - 1]] \in done
    BY <2>2, <2>3
  <2>4. ASSUME NEW j \in 1 .. k - 1 - 1, w[j] = TargetOf[w[k - 1]]
        PROVE  \E i \in 1 .. k - 1 : v[i] = TargetOf[v[k]]
    <3>1. CASE j <= n
      BY <3>1, <2>1, <2>2, <2>4, <1>4, <1>8
    <3>2. CASE n < j
      <4>1. j \in n + 1 .. n + Len(c) /\ j + 1 \in 1 .. k - 1
        BY <3>2, <2>1, <2>4, <1>1, <1>8
      <4>2. v[j + 1] = w[j]
        BY <4>1, <1>6
      <4>3. QED BY <4>1, <4>2, <2>2, <2>4
    <3>3. QED BY <3>1, <3>2, <1>8, <2>1, <2>4
  <2>5. QED BY <2>1, <2>2, <2>3, <2>4, <1>7, <1>9
<1>13. QED BY <1>1, <1>8, <1>9, <1>10, <1>11, <1>12

\* What is taken counts as handled from then on.
LEMMA TailKeepsTargets ==
  ASSUME NEW s \in Seq(Events), s # <<>>, NEW done, TargetAhead(s, done)
  PROVE  TargetAhead(Tail(s), done \cup {Head(s)})
<1>1. /\ Len(s) \in Nat \ {0} /\ Len(Tail(s)) = Len(s) - 1
      /\ \A i \in 1 .. Len(s) - 1 : Tail(s)[i] = s[i + 1]
  BY HeadTailProperties, EmptySeq
<1>2. SUFFICES ASSUME NEW k \in 1 .. Len(s) - 1, s[k + 1] \in Effects
               PROVE  \/ TargetOf[s[k + 1]] \in done \cup {Head(s)}
                      \/ \E j \in 1 .. k - 1 : Tail(s)[j] = TargetOf[s[k + 1]]
  BY <1>1 DEF TargetAhead
<1>3. \/ TargetOf[s[k + 1]] \in done
      \/ \E j \in 1 .. k : s[j] = TargetOf[s[k + 1]]
  <2>1. k + 1 \in 1 .. Len(s) /\ k + 1 - 1 = k
    BY <1>1
  <2>2. QED BY <2>1, <1>2 DEF TargetAhead
<1>4. ASSUME NEW j \in 1 .. k, s[j] = TargetOf[s[k + 1]]
      PROVE  \/ TargetOf[s[k + 1]] = Head(s)
             \/ \E i \in 1 .. k - 1 : Tail(s)[i] = TargetOf[s[k + 1]]
  <2>1. CASE j = 1
    BY <2>1, <1>1, <1>4
  <2>2. CASE j # 1
    <3>1. j - 1 \in 1 .. k - 1 /\ j - 1 \in 1 .. Len(s) - 1 /\ j - 1 + 1 = j
      BY <2>2, <1>1
    <3>2. Tail(s)[j - 1] = s[j]
      BY <3>1, <1>1
    <3>3. QED BY <3>1, <3>2, <1>4
  <2>3. QED BY <2>1, <2>2
<1>5. QED BY <1>3, <1>4

\* Handling more does no harm.
LEMMA HandledKeepsTargets ==
  ASSUME NEW s, NEW done, NEW more, done \subseteq more, TargetAhead(s, done)
  PROVE  TargetAhead(s, more)
BY DEF TargetAhead
-----------------------------------------------------------------------------
(* Steps *)

QueueStep == [Queue!QueueNext]_(Queue!queue)

\* The three parts are sequences of events, and what is pending is in the chain.
LEMMA WaitingIsTyped ==
  ASSUME TypeOK
  PROVE  /\ tail \in Seq(Events) /\ messageBuffer \in Seq(Events) /\ effectBuffer \in Seq(Events)
         /\ Waiting \in Seq(Events)
         /\ \A x \in Pending : \E j \in 1 .. Len(Waiting) : Waiting[j] = x
<1>1. /\ tail \in Seq(Events) /\ messageBuffer \in Seq(Events) /\ effectBuffer \in Seq(Events)
  BY SeqMonotonic DEF TypeOK, Events
<1>2. Waiting \in Seq(Events)
  BY <1>1, Chained DEF Waiting
<1>3. Len(tail) \in Nat /\ Len(messageBuffer) \in Nat /\ Len(effectBuffer) \in Nat
  BY <1>1, LenProperties
<1>4. Len(Waiting) = Len(tail) + Len(messageBuffer) + Len(effectBuffer)
  BY <1>1, Chained DEF Waiting
<1>5. ASSUME NEW x \in ToSet(tail)
      PROVE  \E j \in 1 .. Len(Waiting) : Waiting[j] = x
  <2>1. PICK i \in 1 .. Len(tail) : x = tail[i]
    BY <1>1, <1>5, LenProperties DEF ToSet
  <2>2. i \in 1 .. Len(Waiting) /\ Waiting[i] = x
    BY <2>1, <1>1, <1>3, <1>4, Chained DEF Waiting
  <2>3. QED BY <2>2
<1>6. ASSUME NEW x \in ToSet(messageBuffer)
      PROVE  \E j \in 1 .. Len(Waiting) : Waiting[j] = x
  <2>1. PICK i \in 1 .. Len(messageBuffer) : x = messageBuffer[i]
    BY <1>1, <1>6, LenProperties DEF ToSet
  <2>2. Len(tail) + i \in 1 .. Len(Waiting)
    BY <1>3, <1>4
  <2>3. Waiting[Len(tail) + i] = x
    BY <2>1, <1>1, Chained DEF Waiting
  <2>4. QED BY <2>2, <2>3
<1>7. ASSUME NEW x \in ToSet(effectBuffer)
      PROVE  \E j \in 1 .. Len(Waiting) : Waiting[j] = x
  <2>1. PICK i \in 1 .. Len(effectBuffer) : x = effectBuffer[i]
    BY <1>1, <1>7, LenProperties DEF ToSet
  <2>2. Len(tail) + Len(messageBuffer) + i \in 1 .. Len(Waiting)
    BY <1>3, <1>4
  <2>3. Waiting[Len(tail) + Len(messageBuffer) + i] = x
    BY <2>1, <1>1, Chained DEF Waiting
  <2>4. QED BY <2>2, <2>3
<1>8. QED BY <1>1, <1>2, <1>5, <1>6, <1>7 DEF Pending

\* A page starts with nothing to handle.
LEMMA InitEstablishesIInv == Init => IInv
<1> SUFFICES ASSUME Init PROVE IInv
  OBVIOUS
<1>1. TypeOK
  <2>1. /\ consumer \in Layouts \cup {NoLayout} /\ mounted \subseteq Layouts
        /\ handling = FALSE
    BY DEF Init
  <2>2. failures \in 0 .. MaxFailures /\ generation \in 0 .. MaxGeneration
    BY BridgeAssumption DEF Init
  <2>3. messageBuffer \in Seq(Messages) /\ effectBuffer \in Seq(Effects) /\ tail \in Seq(Events)
    BY EmptySeq DEF Init
  <2>4. /\ client \in Inboxes \cup {NoInbox} /\ identity \in Inboxes \cup {NoInbox}
        /\ namespace \in Inboxes
        /\ stored \in [Inboxes -> SUBSET Events] /\ handled \subseteq Events
    BY DEF Init
  <2>5. switching \in [step : SwitchSteps, from : Inboxes \cup {NoInbox},
                       to : Inboxes \cup {NoInbox}]
    BY DEF Init, NotSwitching, SwitchSteps
  <2>6. QED BY <2>1, <2>2, <2>3, <2>4, <2>5 DEF TypeOK
<1>2. BuffersServeNobody /\ SwitchJoinsInboxes
  BY DEF Init, BuffersServeNobody, SwitchJoinsInboxes, NotSwitching
<1>3. Waiting = <<>>
  BY EmptySeq, ConcatEmptySeq DEF Init, Waiting
<1>4. TargetAhead(Waiting, handled)
  BY <1>3 DEF TargetAhead
<1>5. QED BY <1>1, <1>2, <1>4 DEF IInv

\* An event that comes while somebody listens, or a side effect: the end of the chain.
\* A message that comes while nobody does: the end of the messages.
LEMMA DispatchKeepsIInv ==
  ASSUME IInv, NEW e \in Events, Dispatch(e), e \in Effects => TargetOf[e] \in Pending \cup handled,
         UNCHANGED <<consumer, mounted, handling, failures, generation, session, stored, handled>>
  PROVE  IInv' /\ QueueStep
<1>1. /\ tail \in Seq(Events) /\ messageBuffer \in Seq(Events) /\ effectBuffer \in Seq(Events)
      /\ Waiting \in Seq(Events)
      /\ \A x \in Pending : \E j \in 1 .. Len(Waiting) : Waiting[j] = x
  BY WaitingIsTyped DEF IInv
<1>2. /\ TypeOK /\ SwitchJoinsInboxes /\ BuffersServeNobody /\ TargetAhead(Waiting, handled)
      /\ Dispatch(e) /\ (e \in Effects => TargetOf[e] \in Pending \cup handled)
      /\ UNCHANGED <<consumer, mounted, handling, failures, generation, session, stored, handled>>
  BY DEF IInv
<1>3. e \in Messages \/ e \in Effects
  BY DEF Events
<1>4. ASSUME Waiting' = Append(Waiting, e), TypeOK', BuffersServeNobody'
      PROVE  IInv' /\ QueueStep
  <2>1. e \in Effects => TargetOf[e] \in handled \/ \E j \in 1 .. Len(Waiting) : Waiting[j] = TargetOf[e]
    BY <1>1, <1>2
  <2>2. TargetAhead(Append(Waiting, e), handled)
    BY <1>1, <1>2, <2>1, AppendKeepsTargets
  <2>3. IInv'
    BY <1>2, <1>4, <2>2 DEF IInv, SwitchJoinsInboxes, session
  <2>4. Queue!Arrive(e)
    BY <1>2, <1>4, <2>1 DEF Queue!Arrive, Queue!Known, Waiting
  <2>5. QueueStep
    BY <1>3, <2>4 DEF QueueStep, Queue!QueueNext
  <2>6. QED BY <2>3, <2>5
<1>5. CASE consumer # NoLayout /\ tail' = Append(tail, e) /\ UNCHANGED <<messageBuffer, effectBuffer>>
  <2>1. messageBuffer = <<>> /\ effectBuffer = <<>>
    BY <1>2, <1>5 DEF BuffersServeNobody
  <2>2. Append(tail, e) \in Seq(Events) /\ Append(tail, e) # <<>>
    <3>1. Append(tail, e) \in Seq(Events) /\ Len(Append(tail, e)) = Len(tail) + 1 /\ Len(tail) \in Nat
      BY <1>1, Appended
    <3>2. Len(Append(tail, e)) # 0
      BY <3>1
    <3>3. QED BY <3>1, <3>2, EmptySeq
  <2>3. Waiting' = Append(Waiting, e)
    BY <1>1, <1>5, <2>1, <2>2, ChainedAlone DEF Waiting
  <2>4. TypeOK'
    BY <1>2, <1>5, <2>2 DEF TypeOK, session
  <2>5. BuffersServeNobody'
    BY <1>2, <1>5, <2>1 DEF BuffersServeNobody
  <2>6. QED BY <1>4, <2>3, <2>4, <2>5
<1>6. CASE consumer = NoLayout /\ e \in Effects
           /\ effectBuffer' = Append(effectBuffer, e) /\ UNCHANGED <<tail, messageBuffer>>
  <2>1. Waiting' = Append(Waiting, e)
    BY <1>1, <1>6, ChainedAppend DEF Waiting
  <2>2. Append(effectBuffer, e) \in Seq(Effects)
    BY <1>2, <1>6 DEF TypeOK
  <2>3. TypeOK'
    BY <1>2, <1>6, <2>2 DEF TypeOK, session
  <2>4. BuffersServeNobody'
    BY <1>2, <1>6 DEF BuffersServeNobody
  <2>5. QED BY <1>4, <2>1, <2>3, <2>4
<1>7. CASE consumer = NoLayout /\ e \in Messages
           /\ UNCHANGED <<messageBuffer, tail, effectBuffer>>
  <2>1. Waiting' = Waiting
    BY <1>7 DEF Waiting
  <2>2. IInv'
    BY <1>2, <1>7, <2>1 DEF IInv, TypeOK, SwitchJoinsInboxes, BuffersServeNobody, session
  <2>3. UNCHANGED Queue!queue
    BY <1>2, <1>7 DEF Queue!queue
  <2>4. QED BY <2>2, <2>3 DEF QueueStep
<1>8. CASE consumer = NoLayout /\ e \in Messages
           /\ messageBuffer' = Append(messageBuffer, e) /\ UNCHANGED <<tail, effectBuffer>>
  <2>1. Append(messageBuffer, e) \in Seq(Messages)
    BY <1>2, <1>8 DEF TypeOK
  <2>2. TypeOK' /\ BuffersServeNobody'
    BY <1>2, <1>8, <2>1 DEF TypeOK, BuffersServeNobody, session
  <2>3. e \notin Effects
    BY <1>8, EventAssumption
  <2>4. TargetAhead(tail \o Append(messageBuffer, e) \o effectBuffer, handled)
    BY <1>1, <1>2, <2>3, InsertKeepsTargets DEF Waiting
  <2>5. IInv'
    BY <1>2, <1>8, <2>2, <2>4 DEF IInv, SwitchJoinsInboxes, Waiting, session
  <2> DEFINE k == Len(tail) + Len(messageBuffer)
  <2>6. /\ k \in 0 .. Len(Waiting)
        /\ tail \o Append(messageBuffer, e) \o effectBuffer
             = Append(SubSeq(Waiting, 1, k), e) \o SubSeq(Waiting, k + 1, Len(Waiting))
        /\ \A j \in k + 1 .. Len(Waiting) : Waiting[j] = effectBuffer[j - k]
        /\ \A j \in k + 1 .. Len(Waiting) : j - k \in 1 .. Len(effectBuffer)
    BY <1>1, Inserted DEF Waiting
  <2>7. \A j \in k + 1 .. Len(Waiting) : Waiting[j] \in Effects
    BY <1>2, <2>6, ElementOfSeq DEF TypeOK
  <2>8. /\ k \in 0 .. Len(Waiting)
        /\ \A j \in k + 1 .. Len(Waiting) : Waiting[j] \in Effects
        /\ Waiting' = Append(SubSeq(Waiting, 1, k), e) \o SubSeq(Waiting, k + 1, Len(Waiting))
    BY <1>8, <2>6, <2>7 DEF Waiting
  <2> HIDE DEF k
  <2>9. Queue!Pass(e)
    BY <1>2, <1>8, <2>8 DEF Queue!Pass, Waiting
  <2>10. QueueStep
    BY <1>8, <2>9 DEF QueueStep, Queue!QueueNext
  <2>11. QED BY <2>5, <2>10
<1>9. QED BY <1>2, <1>3, <1>5, <1>6, <1>7, <1>8 DEF Dispatch

\* Decoding dispatches an event of the connected inbox.
LEMMA DecodeKeepsIInv ==
  ASSUME IInv, NEW e \in Events, Decode(e)
  PROVE  IInv' /\ QueueStep
BY DispatchKeepsIInv DEF Decode

\* Registration moves the buffers to the tail, where they are in the chain already.
LEMMA MountKeepsIInv ==
  ASSUME IInv, NEW l \in Layouts, Mount(l)
  PROVE  IInv' /\ QueueStep
<1>1. /\ tail \in Seq(Events) /\ messageBuffer \in Seq(Events) /\ effectBuffer \in Seq(Events)
      /\ Waiting \in Seq(Events)
  BY WaitingIsTyped DEF IInv
<1>2. /\ tail' = Waiting /\ messageBuffer' = <<>> /\ effectBuffer' = <<>>
  BY DEF Mount, Drain, Waiting
<1>3. Waiting' = Waiting
  BY <1>1, <1>2, ChainedAlone DEF Waiting
<1>4. handling => Waiting # <<>>
  BY <1>1, ConcatEqualIffEmpty, ConcatProperties DEF IInv, TypeOK, Waiting
<1>5. TypeOK'
  BY <1>1, <1>2, <1>4, BridgeAssumption, EmptySeq DEF IInv, TypeOK, Mount, session
<1>6. BuffersServeNobody'
  BY <1>2 DEF BuffersServeNobody
<1>7. IInv'
  BY <1>3, <1>5, <1>6 DEF IInv, SwitchJoinsInboxes, Mount, session
<1>8. Queue!Listen
  BY <1>3 DEF Queue!Listen, Waiting, Mount
<1>9. QED BY <1>7, <1>8 DEF QueueStep, Queue!QueueNext

\* A cleanup opens or closes the queue and moves nothing.
LEMMA UnmountKeepsIInv ==
  ASSUME IInv, NEW l \in Layouts, Unmount(l)
  PROVE  IInv' /\ QueueStep
<1>1. Waiting' = Waiting /\ UNCHANGED handled
  BY DEF Unmount, Waiting
<1>2. TypeOK'
  BY BridgeAssumption DEF IInv, TypeOK, Unmount, session
<1>3. BuffersServeNobody'
  BY DEF IInv, BuffersServeNobody, Unmount
<1>4. IInv'
  BY <1>1, <1>2, <1>3 DEF IInv, SwitchJoinsInboxes, Unmount, session
<1>5. Queue!Listen
  BY <1>1 DEF Queue!Listen, Waiting
<1>6. QED BY <1>4, <1>5 DEF QueueStep, Queue!QueueNext

\* The end of a handler, however it ends, takes the head of the chain.
LEMMA NextWorkTakes ==
  ASSUME IInv, tail # <<>>, NextWork, UNCHANGED <<consumer, messageBuffer, effectBuffer>>
  PROVE  /\ tail' \in Seq(Events) /\ handled' \subseteq Events
         /\ BuffersServeNobody' /\ TargetAhead(Waiting, handled)'
         /\ QueueStep
<1>1. /\ tail \in Seq(Events) /\ messageBuffer \in Seq(Events) /\ effectBuffer \in Seq(Events)
      /\ Waiting \in Seq(Events)
  BY WaitingIsTyped DEF IInv
<1>2. Waiting # <<>> /\ Head(Waiting) = Head(tail)
      /\ Tail(Waiting) = Tail(tail) \o messageBuffer \o effectBuffer
  BY <1>1, ChainedTail DEF Waiting
<1>3. Waiting' = Tail(Waiting) /\ handled' = handled \cup {Head(Waiting)}
  BY <1>2 DEF NextWork, Waiting
<1>4. tail' \in Seq(Events) /\ handled' \subseteq Events
  BY <1>1, HeadTailProperties DEF NextWork, IInv, TypeOK
<1>5. BuffersServeNobody'
  BY DEF IInv, BuffersServeNobody
<1>6. TargetAhead(Waiting, handled)'
  <2>1. TargetAhead(Tail(Waiting), handled \cup {Head(Waiting)})
    BY <1>1, <1>2, TailKeepsTargets DEF IInv
  <2>2. QED BY <1>3, <2>1
<1>7. Queue!Take
  BY <1>2, <1>3 DEF Queue!Take, Waiting
<1>8. QED BY <1>4, <1>5, <1>6, <1>7 DEF QueueStep, Queue!QueueNext

\* A handler skips, starts, stores or fails.
LEMMA HandleKeepsIInv ==
  ASSUME IInv, Handle
  PROVE  IInv' /\ QueueStep
<1>1. CASE SkipSuperseded
  <2>1. /\ tail' \in Seq(Events) /\ handled' \subseteq Events
        /\ BuffersServeNobody' /\ TargetAhead(Waiting, handled)' /\ QueueStep
    BY <1>1, NextWorkTakes DEF SkipSuperseded
  <2>2. TypeOK'
    BY <1>1, <2>1 DEF IInv, TypeOK, SkipSuperseded, NextWork, session
  <2>3. QED BY <1>1, <2>1, <2>2 DEF IInv, SwitchJoinsInboxes, SkipSuperseded, session
<1>2. CASE StartHandling
  <2>1. IInv'
    BY <1>2 DEF IInv, TypeOK, SwitchJoinsInboxes, BuffersServeNobody, Waiting, TargetAhead,
                StartHandling, session
  <2>2. UNCHANGED Queue!queue
    BY <1>2 DEF StartHandling, Queue!queue
  <2>3. QED BY <2>1, <2>2 DEF QueueStep
<1>3. CASE HandlerStores
  <2>1. /\ tail # <<>> /\ Head(tail) \in Events
    BY <1>3, WaitingIsTyped, HeadTailProperties DEF IInv, TypeOK, HandlerStores
  <2>2. /\ tail' \in Seq(Events) /\ handled' \subseteq Events
        /\ BuffersServeNobody' /\ TargetAhead(Waiting, handled)' /\ QueueStep
    BY <1>3, <2>1, NextWorkTakes DEF HandlerStores
  <2>3. stored' \in [Inboxes -> SUBSET Events]
    BY <1>3, <2>1 DEF IInv, TypeOK, HandlerStores
  <2>4. TypeOK'
    BY <1>3, <2>2, <2>3 DEF IInv, TypeOK, HandlerStores, NextWork, session
  <2>5. QED BY <1>3, <2>2, <2>4 DEF IInv, SwitchJoinsInboxes, HandlerStores, session
<1>4. CASE HandlerFails
  <2>1. tail # <<>>
    BY <1>4 DEF IInv, TypeOK, HandlerFails
  <2>2. /\ tail' \in Seq(Events) /\ handled' \subseteq Events
        /\ BuffersServeNobody' /\ TargetAhead(Waiting, handled)' /\ QueueStep
    BY <1>4, <2>1, NextWorkTakes DEF HandlerFails
  <2>3. failures' \in 0 .. MaxFailures
    BY <1>4, BridgeAssumption DEF IInv, TypeOK, HandlerFails
  <2>4. TypeOK'
    BY <1>4, <2>2, <2>3 DEF IInv, TypeOK, HandlerFails, NextWork, session
  <2>5. QED BY <1>4, <2>2, <2>4 DEF IInv, SwitchJoinsInboxes, HandlerFails, session
<1>5. QED BY <1>1, <1>2, <1>3, <1>4 DEF Handle

\* Adding an inbox leaves the bridge alone.
LEMMA AddInboxKeepsIInv ==
  ASSUME IInv, AddInbox
  PROVE  IInv' /\ QueueStep
<1>1. UNCHANGED <<bridge, stored, handled>>
  BY DEF AddInbox, BeginAddInbox, DisconnectPrevious, InstallationReady, BindNamespace,
         ActivateNew, RestoreNamespace, RestoreSession
<1>2. /\ TypeOK /\ SwitchJoinsInboxes
      /\ SwitchSteps = {"none", "forgotten", "disconnected", "identified", "bound", "restoring"}
  BY DEF IInv, SwitchSteps
<1> DEFINE Switched ==
      /\ client' \in Inboxes \cup {NoInbox} /\ identity' \in Inboxes \cup {NoInbox}
      /\ namespace' \in Inboxes
      /\ switching' \in [step : SwitchSteps, from : Inboxes \cup {NoInbox},
                          to : Inboxes \cup {NoInbox}]
      /\ SwitchJoinsInboxes'
<1>3. Switched
  <2>1. CASE \E i \in Inboxes : BeginAddInbox(i)
    BY <1>2, <2>1 DEF TypeOK, SwitchJoinsInboxes, BeginAddInbox
  <2>2. CASE DisconnectPrevious
    BY <1>2, <2>2 DEF TypeOK, SwitchJoinsInboxes, DisconnectPrevious, Move
  <2>3. CASE InstallationReady
    BY <1>2, <2>3 DEF TypeOK, SwitchJoinsInboxes, InstallationReady, Move
  <2>4. CASE BindNamespace
    BY <1>2, <2>4 DEF TypeOK, SwitchJoinsInboxes, BindNamespace, Move
  <2>5. CASE RestoreNamespace
    BY <1>2, <2>5 DEF TypeOK, SwitchJoinsInboxes, RestoreNamespace, Move
  <2>6. CASE ActivateNew
    BY <1>2, <2>6 DEF TypeOK, SwitchJoinsInboxes, ActivateNew, NotSwitching
  <2>7. CASE RestoreSession
    BY <1>2, <2>7 DEF TypeOK, SwitchJoinsInboxes, RestoreSession, NotSwitching
  <2>8. QED BY <2>1, <2>2, <2>3, <2>4, <2>5, <2>6, <2>7 DEF AddInbox
<1>4. IInv'
  BY <1>1, <1>2, <1>3 DEF IInv, TypeOK, BuffersServeNobody, Waiting, TargetAhead, bridge
<1>5. UNCHANGED Queue!queue
  BY <1>1 DEF bridge, Queue!queue
<1>6. QED BY <1>4, <1>5 DEF QueueStep

\* A reload forgets everything that waits.
LEMMA ReloadKeepsIInv ==
  ASSUME IInv, Reload
  PROVE  IInv' /\ QueueStep
<1>1. Waiting' = <<>>
  BY EmptySeq, ConcatEmptySeq DEF Reload, Waiting
<1>2. TypeOK' /\ SwitchJoinsInboxes'
  <2>1. /\ consumer' \in Layouts \cup {NoLayout} /\ mounted' \subseteq Layouts
        /\ handling' = FALSE
    BY DEF Reload
  <2>2. failures' \in 0 .. MaxFailures /\ generation' \in 0 .. MaxGeneration
    BY BridgeAssumption DEF Reload
  <2>3. messageBuffer' \in Seq(Messages) /\ effectBuffer' \in Seq(Effects) /\ tail' \in Seq(Events)
    BY EmptySeq DEF Reload
  <2>4. switching' = [step |-> "none", from |-> NoInbox, to |-> NoInbox] /\ "none" \in SwitchSteps
    BY DEF Reload, NotSwitching, SwitchSteps
  <2>5. SwitchJoinsInboxes'
    BY <2>4 DEF SwitchJoinsInboxes
  <2>6. TypeOK'
    <3>1. /\ client' \in Inboxes \cup {NoInbox} /\ identity' \in Inboxes \cup {NoInbox}
          /\ namespace' \in Inboxes
          /\ stored' \in [Inboxes -> SUBSET Events] /\ handled' \subseteq Events
      BY DEF IInv, TypeOK, Reload
    <3>2. switching' \in [step : SwitchSteps, from : Inboxes \cup {NoInbox},
                         to : Inboxes \cup {NoInbox}]
      BY <2>4
    <3>3. QED BY <2>1, <2>2, <2>3, <3>1, <3>2 DEF TypeOK
  <2>7. QED BY <2>5, <2>6
<1>3. BuffersServeNobody'
  BY DEF Reload, BuffersServeNobody
<1>4. TargetAhead(Waiting, handled)'
  BY <1>1 DEF TargetAhead
<1>5. Queue!Forget
  BY <1>1 DEF Queue!Forget, Reload, Waiting
<1>6. QED BY <1>2, <1>3, <1>4, <1>5 DEF IInv, QueueStep, Queue!QueueNext

\* Every step keeps the invariant and is a step of the queue.
LEMMA NextKeepsIInv == IInv /\ [Next]_vars => IInv' /\ QueueStep
<1> SUFFICES ASSUME IInv, [Next]_vars PROVE IInv' /\ QueueStep
  OBVIOUS
<1>1. CASE \E e \in Events : Decode(e)
  BY <1>1, DecodeKeepsIInv
<1>2. CASE \E l \in Layouts : Mount(l) \/ Unmount(l)
  BY <1>2, MountKeepsIInv, UnmountKeepsIInv
<1>3. CASE Handle
  BY <1>3, HandleKeepsIInv
<1>4. CASE AddInbox
  BY <1>4, AddInboxKeepsIInv
<1>5. CASE Reload
  BY <1>5, ReloadKeepsIInv
<1>6. CASE UNCHANGED vars
  <2>1. IInv'
    BY <1>6 DEF IInv, TypeOK, SwitchJoinsInboxes, BuffersServeNobody, TargetAhead, Waiting,
                vars, bridge, session
  <2>2. UNCHANGED Queue!queue
    BY <1>6 DEF vars, bridge, Queue!queue
  <2>3. QED BY <2>1, <2>2 DEF QueueStep
<1>7. QED BY <1>1, <1>2, <1>3, <1>4, <1>5, <1>6 DEF Next

\* The page starts where the queue starts.
LEMMA InitIsQueueInit == Init => Queue!QueueInit
<1> SUFFICES ASSUME Init PROVE Queue!QueueInit
  OBVIOUS
<1>1. tail \o messageBuffer \o effectBuffer = <<>>
  BY EmptySeq, ConcatEmptySeq DEF Init
<1>2. (consumer # NoLayout) = FALSE /\ handled = {}
  BY DEF Init
<1>3. QED BY <1>1, <1>2 DEF Queue!QueueInit

\* The inductive invariant holds of every reachable state.
THEOREM Invariance == Spec => []IInv
<1>1. Init => IInv
  BY InitEstablishesIInv
<1>2. IInv /\ [Next]_vars => IInv'
  BY NextKeepsIInv
<1>3. QED BY <1>1, <1>2, PTL DEF Spec

\* Every variable of the bridge and of the session keeps its type.
THEOREM TypeCorrect == Spec => []TypeOK
<1>1. IInv => TypeOK
  BY DEF IInv
<1>2. QED BY <1>1, Invariance, PTL

\* A side effect never reaches its handler before the message it is about, for any
\* number of events, Layouts, inboxes, failures, remounts and inbox additions.
THEOREM EffectsAreInOrder == Spec => []EffectsFollowTargets
<1>1. IInv => EffectsFollowTargets
  <2> SUFFICES ASSUME IInv, tail # <<>>, Head(tail) \in Effects
               PROVE  TargetOf[Head(tail)] \in handled
    BY DEF EffectsFollowTargets
  <2>1. /\ tail \in Seq(Events) /\ messageBuffer \in Seq(Events) /\ effectBuffer \in Seq(Events)
        /\ Waiting \in Seq(Events)
    BY WaitingIsTyped DEF IInv
  <2>2. Waiting # <<>> /\ Head(Waiting) = Head(tail)
    BY <2>1, ChainedTail DEF Waiting
  <2>3. 1 \in 1 .. Len(Waiting) /\ Waiting[1] = Head(tail)
    BY <2>1, <2>2, EmptySeq
  <2>4. ~ \E j \in 1 .. 1 - 1 : Waiting[j] = TargetOf[Waiting[1]]
    OBVIOUS
  <2>5. QED BY <2>3, <2>4 DEF IInv, TargetAhead
<1>2. QED BY <1>1, Invariance, PTL

\* Tail, buffers, registrations, remounts and stale cleanups implement one queue:
\* every step of the bridge is a step of EventQueue or leaves it alone.
THEOREM BridgeImplementsQueue == Spec => BridgeIsAQueue
<1>1. Init => Queue!QueueInit
  BY InitIsQueueInit
<1>2. IInv /\ [Next]_vars => [Queue!QueueNext]_(Queue!queue)
  BY NextKeepsIInv DEF QueueStep
<1>3. QED BY <1>1, <1>2, Invariance, PTL DEF Spec, BridgeIsAQueue, Queue!QueueSpec

-----------------------------------------------------------------------------
(* History recovery: its inductive invariant *)

\* What a recovery is made of.
Recoveries ==
  [phase : Phases, mode : Modes, conv : Conversations \cup {NoConversation},
   todo : SUBSET Conversations, queue : Seq(Messages), synced : BOOLEAN,
   behind : Nat, failed : BOOLEAN, generation : Nat, failures : Nat,
   begunAt : Nat, syncedAt : Nat]

WorldTyped ==
  /\ clock \in 0 .. MaxClock /\ Lookback < clock
  /\ sentAt \in [Messages -> 0 .. clock] /\ device \subseteq {m \in Messages : Sent(m)}
  /\ checkpoint \in [Conversations -> 0 .. clock]
  /\ marker \in BOOLEAN /\ repairPending = ~marker

RecoveryTyped ==
  /\ recovery \in Recoveries
  /\ recovery.behind <= Len(tail)
  /\ recovery.phase \in {"idle", "next", "sync", "fetch"} => recovery.behind = 0

\* A recovery has a conversation between taking it up and leaving it, and
\* leaves none behind.
ConversationAgrees ==
  /\ IF recovery.phase \in {"idle", "next", "finish"} THEN recovery.conv = NoConversation
     ELSE recovery.conv \in Conversations
  /\ recovery.phase = "finish" => recovery.todo = {}

\* Only a repaired inbox reads recent history alone.
RecentIsRepaired == recovery.mode = "recent" => marker

\* The two counters only grow, so a repair whose generation is still the
\* current one has had its Layout all along.
CountersGrow ==
  /\ recovery.generation <= generation /\ recovery.failures <= failures
  /\ recovery.mode = "repair" /\ recovery.generation = generation => consumer # NoLayout

\* A conversation is synced after the recovery began and before now; without
\* a sync that succeeded the recovery has failed and there is no checkpoint.
SyncIsDated ==
  /\ recovery.begunAt <= clock
  /\ Syncing => recovery.begunAt <= recovery.syncedAt /\ recovery.syncedAt <= clock
  /\ Syncing /\ ~recovery.synced => recovery.failed
  /\ recovery.phase = "stamp" => recovery.synced

\* A repair that nothing has spoiled yet.
Held ==
  /\ recovery.mode = "repair" /\ ~recovery.failed
  /\ recovery.generation = generation /\ recovery.failures = failures

\* The messages in the window when the conversation was synced.
Due(m) ==
  /\ ConvOf[m] = recovery.conv /\ Sent(m) /\ sentAt[m] < recovery.syncedAt
  /\ InWindow(m)

Queued == ToSet(recovery.queue) \cup ToSet(tail) \cup ToSet(messageBuffer)
Awaited == {tail[i] : i \in 1 .. recovery.behind}

\* The recovery has every such message in hand, or it is done.
Tracks(done) ==
  \A m \in Messages : Due(m) =>
    /\ recovery.phase = "fetch" /\ recovery.synced => m \in device
    /\ recovery.phase = "replay" /\ recovery.synced => m \in Queued \cup done
    /\ recovery.phase = "stamp" => m \in Awaited \cup done

WindowIsTracked == Tracks(Present \cup handled) /\ (Held => Tracks(Present))

\* The page has not slept since the sync.
Awake == ~PageFreezes /\ Syncing => clock < recovery.syncedAt + Lookback

Visited == Conversations \ (recovery.todo \cup {recovery.conv})

\* A message of c that nobody has seen is inside the next window.
Covered(c) ==
  \A m \in Messages :
    ConvOf[m] = c /\ Sent(m) /\ m \notin Present \cup handled => Reread(m)

GapsAreCovered ==
  ~PageFreezes => /\ marker => \A c \in Conversations : Covered(c)
                  /\ Held => \A c \in Visited : Covered(c)

\* What was sent before an unspoilt repair began is stored, as far as it got.
RepairIsHonest ==
  Held => \A m \in Messages :
            ConvOf[m] \in Visited /\ Sent(m) /\ sentAt[m] < recovery.begunAt => m \in Present

\* The inductive invariant, on top of the bridge's.
RInv ==
  /\ IInv /\ WorldTyped /\ RecoveryTyped /\ ConversationAgrees /\ RecentIsRepaired
  /\ CountersGrow
  /\ SyncIsDated /\ WindowIsTracked /\ Awake /\ GapsAreCovered /\ RepairIsHonest
-----------------------------------------------------------------------------
(* The bridge under a recovery *)

\* What arrivals, Layouts and starting handlers have in common: everything
\* that waits goes on waiting, the tail keeps its order, nothing is written,
\* and a change of consumer is a new generation.
BridgeGrows ==
  /\ ToSet(tail) \cup ToSet(messageBuffer) \subseteq (ToSet(tail) \cup ToSet(messageBuffer))'
  /\ Len(tail) <= Len(tail') /\ \A i \in 1 .. Len(tail) : tail'[i] = tail[i]
  /\ generation <= generation' /\ (generation' = generation => consumer' = consumer)
  /\ UNCHANGED <<failures, namespace, stored, handled>>

\* What is appended is in the sequence with the rest.
LEMMA AppendedSet ==
  ASSUME NEW S, NEW s \in Seq(S), NEW e \in S
  PROVE  ToSet(s) \cup {e} \subseteq ToSet(Append(s, e))
<1>1. /\ Append(s, e) \in Seq(S) /\ Len(Append(s, e)) = Len(s) + 1 /\ Len(s) \in Nat
      /\ \A i \in 1 .. Len(s) : Append(s, e)[i] = s[i]
      /\ Append(s, e)[Len(s) + 1] = e
  BY Appended
<1>2. DOMAIN s = 1 .. Len(s) /\ DOMAIN Append(s, e) = 1 .. Len(s) + 1
  BY <1>1
<1>3. ASSUME NEW i \in 1 .. Len(s) PROVE s[i] \in ToSet(Append(s, e))
  BY <1>1, <1>2 DEF ToSet
<1>4. e \in ToSet(Append(s, e))
  BY <1>1, <1>2 DEF ToSet
<1>5. QED BY <1>2, <1>3, <1>4 DEF ToSet

\* A dispatched message waits in the tail or in the buffer.
LEMMA DispatchGrows ==
  ASSUME IInv, NEW e \in Messages, Dispatch(e),
         UNCHANGED <<consumer, failures, generation, session, stored, handled>>
  PROVE  BridgeGrows /\ e \in (ToSet(tail) \cup ToSet(messageBuffer))'
<1>1. /\ tail \in Seq(Events) /\ messageBuffer \in Seq(Messages) /\ e \in Events
      /\ generation \in Nat /\ UNCHANGED namespace
  BY DEF IInv, TypeOK, Events, session
<1>2. e \notin Effects
  BY EventAssumption
<1>3. CASE consumer # NoLayout /\ tail' = Append(tail, e) /\ UNCHANGED messageBuffer
  <2>1. /\ Len(tail') = Len(tail) + 1 /\ Len(tail) \in Nat
        /\ \A i \in 1 .. Len(tail) : tail'[i] = tail[i]
        /\ tail'[Len(tail) + 1] = e
    BY <1>1, <1>3, Appended
  <2>2. ToSet(tail) \subseteq ToSet(tail)' /\ e \in ToSet(tail)'
    BY <1>1, <1>3, AppendedSet
  <2>3. QED BY <1>1, <1>3, <2>1, <2>2 DEF BridgeGrows
<1>4. CASE /\ UNCHANGED tail
           /\ messageBuffer' = IF e \in ToSet(messageBuffer) THEN messageBuffer
                               ELSE Append(messageBuffer, e)
  <2>1. ToSet(messageBuffer) \subseteq ToSet(messageBuffer)' /\ e \in ToSet(messageBuffer)'
    <3>1. CASE e \in ToSet(messageBuffer)
      BY <1>4, <3>1
    <3>2. CASE e \notin ToSet(messageBuffer)
      BY <1>1, <1>4, <3>2, AppendedSet
    <3>3. QED BY <3>1, <3>2
  <2>2. Len(tail) \in Nat
    BY <1>1
  <2>3. QED BY <1>1, <1>4, <2>1, <2>2 DEF BridgeGrows
<1>5. QED BY <1>2, <1>3, <1>4 DEF Dispatch

\* Layouts come, and what was buffered joins the tail, or go.
LEMMA LayoutsGrow ==
  ASSUME IInv, NEW l \in Layouts, Mount(l) \/ Unmount(l)
  PROVE  BridgeGrows
<1>1. /\ tail \in Seq(Events) /\ messageBuffer \in Seq(Events) /\ effectBuffer \in Seq(Events)
      /\ generation \in Nat
  BY WaitingIsTyped DEF IInv, TypeOK
<1>2. CASE Mount(l)
  <2>1. /\ tail' = tail \o messageBuffer \o effectBuffer /\ generation' = generation + 1
        /\ UNCHANGED <<failures, namespace, stored, handled>>
    BY <1>2 DEF Mount, Drain, session
  <2>2. /\ tail' \in Seq(Events)
        /\ Len(tail') = Len(tail) + Len(messageBuffer) + Len(effectBuffer)
        /\ \A i \in 1 .. Len(tail) : tail'[i] = tail[i]
        /\ \A i \in 1 .. Len(messageBuffer) : tail'[Len(tail) + i] = messageBuffer[i]
    BY <1>1, <2>1, Chained
  <2>3. Len(tail) \in Nat /\ Len(messageBuffer) \in Nat /\ Len(effectBuffer) \in Nat
    BY <1>1
  <2>4. ToSet(tail) \subseteq ToSet(tail)' /\ ToSet(messageBuffer) \subseteq ToSet(tail)'
    <3>1. \A i \in 1 .. Len(tail) : tail[i] \in ToSet(tail)'
      BY <2>2, <2>3 DEF ToSet
    <3>2. \A i \in 1 .. Len(messageBuffer) : messageBuffer[i] \in ToSet(tail)'
      BY <2>2, <2>3 DEF ToSet
    <3>3. QED BY <1>1, <3>1, <3>2 DEF ToSet
  <2>5. generation <= generation' /\ generation' # generation
    BY <1>1, <2>1
  <2>6. QED BY <2>1, <2>2, <2>3, <2>4, <2>5 DEF BridgeGrows
<1>3. CASE Unmount(l)
  <2>1. Len(tail) \in Nat
    BY <1>1
  <2>2. QED BY <1>1, <1>3, <2>1 DEF BridgeGrows, Unmount, session
<1>4. QED BY <1>2, <1>3

\* A sequence is its tail and its head.
LEMMA TailSet ==
  ASSUME NEW S, NEW s \in Seq(S), s # <<>>
  PROVE  /\ Len(s) \in Nat \ {0} /\ Tail(s) \in Seq(S) /\ Len(Tail(s)) = Len(s) - 1
         /\ \A i \in 1 .. Len(s) - 1 : Tail(s)[i] = s[i + 1]
         /\ ToSet(s) \subseteq ToSet(Tail(s)) \cup {Head(s)}
<1>1. /\ Len(s) \in Nat \ {0} /\ Tail(s) \in Seq(S) /\ Len(Tail(s)) = Len(s) - 1
      /\ \A i \in 1 .. Len(s) - 1 : Tail(s)[i] = s[i + 1]
  BY EmptySeq, HeadTailProperties
<1>2. Head(s) = s[1] /\ DOMAIN s = 1 .. Len(s) /\ DOMAIN Tail(s) = 1 .. Len(s) - 1
  BY <1>1
<1>3. ASSUME NEW i \in 1 .. Len(s) PROVE s[i] \in ToSet(Tail(s)) \cup {Head(s)}
  <2>1. CASE i = 1
    BY <1>2, <2>1
  <2>2. CASE i # 1
    <3>1. i - 1 \in 1 .. Len(s) - 1 /\ Tail(s)[i - 1] = s[i]
      BY <1>1, <2>2
    <3>2. QED BY <1>2, <3>1 DEF ToSet
  <2>3. QED BY <2>1, <2>2
<1>4. QED BY <1>1, <1>2, <1>3 DEF ToSet

\* The end of a handler takes the first work off the tail.
LEMMA WorkEnds ==
  ASSUME IInv, tail # <<>>, NextWork
  PROVE  /\ Len(tail) \in Nat \ {0} /\ Len(tail') = Len(tail) - 1
         /\ \A i \in 1 .. Len(tail) - 1 : tail'[i] = tail[i + 1]
         /\ handled' = handled \cup {tail[1]}
         /\ ToSet(tail) \subseteq ToSet(tail)' \cup {tail[1]}
<1>1. tail \in Seq(Events) /\ tail' = Tail(tail) /\ handled' = handled \cup {Head(tail)}
  BY DEF IInv, TypeOK, NextWork
<1>2. Head(tail) = tail[1]
  BY <1>1
<1>3. QED BY <1>1, <1>2, TailSet
-----------------------------------------------------------------------------
(* Steps beside a recovery *)

\* The parts of the invariant, with the types the arithmetic below needs.
LEMMA InvariantTypes ==
  ASSUME RInv
  PROVE  /\ clock \in Nat /\ Lookback \in Nat \ {0} /\ Lookback < clock
         /\ \A m \in Messages : sentAt[m] \in 0 .. clock /\ sentAt[m] \in Nat
         /\ \A c \in Conversations : checkpoint[c] \in 0 .. clock /\ checkpoint[c] \in Nat
         /\ \A m \in Messages : ConvOf[m] \in Conversations
         /\ recovery \in Recoveries /\ generation \in Nat /\ failures \in Nat
         /\ tail \in Seq(Events) /\ Len(tail) \in Nat
<1>1. clock \in Nat /\ Lookback \in Nat \ {0} /\ Lookback < clock
  BY RecoveryAssumption DEF RInv, WorldTyped
<1>2. \A m \in Messages : sentAt[m] \in 0 .. clock
  BY DEF RInv, WorldTyped
<1>3. \A c \in Conversations : checkpoint[c] \in 0 .. clock
  BY DEF RInv, WorldTyped
<1>4. \A m \in Messages : ConvOf[m] \in Conversations
  BY RecoveryAssumption
<1>5. recovery \in Recoveries
  BY DEF RInv, RecoveryTyped
<1>6. generation \in Nat /\ failures \in Nat /\ tail \in Seq(Events)
  BY DEF RInv, IInv, TypeOK
<1>7. QED BY <1>1, <1>2, <1>3, <1>4, <1>5, <1>6

\* Growing the bridge and the XMTP database takes nothing from a recovery.
LEMMA GrowthKeeps ==
  ASSUME RInv, IInv', BridgeGrows,
         UNCHANGED <<clock, sentAt, checkpoint, marker, repairPending, recovery>>,
         device \subseteq device', device' \subseteq {m \in Messages : Sent(m)}
  PROVE  RInv'
<1>1. /\ recovery \in Recoveries /\ generation \in Nat /\ tail \in Seq(Events) /\ Len(tail) \in Nat
      /\ generation' \in Nat /\ Len(tail') \in Nat /\ recovery.behind \in Nat
  BY InvariantTypes DEF IInv, TypeOK, Recoveries
<1>2. WorldTyped'
  BY DEF RInv, WorldTyped, Sent
<1>3. RecoveryTyped'
  BY <1>1 DEF RInv, RecoveryTyped, BridgeGrows
<1>4. ConversationAgrees' /\ RecentIsRepaired' /\ SyncIsDated' /\ Awake'
  BY DEF RInv, ConversationAgrees, RecentIsRepaired, SyncIsDated, Awake, Syncing
<1>5. CountersGrow' /\ (Held' => Held)
  BY <1>1 DEF RInv, CountersGrow, BridgeGrows, Held, Recoveries
<1>6. Present' = Present /\ UNCHANGED handled
  BY DEF BridgeGrows, Present
<1>7. \A m \in Messages : Due(m)' = Due(m) /\ Sent(m)' = Sent(m) /\ Reread(m)' = Reread(m)
  BY DEF Due, Sent, Reread, InWindow
<1>8. Queued \subseteq Queued'
  BY DEF BridgeGrows, Queued
<1>9. Awaited \subseteq Awaited'
  <2>1. recovery.behind \in Nat /\ recovery.behind <= Len(tail)
    BY <1>1 DEF RInv, RecoveryTyped, Recoveries
  <2>2. \A i \in 1 .. recovery.behind : tail'[i] = tail[i]
    BY <1>1, <2>1 DEF BridgeGrows
  <2>3. QED BY <2>2 DEF Awaited
<1>10. ASSUME NEW done, Tracks(done)
       PROVE  \A m \in Messages : Due(m)' =>
                /\ recovery'.phase = "fetch" /\ recovery'.synced => m \in device'
                /\ recovery'.phase = "replay" /\ recovery'.synced => m \in Queued' \cup done
                /\ recovery'.phase = "stamp" => m \in Awaited' \cup done
  BY <1>7, <1>8, <1>9, <1>10 DEF Tracks
<1>11. WindowIsTracked'
  BY <1>5, <1>6, <1>10 DEF RInv, WindowIsTracked, Tracks
<1>12. \A c \in Conversations : Covered(c) => Covered(c)'
  BY <1>6, <1>7 DEF Covered
<1>13. UNCHANGED Visited
  BY DEF Visited
<1>14. GapsAreCovered'
  BY <1>5, <1>12, <1>13 DEF RInv, GapsAreCovered, Visited
<1>15. RepairIsHonest'
  BY <1>5, <1>6, <1>7, <1>13 DEF RInv, RepairIsHonest
<1>16. QED BY <1>2, <1>3, <1>4, <1>5, <1>11, <1>14, <1>15 DEF RInv

\* The live stream delivers.
LEMMA LiveDeliveryKeeps ==
  ASSUME RInv, NEW m \in Messages, LiveDelivery(m)
  PROVE  RInv'
<1>1. /\ Sent(m) /\ Decode(m) /\ device' = device \cup {m}
      /\ UNCHANGED <<clock, sentAt, checkpoint, marker, repairPending, recovery>>
  BY DEF LiveDelivery
<1>2. IInv'
  BY <1>1, DecodeKeepsIInv DEF RInv, Events
<1>3. BridgeGrows
  BY <1>1, DispatchGrows DEF RInv, Decode
<1>4. device' \subseteq {x \in Messages : Sent(x)}
  BY <1>1 DEF RInv, WorldTyped
<1>5. QED BY <1>1, <1>2, <1>3, <1>4, GrowthKeeps

\* Layouts come and go.
LEMMA LayoutKeeps ==
  ASSUME RInv, NEW l \in Layouts, LayoutComesOrGoes(l)
  PROVE  RInv'
<1>1. (Mount(l) \/ Unmount(l)) /\ UNCHANGED <<history, recovery>>
  BY DEF LayoutComesOrGoes
<1>2. IInv'
  BY <1>1, MountKeepsIInv, UnmountKeepsIInv DEF RInv
<1>3. BridgeGrows
  BY <1>1, LayoutsGrow DEF RInv
<1>4. device' \subseteq {x \in Messages : Sent(x)} /\ UNCHANGED device
  BY <1>1 DEF RInv, WorldTyped, history
<1>5. QED BY <1>1, <1>2, <1>3, <1>4, GrowthKeeps DEF history

\* A handler starts.
LEMMA HandlerStartsKeeps ==
  ASSUME RInv, HandlerStarts
  PROVE  RInv'
<1>1. StartHandling /\ UNCHANGED <<history, recovery>>
  BY DEF HandlerStarts
<1>2. IInv'
  BY <1>1, HandleKeepsIInv DEF RInv, Handle
<1>3. BridgeGrows
  BY <1>1, InvariantTypes DEF BridgeGrows, StartHandling, session
<1>4. device' \subseteq {x \in Messages : Sent(x)} /\ UNCHANGED device
  BY <1>1 DEF RInv, WorldTyped, history
<1>5. QED BY <1>1, <1>2, <1>3, <1>4, GrowthKeeps DEF history

\* A message that was not there is sent now: after the sync, after the repair
\* began, and inside every window.
LEMMA NetworkKeeps ==
  ASSUME RInv, NEW m \in Messages, NetworkAccepts(m)
  PROVE  RInv'
<1>1. /\ ~Sent(m) /\ sentAt' = [sentAt EXCEPT ![m] = clock]
      /\ UNCHANGED <<vars, clock, device, checkpoint, marker, repairPending, recovery>>
  BY DEF NetworkAccepts
<1>2. /\ clock \in Nat /\ Lookback \in Nat \ {0} /\ Lookback < clock
      /\ \A c \in Conversations : checkpoint[c] \in 0 .. clock
      /\ \A x \in Messages : ConvOf[x] \in Conversations
      /\ recovery.syncedAt \in Nat /\ recovery.begunAt \in Nat
  BY InvariantTypes DEF Recoveries
<1>3. /\ sentAt'[m] = clock
      /\ \A x \in Messages : x # m => sentAt'[x] = sentAt[x]
  BY <1>1 DEF RInv, WorldTyped
<1>4. IInv'
  BY <1>1, NextKeepsIInv DEF RInv
<1>5. WorldTyped'
  <2>1. sentAt' \in [Messages -> 0 .. clock]
    BY <1>1, <1>2 DEF RInv, WorldTyped
  <2>2. device \subseteq {x \in Messages : sentAt'[x] > 0}
    BY <1>2, <1>3 DEF RInv, WorldTyped, Sent
  <2>3. QED BY <1>1, <2>1, <2>2 DEF RInv, WorldTyped, Sent
<1>6. /\ UNCHANGED <<tail, messageBuffer, consumer, generation, failures>>
      /\ UNCHANGED <<stored, namespace, handled>>
      /\ UNCHANGED <<recovery, clock, checkpoint, marker, device>>
  BY <1>1 DEF vars, bridge, session
<1>7. RecoveryTyped' /\ ConversationAgrees' /\ RecentIsRepaired' /\ CountersGrow' /\ SyncIsDated'
      /\ Awake'
  BY <1>6 DEF RInv, RecoveryTyped, ConversationAgrees, RecentIsRepaired, CountersGrow, SyncIsDated,
              Awake, Syncing
<1>8. /\ Present' = Present /\ Held' = Held /\ Visited' = Visited
      /\ Queued' = Queued /\ Awaited' = Awaited
  BY <1>6 DEF Present, Held, Visited, Queued, Awaited
<1>9. \A x \in Messages : x # m => /\ Due(x)' = Due(x) /\ Sent(x)' = Sent(x)
                                   /\ Reread(x)' = Reread(x)
  BY <1>3, <1>6 DEF Due, Sent, Reread, InWindow
<1>10. Syncing => ~Due(m)'
  BY <1>2, <1>3, <1>6 DEF RInv, SyncIsDated, Due
<1>11. ASSUME NEW done, Tracks(done)
       PROVE  \A x \in Messages : Due(x)' =>
                /\ recovery.phase = "fetch" /\ recovery.synced => x \in device
                /\ recovery.phase = "replay" /\ recovery.synced => x \in Queued \cup done
                /\ recovery.phase = "stamp" => x \in Awaited \cup done
  BY <1>9, <1>10, <1>11 DEF Tracks, Syncing
<1>12. WindowIsTracked'
  BY <1>6, <1>8, <1>11 DEF RInv, WindowIsTracked, Tracks
<1>13. Reread(m)'
  BY <1>2, <1>3, <1>6 DEF Reread, Minus
<1>14. \A c \in Conversations : Covered(c) => Covered(c)'
  BY <1>6, <1>8, <1>9, <1>13 DEF Covered
<1>15. GapsAreCovered'
  BY <1>6, <1>8, <1>14 DEF RInv, GapsAreCovered, Visited
<1>16. RepairIsHonest'
  BY <1>2, <1>3, <1>6, <1>8, <1>9 DEF RInv, RepairIsHonest, SyncIsDated
<1>17. QED BY <1>4, <1>5, <1>7, <1>12, <1>15, <1>16 DEF RInv

\* Time passes.
LEMMA TickKeeps ==
  ASSUME RInv, Tick
  PROVE  RInv'
<1>1. /\ clock < MaxClock /\ clock' = clock + 1
      /\ (~PageFreezes /\ Syncing => clock + 1 < recovery.syncedAt + Lookback)
      /\ UNCHANGED <<vars, sentAt, device, checkpoint, marker, repairPending, recovery>>
  BY DEF Tick
<1>2. /\ clock \in Nat /\ Lookback \in Nat \ {0} /\ Lookback < clock /\ MaxClock \in Nat
      /\ recovery.syncedAt \in Nat /\ recovery.begunAt \in Nat
  BY InvariantTypes, RecoveryAssumption DEF Recoveries
<1>3. IInv'
  BY <1>1, NextKeepsIInv DEF RInv
<1>4. 0 .. clock \subseteq 0 .. clock'
  BY <1>1, <1>2
<1>5. sentAt \in [Messages -> 0 .. clock'] /\ checkpoint \in [Conversations -> 0 .. clock']
  BY <1>4 DEF RInv, WorldTyped
<1>6. clock' \in 0 .. MaxClock /\ Lookback < clock'
  BY <1>1, <1>2
<1>7. WorldTyped'
  BY <1>1, <1>5, <1>6 DEF RInv, WorldTyped, Sent
<1>8. /\ UNCHANGED <<tail, messageBuffer, consumer, generation, failures>>
      /\ UNCHANGED <<stored, namespace, handled>>
      /\ UNCHANGED <<recovery, sentAt, checkpoint, marker, device>>
  BY <1>1 DEF vars, bridge, session
<1>9. SyncIsDated' /\ Awake'
  BY <1>1, <1>2, <1>8 DEF RInv, SyncIsDated, Awake, Syncing
<1>10. RecoveryTyped' /\ ConversationAgrees' /\ RecentIsRepaired' /\ CountersGrow'
  BY <1>8 DEF RInv, RecoveryTyped, ConversationAgrees, RecentIsRepaired, CountersGrow
<1>11. /\ Present' = Present /\ Held' = Held /\ Visited' = Visited
       /\ Queued' = Queued /\ Awaited' = Awaited
  BY <1>8 DEF Present, Held, Visited, Queued, Awaited
<1>12. \A x \in Messages : Due(x)' = Due(x) /\ Sent(x)' = Sent(x) /\ Reread(x)' = Reread(x)
  BY <1>8 DEF Due, Sent, Reread, InWindow
<1>13. WindowIsTracked'
  BY <1>8, <1>11, <1>12 DEF RInv, WindowIsTracked, Tracks
<1>14. GapsAreCovered' /\ RepairIsHonest'
  BY <1>8, <1>11, <1>12 DEF RInv, GapsAreCovered, RepairIsHonest, Covered, Visited
<1>15. QED BY <1>3, <1>7, <1>9, <1>10, <1>13, <1>14 DEF RInv

\* The fields of a recovery that leaves its conversation ...
LEMMA LeaveFields ==
  ASSUME NEW r \in Recoveries
  PROVE  /\ Leave(r) \in Recoveries
         /\ Leave(r).phase = "next" /\ Leave(r).conv = NoConversation
         /\ Leave(r).mode = r.mode /\ Leave(r).todo = r.todo
         /\ Leave(r).behind = r.behind /\ Leave(r).failed = r.failed
         /\ Leave(r).generation = r.generation /\ Leave(r).failures = r.failures
         /\ Leave(r).begunAt = r.begunAt
<1>1. /\ "next" \in Phases /\ NoConversation \in Conversations \cup {NoConversation}
      /\ <<>> \in Seq(Messages) /\ FALSE \in BOOLEAN /\ 0 \in Nat
  BY EmptySeq DEF Phases
<1>2. QED BY <1>1 DEF Leave, Recoveries

\* ... that fails as well ...
LEMMA FailedFields ==
  ASSUME NEW r \in Recoveries, NEW q, q = [r EXCEPT !.failed = TRUE]
  PROVE  /\ q \in Recoveries /\ q.failed
         /\ q.phase = r.phase /\ q.conv = r.conv /\ q.mode = r.mode /\ q.todo = r.todo
         /\ q.queue = r.queue /\ q.behind = r.behind /\ q.generation = r.generation
         /\ q.failures = r.failures /\ q.begunAt = r.begunAt
<1>1. TRUE \in BOOLEAN
  OBVIOUS
<1>2. QED BY <1>1 DEF Recoveries

\* ... and that waits for another number of works.
LEMMA BehindFields ==
  ASSUME NEW r \in Recoveries, NEW n \in Nat, NEW q, q = [r EXCEPT !.behind = n]
  PROVE  /\ q \in Recoveries /\ q.behind = n
         /\ q.phase = r.phase /\ q.conv = r.conv /\ q.mode = r.mode /\ q.todo = r.todo
         /\ q.queue = r.queue /\ q.synced = r.synced /\ q.failed = r.failed
         /\ q.generation = r.generation /\ q.failures = r.failures
         /\ q.begunAt = r.begunAt /\ q.syncedAt = r.syncedAt
BY DEF Recoveries

\* No recovery is in progress.
LEMMA IdleFields ==
  /\ Idle \in Recoveries /\ Idle.phase = "idle" /\ Idle.mode = "full"
  /\ Idle.conv = NoConversation /\ Idle.todo = {} /\ Idle.behind = 0
  /\ Idle.generation = 0 /\ Idle.failures = 0 /\ Idle.begunAt = 0
<1>1. /\ "idle" \in Phases /\ "full" \in Modes
      /\ NoConversation \in Conversations \cup {NoConversation}
      /\ {} \in SUBSET Conversations /\ <<>> \in Seq(Messages) /\ FALSE \in BOOLEAN /\ 0 \in Nat
  BY EmptySeq DEF Phases, Modes
<1>2. QED BY <1>1 DEF Idle, Recoveries

\* At rest the invariant asks for types and covered gaps alone.
LEMMA RestKeeps ==
  ASSUME RInv, IInv', WorldTyped', recovery' = Idle,
         ~PageFreezes /\ marker' => \A c \in Conversations : Covered(c)'
  PROVE  RInv'
<1>1. /\ recovery'.phase = "idle" /\ recovery'.mode = "full"
      /\ recovery'.conv = NoConversation /\ recovery'.behind = 0
      /\ recovery'.generation = 0 /\ recovery'.failures = 0 /\ recovery'.begunAt = 0
      /\ recovery' \in Recoveries
  BY IdleFields
<1>2. /\ generation' \in Nat /\ failures' \in Nat /\ Len(tail') \in Nat /\ clock' \in Nat
  BY RecoveryAssumption DEF IInv, TypeOK, WorldTyped
<1>3. ~Held' /\ ~Syncing'
  BY <1>1 DEF Held, Syncing
<1>4. RecoveryTyped' /\ ConversationAgrees' /\ RecentIsRepaired' /\ CountersGrow'
  BY <1>1, <1>2 DEF RecoveryTyped, ConversationAgrees, RecentIsRepaired, CountersGrow
<1>5. SyncIsDated' /\ Awake'
  BY <1>1, <1>2, <1>3 DEF SyncIsDated, Awake, Syncing
<1>6. WindowIsTracked' /\ RepairIsHonest' /\ GapsAreCovered'
  BY <1>1, <1>3 DEF WindowIsTracked, Tracks, RepairIsHonest, GapsAreCovered
<1>7. QED BY <1>4, <1>5, <1>6 DEF RInv

\* A reload ends the recovery, and what was handled stays handled.
LEMMA ReloadKeeps ==
  ASSUME RInv, PageReloads
  PROVE  RInv'
<1>1. /\ Reload /\ repairPending' = ~marker /\ recovery' = Idle
      /\ UNCHANGED <<clock, sentAt, device, checkpoint, marker>>
  BY DEF PageReloads
<1>2. IInv'
  BY <1>1, ReloadKeepsIInv DEF RInv
<1>3. WorldTyped'
  BY <1>1 DEF RInv, WorldTyped, Sent
<1>4. Present' = Present /\ handled' = handled
  BY <1>1 DEF Present, Reload
<1>5. \A c \in Conversations : Covered(c) => Covered(c)'
  BY <1>1, <1>4 DEF Covered, Sent, Reread
<1>6. ~PageFreezes /\ marker' => \A c \in Conversations : Covered(c)'
  BY <1>1, <1>5 DEF RInv, GapsAreCovered
<1>7. QED BY <1>1, <1>2, <1>3, <1>6, RestKeeps

\* A recovery that gives up its conversation holds no repair.
LEMMA AbandonKeeps ==
  ASSUME RInv, IInv', WorldTyped', CountersGrow', UNCHANGED <<clock, marker>>,
         recovery' \in Recoveries, ~Held', recovery'.phase = "next",
         recovery'.conv = NoConversation, recovery'.behind = 0,
         recovery'.mode = recovery.mode, recovery'.begunAt = recovery.begunAt,
         \A c \in Conversations : Covered(c) => Covered(c)'
  PROVE  RInv'
<1>1. Len(tail') \in Nat
  BY DEF IInv, TypeOK
<1>2. ~Syncing'
  BY DEF Syncing
<1>3. RecoveryTyped' /\ ConversationAgrees' /\ RecentIsRepaired'
  BY <1>1 DEF RInv, RecoveryTyped, ConversationAgrees, RecentIsRepaired
<1>4. SyncIsDated' /\ Awake'
  BY <1>2 DEF RInv, SyncIsDated, Awake, Syncing
<1>5. WindowIsTracked' /\ RepairIsHonest' /\ GapsAreCovered'
  BY <1>2 DEF RInv, WindowIsTracked, Tracks, RepairIsHonest, GapsAreCovered
<1>6. QED BY <1>3, <1>4, <1>5 DEF RInv

\* A handler ends: the first work of the tail is done, or was lost and counted.
LEMMA HandlerEndsKeeps ==
  ASSUME RInv, HandlerEnds
  PROVE  RInv'
<1>1. /\ (HandlerStores /\ Settles(TRUE)) \/ (HandlerFails /\ Settles(FALSE))
      /\ UNCHANGED history
  BY Zenon DEF HandlerEnds
<1>2. /\ recovery \in Recoveries /\ recovery.behind \in Nat /\ recovery.behind <= Len(tail)
      /\ recovery.failures \in Nat /\ recovery.generation \in Nat
      /\ failures \in Nat /\ generation \in Nat
  BY InvariantTypes DEF RInv, RecoveryTyped, Recoveries
<1>3. tail # <<>> /\ NextWork /\ UNCHANGED <<consumer, generation, messageBuffer, namespace>>
  BY <1>1 DEF RInv, IInv, TypeOK, HandlerStores, HandlerFails, session
<1>4. /\ Len(tail) \in Nat \ {0} /\ Len(tail') = Len(tail) - 1
      /\ \A i \in 1 .. Len(tail) - 1 : tail'[i] = tail[i + 1]
      /\ handled' = handled \cup {tail[1]}
      /\ ToSet(tail) \subseteq ToSet(tail)' \cup {tail[1]}
  BY <1>3, WorkEnds DEF RInv
<1>5. IInv'
  <2>1. HandlerStores \/ HandlerFails
    BY <1>1, Zenon
  <2>2. QED BY <2>1, HandleKeepsIInv DEF RInv, Handle
<1>6. \/ failures' = failures /\ Present' = Present \cup {tail[1]}
      \/ failures' = failures + 1 /\ Present' = Present
  <2>1. tail \in Seq(Events)
    BY InvariantTypes
  <2>2. Head(tail) = tail[1]
    BY <2>1, <1>3
  <2>3. stored \in [Inboxes -> SUBSET Events] /\ namespace \in Inboxes
    BY DEF RInv, IInv, TypeOK
  <2>4. CASE HandlerStores
    BY <2>2, <2>3, <2>4, <1>3 DEF HandlerStores, Present
  <2>5. CASE HandlerFails
    BY <2>5, <1>3 DEF HandlerFails, Present
  <2>6. QED BY <1>1, <2>4, <2>5
<1> DEFINE n == Minus(recovery.behind, 1)
           q == [recovery EXCEPT !.behind = n]
<1>7. n \in Nat /\ n <= Len(tail') /\ (recovery.behind = 0 => n = 0)
      /\ (recovery.behind # 0 => n = recovery.behind - 1)
  BY <1>2, <1>4 DEF Minus
<1> HIDE DEF n
<1>8. /\ q \in Recoveries /\ q.behind = n
      /\ q.phase = recovery.phase /\ q.conv = recovery.conv /\ q.mode = recovery.mode
      /\ q.todo = recovery.todo /\ q.queue = recovery.queue /\ q.synced = recovery.synced
      /\ q.failed = recovery.failed /\ q.generation = recovery.generation
      /\ q.failures = recovery.failures /\ q.begunAt = recovery.begunAt
      /\ q.syncedAt = recovery.syncedAt
  BY <1>2, <1>7, BehindFields
<1>9. \/ recovery' = q
      \/ recovery' = [Leave(q) EXCEPT !.failed = TRUE] /\ recovery.behind = 1
  BY <1>1 DEF Settles, n
<1> HIDE DEF q
<1>10. UNCHANGED <<clock, sentAt, device, checkpoint, marker, repairPending>>
  BY <1>1 DEF history
<1>11. WorldTyped'
  BY <1>10 DEF RInv, WorldTyped, Sent
<1>12. Present \cup handled \cup {tail[1]} \subseteq (Present \cup handled)'
  BY <1>4, <1>6
<1>13. \A c \in Conversations : Covered(c) => Covered(c)'
  BY <1>10, <1>12 DEF Covered, Sent, Reread
<1>14. CASE recovery' = q
  <2>1. /\ RecoveryTyped' /\ ConversationAgrees' /\ RecentIsRepaired' /\ SyncIsDated' /\ Awake'
    BY <1>2, <1>7, <1>8, <1>10, <1>14
       DEF RInv, RecoveryTyped, ConversationAgrees, RecentIsRepaired, SyncIsDated, Awake, Syncing
  <2>2. CountersGrow'
    <3>1. recovery.generation <= generation /\ recovery.failures <= failures
      BY DEF RInv, CountersGrow
    <3>2. recovery.failures <= failures'
      BY <1>2, <1>6, <3>1
    <3>3. QED BY <1>3, <1>8, <1>14, <3>1, <3>2 DEF RInv, CountersGrow
  <2>3. Held' => Held /\ Present' = Present \cup {tail[1]}
    BY <1>2, <1>3, <1>6, <1>8, <1>14 DEF RInv, CountersGrow, Held
  <2>4. Queued \subseteq Queued' \cup {tail[1]}
    BY <1>3, <1>4, <1>8, <1>14 DEF Queued
  <2>5. Awaited \subseteq Awaited' \cup {tail[1]}
    <3>1. ASSUME NEW i \in 1 .. recovery.behind, i # 1 PROVE tail[i] \in Awaited'
      <4>1. i - 1 \in 1 .. n /\ i - 1 \in 1 .. Len(tail) - 1 /\ i - 1 + 1 = i
        BY <1>2, <1>4, <1>7, <3>1
      <4>2. tail'[i - 1] = tail[i]
        BY <1>4, <4>1
      <4>3. QED BY <1>8, <1>14, <4>1, <4>2 DEF Awaited
    <3>2. QED BY <3>1 DEF Awaited
  <2>6. \A m \in Messages : Due(m)' = Due(m)
    BY <1>8, <1>10, <1>14 DEF Due, Sent, InWindow
  <2>7. ASSUME NEW done, NEW now, Tracks(done), done \cup {tail[1]} \subseteq now
        PROVE  \A m \in Messages : Due(m)' =>
                 /\ recovery'.phase = "fetch" /\ recovery'.synced => m \in device'
                 /\ recovery'.phase = "replay" /\ recovery'.synced => m \in Queued' \cup now
                 /\ recovery'.phase = "stamp" => m \in Awaited' \cup now
    BY <1>8, <1>10, <1>14, <2>4, <2>5, <2>6, <2>7 DEF Tracks
  <2>8. WindowIsTracked'
    BY <1>12, <2>3, <2>7 DEF RInv, WindowIsTracked, Tracks
  <2>9. Visited' = Visited
    BY <1>8, <1>14 DEF Visited
  <2>10. GapsAreCovered'
    BY <1>10, <1>13, <2>3, <2>9 DEF RInv, GapsAreCovered, Visited
  <2>11. RepairIsHonest'
    BY <1>8, <1>10, <1>14, <2>3, <2>9 DEF RInv, RepairIsHonest, Sent
  <2>12. QED BY <1>5, <1>11, <2>1, <2>2, <2>8, <2>10, <2>11 DEF RInv
<1>15. CASE recovery' = [Leave(q) EXCEPT !.failed = TRUE] /\ recovery.behind = 1
  <2>1. /\ recovery' \in Recoveries /\ recovery'.failed /\ recovery'.phase = "next"
        /\ recovery'.conv = NoConversation /\ recovery'.behind = 0
        /\ recovery'.mode = recovery.mode /\ recovery'.begunAt = recovery.begunAt
        /\ recovery'.generation = recovery.generation /\ recovery'.failures = recovery.failures
    BY <1>7, <1>8, <1>15, LeaveFields, FailedFields
  <2>2. CountersGrow'
    BY <1>2, <1>3, <1>6, <2>1 DEF RInv, CountersGrow
  <2>3. ~Held'
    BY <2>1 DEF Held
  <2>4. QED BY <1>5, <1>10, <1>11, <1>13, <2>1, <2>2, <2>3, AbandonKeeps
<1>16. QED BY <1>9, <1>14, <1>15
-----------------------------------------------------------------------------
(* The steps of a recovery *)

\* What a step of the recovery alone leaves as it was.
LEMMA WorldStands ==
  ASSUME RInv, UNCHANGED <<vars, clock, sentAt, checkpoint>>
  PROVE  /\ IInv' /\ Present' = Present
         /\ UNCHANGED <<tail, messageBuffer, consumer, generation, failures, handled>>
         /\ \A m \in Messages : Sent(m)' = Sent(m) /\ Reread(m)' = Reread(m)
         /\ \A c \in Conversations : Covered(c) => Covered(c)'
<1>1. IInv'
  BY NextKeepsIInv DEF RInv
<1>2. UNCHANGED <<tail, messageBuffer, consumer, generation, failures, handled, stored, namespace>>
  BY DEF vars, bridge, session
<1>3. Present' = Present
  BY <1>2 DEF Present
<1>4. \A m \in Messages : Sent(m)' = Sent(m) /\ Reread(m)' = Reread(m)
  BY DEF Sent, Reread
<1>5. \A c \in Conversations : Covered(c) => Covered(c)'
  BY <1>2, <1>3, <1>4 DEF Covered
<1>6. QED BY <1>1, <1>2, <1>3, <1>4, <1>5

\* A repair begins with every conversation before it.
LEMMA BeginKeeps ==
  ASSUME RInv, NEW mode \in Modes, Begin(mode)
  PROVE  RInv'
<1>1. PICK targets \in SUBSET Conversations :
        /\ mode = "repair" => targets = Conversations
        /\ recovery' = [Idle EXCEPT !.phase = "next", !.mode = mode, !.todo = targets,
                                    !.generation = generation,
                                    !.failures = failures, !.begunAt = clock]
  <2>1. PICK targets \in {Conversations} \cup
                         (IF mode = "recent" THEN SUBSET Conversations \ {{}} ELSE {}) :
          recovery' = [Idle EXCEPT !.phase = "next", !.mode = mode, !.todo = targets,
                                   !.generation = generation,
                                   !.failures = failures, !.begunAt = clock]
    BY Zenon DEF Begin
  <2>2. targets \in SUBSET Conversations /\ (mode = "repair" => targets = Conversations)
    OBVIOUS
  <2>3. QED BY <2>1, <2>2, Zenon
<1>2. /\ mode = "recent" => ~repairPending
      /\ mode = "repair" => consumer # NoLayout
      /\ UNCHANGED <<vars, history>>
  BY DEF Begin
<1>3. /\ generation \in Nat /\ failures \in Nat /\ clock \in Nat
      /\ "next" \in Phases /\ Len(tail) \in Nat
  BY InvariantTypes DEF Phases
<1>4. /\ recovery' \in Recoveries
      /\ recovery'.phase = "next" /\ recovery'.mode = mode /\ recovery'.todo = targets
      /\ recovery'.generation = generation /\ recovery'.failures = failures
      /\ recovery'.begunAt = clock /\ recovery'.conv = NoConversation /\ recovery'.behind = 0
  BY <1>1, <1>3, IdleFields DEF Recoveries
<1>5. /\ IInv' /\ UNCHANGED <<clock, sentAt, device, checkpoint, marker, repairPending>>
      /\ UNCHANGED <<tail, consumer, generation, failures, handled>>
      /\ \A c \in Conversations : Covered(c) => Covered(c)'
  BY <1>2, WorldStands DEF history
<1>6. WorldTyped'
  BY <1>5 DEF RInv, WorldTyped, Sent
<1>7. ~Syncing' /\ (Held' => Visited' = {})
  BY <1>1, <1>4 DEF Syncing, Held, Visited
<1>8. RecoveryTyped' /\ ConversationAgrees'
  BY <1>3, <1>4, <1>5 DEF RecoveryTyped, ConversationAgrees
<1>9. RecentIsRepaired'
  BY <1>2, <1>4, <1>5 DEF RecentIsRepaired, RInv, WorldTyped
<1>10. CountersGrow'
  BY <1>2, <1>3, <1>4, <1>5 DEF CountersGrow
<1>11. SyncIsDated' /\ Awake'
  BY <1>3, <1>4, <1>5, <1>7 DEF SyncIsDated, Awake, Syncing
<1>12. WindowIsTracked' /\ RepairIsHonest'
  BY <1>4, <1>7 DEF WindowIsTracked, Tracks, RepairIsHonest
<1>13. GapsAreCovered'
  BY <1>5, <1>7 DEF RInv, GapsAreCovered
<1>14. QED BY <1>5, <1>6, <1>8, <1>9, <1>10, <1>11, <1>12, <1>13 DEF RInv

\* What the steps from one conversation to its sync, its replay and the end
\* keep: the recovery's mode, its beginning and the conversations it has visited.
SameRecovery ==
  /\ recovery' \in Recoveries
  /\ recovery'.mode = recovery.mode /\ recovery'.begunAt = recovery.begunAt
  /\ recovery'.generation = recovery.generation /\ recovery'.failures = recovery.failures
  /\ recovery.failed => recovery'.failed

\* Such a step keeps what does not depend on the conversation in hand.
LEMMA SameRecoveryKeeps ==
  ASSUME RInv, SameRecovery, UNCHANGED <<vars, clock, sentAt, checkpoint, marker>>,
         Held' => Visited' \subseteq Visited
  PROVE  RecentIsRepaired' /\ CountersGrow' /\ GapsAreCovered' /\ RepairIsHonest' /\ (Held' => Held)
<1>1. /\ Present' = Present
      /\ UNCHANGED <<tail, messageBuffer, consumer, generation, failures, handled>>
      /\ \A m \in Messages : Sent(m)' = Sent(m) /\ Reread(m)' = Reread(m)
      /\ \A c \in Conversations : Covered(c) => Covered(c)'
  BY WorldStands
<1>2. RecentIsRepaired' /\ CountersGrow' /\ (Held' => Held)
  BY <1>1 DEF RInv, SameRecovery, RecentIsRepaired, CountersGrow, Held
<1>3. GapsAreCovered'
  BY <1>1, <1>2 DEF RInv, GapsAreCovered, Visited
<1>4. RepairIsHonest'
  BY <1>1, <1>2 DEF RInv, RepairIsHonest, SameRecovery
<1>5. QED BY <1>2, <1>3, <1>4

\* The conversation a recovery takes up is not visited yet.
LEMMA NextConversationKeeps ==
  ASSUME RInv, NEW c \in Conversations, NextConversation(c)
  PROVE  RInv'
<1>1. /\ recovery.phase = "next" /\ UNCHANGED <<vars, history>>
      /\ recovery' = [recovery EXCEPT !.phase = "sync", !.conv = c, !.todo = @ \ {c}]
  BY DEF NextConversation
<1>2. recovery \in Recoveries /\ "sync" \in Phases /\ Len(tail) \in Nat
  BY InvariantTypes DEF Phases
<1>3. /\ SameRecovery /\ recovery'.phase = "sync" /\ recovery'.conv = c
      /\ recovery'.todo = recovery.todo \ {c} /\ recovery'.behind = recovery.behind
  BY <1>1, <1>2 DEF SameRecovery, Recoveries
<1>4. /\ IInv' /\ UNCHANGED <<clock, sentAt, device, checkpoint, marker, repairPending, tail>>
  BY <1>1, WorldStands DEF history
<1>5. Visited' \subseteq Visited
  BY <1>1, <1>3, RecoveryAssumption DEF Visited, RInv, ConversationAgrees
<1>6. RecentIsRepaired' /\ CountersGrow' /\ GapsAreCovered' /\ RepairIsHonest'
  BY <1>1, <1>3, <1>4, <1>5, SameRecoveryKeeps
<1>7. WorldTyped'
  BY <1>4 DEF RInv, WorldTyped, Sent
<1>8. RecoveryTyped' /\ ConversationAgrees'
  BY <1>1, <1>2, <1>3, <1>4 DEF RInv, RecoveryTyped, ConversationAgrees, SameRecovery
<1>9. SyncIsDated' /\ Awake' /\ WindowIsTracked'
  BY <1>3, <1>4 DEF RInv, SyncIsDated, Awake, Syncing, WindowIsTracked, Tracks, SameRecovery
<1>10. QED BY <1>4, <1>6, <1>7, <1>8, <1>9 DEF RInv

\* A sync that succeeds has everything sent before it.
LEMMA SyncSucceedsKeeps ==
  ASSUME RInv, SyncSucceeds
  PROVE  RInv'
<1>1. /\ recovery.phase = "sync"
      /\ device' = device \cup {m \in Messages : Sent(m) /\ ConvOf[m] = recovery.conv}
      /\ recovery' = [recovery EXCEPT !.phase = "fetch", !.synced = TRUE, !.syncedAt = clock]
      /\ UNCHANGED <<vars, clock, sentAt, checkpoint, marker, repairPending>>
  BY DEF SyncSucceeds
<1>2. /\ recovery \in Recoveries /\ "fetch" \in Phases /\ TRUE \in BOOLEAN /\ clock \in Nat
      /\ Len(tail) \in Nat /\ Lookback \in Nat \ {0}
  BY InvariantTypes DEF Phases
<1>3. /\ SameRecovery /\ recovery'.phase = "fetch" /\ recovery'.conv = recovery.conv
      /\ recovery'.todo = recovery.todo /\ recovery'.behind = recovery.behind
      /\ recovery'.synced /\ recovery'.syncedAt = clock
  BY <1>1, <1>2 DEF SameRecovery, Recoveries
<1>4. IInv' /\ UNCHANGED tail /\ \A m \in Messages : Sent(m)' = Sent(m)
  BY <1>1, WorldStands
<1>5. Visited' = Visited
  BY <1>3 DEF Visited
<1>6. RecentIsRepaired' /\ CountersGrow' /\ GapsAreCovered' /\ RepairIsHonest'
  BY <1>1, <1>3, <1>5, SameRecoveryKeeps
<1>7. WorldTyped'
  BY <1>1 DEF RInv, WorldTyped, Sent
<1>8. RecoveryTyped' /\ ConversationAgrees'
  BY <1>1, <1>2, <1>3, <1>4 DEF RInv, RecoveryTyped, ConversationAgrees, SameRecovery
<1>9. SyncIsDated' /\ Awake'
  BY <1>1, <1>2, <1>3 DEF RInv, SyncIsDated, Awake, SameRecovery
<1>10. \A m \in Messages : Due(m)' => m \in device'
  BY <1>1, <1>3, <1>4 DEF Due
<1>11. WindowIsTracked'
  BY <1>3, <1>10 DEF WindowIsTracked, Tracks
<1>12. QED BY <1>4, <1>6, <1>7, <1>8, <1>9, <1>11 DEF RInv

\* A sync that fails spoils the recovery, and there is no checkpoint.
LEMMA SyncFailsKeeps ==
  ASSUME RInv, SyncFails
  PROVE  RInv'
<1>1. PICK got \in SUBSET {m \in Messages : Sent(m) /\ ConvOf[m] = recovery.conv} :
        /\ recovery.phase = "sync" /\ device' = device \cup got
        /\ recovery' = [recovery EXCEPT !.phase = "fetch", !.synced = FALSE,
                                        !.syncedAt = clock, !.failed = TRUE]
        /\ UNCHANGED <<vars, clock, sentAt, checkpoint, marker, repairPending>>
  BY DEF SyncFails
<1>2. /\ recovery \in Recoveries /\ "fetch" \in Phases /\ TRUE \in BOOLEAN /\ FALSE \in BOOLEAN
      /\ clock \in Nat /\ Len(tail) \in Nat /\ Lookback \in Nat \ {0}
  BY InvariantTypes DEF Phases
<1>3. /\ SameRecovery /\ recovery'.phase = "fetch" /\ recovery'.conv = recovery.conv
      /\ recovery'.todo = recovery.todo /\ recovery'.behind = recovery.behind
      /\ ~recovery'.synced /\ recovery'.syncedAt = clock /\ recovery'.failed
  BY <1>1, <1>2 DEF SameRecovery, Recoveries
<1>4. IInv' /\ UNCHANGED tail
  BY <1>1, WorldStands
<1>5. Visited' = Visited
  BY <1>3 DEF Visited
<1>6. RecentIsRepaired' /\ CountersGrow' /\ GapsAreCovered' /\ RepairIsHonest'
  BY <1>1, <1>3, <1>5, SameRecoveryKeeps
<1>7. WorldTyped'
  BY <1>1 DEF RInv, WorldTyped, Sent
<1>8. RecoveryTyped' /\ ConversationAgrees'
  BY <1>1, <1>2, <1>3, <1>4 DEF RInv, RecoveryTyped, ConversationAgrees, SameRecovery
<1>9. SyncIsDated' /\ Awake'
  BY <1>1, <1>2, <1>3 DEF RInv, SyncIsDated, Awake, SameRecovery
<1>10. WindowIsTracked'
  BY <1>3 DEF WindowIsTracked, Tracks
<1>11. QED BY <1>4, <1>6, <1>7, <1>8, <1>9, <1>10 DEF RInv

\* The queue holds what is in the window and was there when the sync ended.
LEMMA FetchMessagesKeeps ==
  ASSUME RInv, FetchMessages
  PROVE  RInv'
<1> DEFINE window == {m \in device : ConvOf[m] = recovery.conv /\ InWindow(m)}
<1>1. /\ recovery.phase = "fetch" /\ UNCHANGED <<vars, history>>
      /\ \E q \in [1 .. Cardinality(window) -> window] :
           /\ ToSet(q) = window
           /\ recovery' = [recovery EXCEPT !.phase = "replay", !.queue = q]
  BY Zenon DEF FetchMessages
<1>2. window \subseteq Messages
  BY DEF RInv, WorldTyped
<1>3. Cardinality(window) \in Nat
  BY <1>2, RecoveryAssumption, FS_Subset, FS_CardinalityType
<1>4. PICK q \in [1 .. Cardinality(window) -> window] :
        ToSet(q) = window /\ recovery' = [recovery EXCEPT !.phase = "replay", !.queue = q]
  BY <1>1, Zenon
<1> HIDE DEF window
<1>5. q \in Seq(Messages)
  BY <1>2, <1>3, <1>4
<1>6. recovery \in Recoveries /\ "replay" \in Phases /\ Len(tail) \in Nat
  BY InvariantTypes DEF Phases
<1>7. /\ SameRecovery /\ recovery'.phase = "replay" /\ recovery'.conv = recovery.conv
      /\ recovery'.todo = recovery.todo /\ recovery'.behind = recovery.behind
      /\ recovery'.synced = recovery.synced /\ recovery'.syncedAt = recovery.syncedAt
      /\ recovery'.queue = q
  BY <1>4, <1>5, <1>6 DEF SameRecovery, Recoveries
<1>8. /\ IInv' /\ UNCHANGED <<clock, sentAt, device, checkpoint, marker, repairPending, tail>>
      /\ Present' = Present /\ UNCHANGED handled
  BY <1>1, WorldStands DEF history
<1>9. Visited' = Visited
  BY <1>7 DEF Visited
<1>10. /\ RecentIsRepaired' /\ CountersGrow' /\ GapsAreCovered' /\ RepairIsHonest'
       /\ (Held' => Held)
  BY <1>1, <1>7, <1>8, <1>9, SameRecoveryKeeps
<1>11. WorldTyped'
  BY <1>8 DEF RInv, WorldTyped, Sent
<1>12. RecoveryTyped' /\ ConversationAgrees'
  BY <1>1, <1>6, <1>7, <1>8 DEF RInv, RecoveryTyped, ConversationAgrees, SameRecovery
<1>13. SyncIsDated' /\ Awake'
  BY <1>1, <1>7, <1>8 DEF RInv, SyncIsDated, Awake, Syncing, SameRecovery
<1>14. \A m \in Messages : Due(m)' => Due(m)
  BY <1>7, <1>8 DEF Due, Sent, InWindow, SameRecovery
<1>15. ASSUME NEW m \in Messages, Due(m), recovery.synced
       PROVE  m \in Queued'
  <2>1. m \in device
    BY <1>1, <1>15 DEF RInv, WindowIsTracked, Tracks
  <2>2. m \in window
    BY <1>15, <2>1 DEF Due, window
  <2>3. QED BY <1>4, <1>7, <2>2 DEF Queued
<1>16. WindowIsTracked'
  BY <1>7, <1>14, <1>15 DEF WindowIsTracked, Tracks
<1>17. QED BY <1>8, <1>10, <1>11, <1>12, <1>13, <1>16 DEF RInv

\* A read that fails spoils the recovery.
LEMMA FetchFailsKeeps ==
  ASSUME RInv, FetchFails
  PROVE  RInv'
<1>1. /\ recovery.phase = "fetch" /\ UNCHANGED <<vars, history>>
      /\ recovery' = [Leave(recovery) EXCEPT !.failed = TRUE]
  BY DEF FetchFails
<1>2. recovery \in Recoveries /\ recovery.behind = 0
  BY <1>1 DEF RInv, RecoveryTyped
<1>3. /\ recovery' \in Recoveries /\ recovery'.failed /\ recovery'.phase = "next"
      /\ recovery'.conv = NoConversation /\ recovery'.behind = 0
      /\ recovery'.mode = recovery.mode /\ recovery'.begunAt = recovery.begunAt
      /\ recovery'.generation = recovery.generation /\ recovery'.failures = recovery.failures
  BY <1>1, <1>2, LeaveFields, FailedFields
<1>4. /\ IInv' /\ UNCHANGED <<clock, sentAt, device, checkpoint, marker, repairPending>>
      /\ UNCHANGED <<consumer, generation, failures>>
      /\ \A c \in Conversations : Covered(c) => Covered(c)'
  BY <1>1, WorldStands DEF history
<1>5. WorldTyped'
  BY <1>4 DEF RInv, WorldTyped, Sent
<1>6. CountersGrow' /\ ~Held'
  BY <1>3, <1>4 DEF RInv, CountersGrow, Held
<1>7. QED BY <1>3, <1>4, <1>5, <1>6, AbandonKeeps

\* A replayed message leaves the queue for the tail or the buffer.
LEMMA ReplayMessageKeeps ==
  ASSUME RInv, ReplayMessage
  PROVE  RInv'
<1> DEFINE h == Head(recovery.queue)
           n == IF consumer # NoLayout THEN Len(tail') ELSE 0
<1>1. /\ recovery.phase = "replay" /\ recovery.queue # <<>> /\ recovery.behind = 0 /\ Dispatch(h)
      /\ UNCHANGED <<consumer, mounted, handling, failures, generation, session, stored, handled>>
      /\ UNCHANGED history
      /\ recovery' = [recovery EXCEPT !.queue = Tail(@), !.behind = n]
  BY DEF ReplayMessage
<1>2. recovery \in Recoveries /\ recovery.queue \in Seq(Messages) /\ generation \in Nat
  BY InvariantTypes DEF Recoveries
<1>3. h \in Messages /\ Tail(recovery.queue) \in Seq(Messages) /\ h \in Events /\ h \notin Effects
  BY <1>1, <1>2, EventAssumption, HeadTailProperties DEF Events
<1>4. IInv'
  BY <1>1, <1>3, DispatchKeepsIInv DEF RInv
<1>5. BridgeGrows /\ h \in (ToSet(tail) \cup ToSet(messageBuffer))'
  BY <1>1, <1>3, DispatchGrows DEF RInv
<1>6. Len(tail') \in Nat
  BY <1>4 DEF IInv, TypeOK
<1>7. n \in Nat /\ n <= Len(tail')
  BY <1>6
<1> HIDE DEF n, h
<1>8. /\ recovery' \in Recoveries /\ recovery'.queue = Tail(recovery.queue) /\ recovery'.behind = n
      /\ recovery'.phase = recovery.phase /\ recovery'.mode = recovery.mode
      /\ recovery'.conv = recovery.conv /\ recovery'.todo = recovery.todo
      /\ recovery'.synced = recovery.synced /\ recovery'.failed = recovery.failed
      /\ recovery'.generation = recovery.generation /\ recovery'.failures = recovery.failures
      /\ recovery'.begunAt = recovery.begunAt /\ recovery'.syncedAt = recovery.syncedAt
  BY <1>1, <1>2, <1>3, <1>7 DEF Recoveries
<1>9. /\ UNCHANGED <<clock, sentAt, device, checkpoint, marker, repairPending>>
      /\ UNCHANGED <<generation, failures, consumer, handled>> /\ Present' = Present
  BY <1>1 DEF history, Present, session
<1>10. WorldTyped'
  BY <1>9 DEF RInv, WorldTyped, Sent
<1>11. RecoveryTyped' /\ ConversationAgrees' /\ RecentIsRepaired' /\ CountersGrow'
  BY <1>1, <1>7, <1>8, <1>9
     DEF RInv, RecoveryTyped, ConversationAgrees, RecentIsRepaired, CountersGrow
<1>12. SyncIsDated' /\ Awake'
  BY <1>8, <1>9 DEF RInv, SyncIsDated, Awake, Syncing
<1>13. Held' = Held /\ Visited' = Visited
  BY <1>8, <1>9 DEF Held, Visited
<1>14. \A m \in Messages : /\ Due(m)' = Due(m) /\ Sent(m)' = Sent(m) /\ Reread(m)' = Reread(m)
  BY <1>8, <1>9 DEF Due, Sent, Reread, InWindow
<1>15. ToSet(recovery.queue) \subseteq ToSet(Tail(recovery.queue)) \cup {h}
  BY <1>1, <1>2, TailSet DEF h
<1>16. Queued \subseteq Queued'
  BY <1>5, <1>8, <1>15 DEF Queued, BridgeGrows
<1>17. WindowIsTracked'
  BY <1>1, <1>8, <1>9, <1>13, <1>14, <1>16 DEF RInv, WindowIsTracked, Tracks
<1>18. \A c \in Conversations : Covered(c) => Covered(c)'
  BY <1>9, <1>14 DEF Covered
<1>19. GapsAreCovered'
  BY <1>9, <1>13, <1>18 DEF RInv, GapsAreCovered, Visited
<1>20. RepairIsHonest'
  BY <1>8, <1>9, <1>13, <1>14 DEF RInv, RepairIsHonest
<1>21. QED BY <1>4, <1>10, <1>11, <1>12, <1>17, <1>19, <1>20 DEF RInv

\* At the end of a window whatever is not done is on the tail, since nothing
\* is buffered while somebody listens; without a checkpoint nothing is held.
LEMMA ReplayEndsKeeps ==
  ASSUME RInv, ReplayEnds
  PROVE  RInv'
<1>1. /\ recovery.phase = "replay" /\ recovery.queue = <<>> /\ recovery.behind = 0
      /\ recovery' = IF recovery.synced /\ consumer # NoLayout
                     THEN [recovery EXCEPT !.phase = "stamp", !.behind = Len(tail)]
                     ELSE Leave(recovery)
      /\ UNCHANGED <<vars, history>>
  BY DEF ReplayEnds
<1>2. recovery \in Recoveries /\ "stamp" \in Phases /\ Len(tail) \in Nat /\ tail \in Seq(Events)
  BY InvariantTypes DEF Phases
<1>3. /\ IInv' /\ UNCHANGED <<clock, sentAt, device, checkpoint, marker, repairPending, tail>>
      /\ UNCHANGED <<messageBuffer, consumer, generation, failures, handled>> /\ Present' = Present
      /\ \A c \in Conversations : Covered(c) => Covered(c)'
  BY <1>1, WorldStands DEF history
<1>4. WorldTyped'
  BY <1>3 DEF RInv, WorldTyped, Sent
<1>5. CASE recovery.synced /\ consumer # NoLayout
  <2>1. /\ SameRecovery /\ recovery'.phase = "stamp" /\ recovery'.conv = recovery.conv
        /\ recovery'.todo = recovery.todo /\ recovery'.behind = Len(tail)
        /\ recovery'.synced = recovery.synced /\ recovery'.syncedAt = recovery.syncedAt
    BY <1>1, <1>2, <1>5 DEF SameRecovery, Recoveries
  <2>2. Visited' = Visited
    BY <2>1 DEF Visited
  <2>3. /\ RecentIsRepaired' /\ CountersGrow' /\ GapsAreCovered' /\ RepairIsHonest'
        /\ (Held' => Held)
    BY <1>1, <1>3, <2>1, <2>2, SameRecoveryKeeps
  <2>4. RecoveryTyped' /\ ConversationAgrees'
    BY <1>1, <1>2, <1>3, <2>1 DEF RInv, RecoveryTyped, ConversationAgrees, SameRecovery
  <2>5. SyncIsDated' /\ Awake'
    BY <1>1, <1>3, <1>5, <2>1 DEF RInv, SyncIsDated, Awake, Syncing, SameRecovery
  <2>6. \A m \in Messages : Due(m)' => Due(m)
    BY <1>3, <2>1 DEF Due, Sent, InWindow, SameRecovery
  <2>7. messageBuffer = <<>>
    BY <1>5 DEF RInv, IInv, BuffersServeNobody
  <2>8. Queued \subseteq Awaited'
    <3>1. ToSet(recovery.queue) = {} /\ ToSet(messageBuffer) = {}
      BY <1>1, <2>7, EmptySeq DEF ToSet
    <3>2. ToSet(tail) \subseteq Awaited'
      BY <1>2, <1>3, <2>1 DEF ToSet, Awaited
    <3>3. QED BY <3>1, <3>2 DEF Queued
  <2>9. WindowIsTracked'
    BY <1>1, <1>3, <1>5, <2>1, <2>3, <2>6, <2>8 DEF RInv, WindowIsTracked, Tracks
  <2>10. QED BY <1>3, <1>4, <2>3, <2>4, <2>5, <2>9 DEF RInv
<1>6. CASE ~(recovery.synced /\ consumer # NoLayout)
  <2>1. /\ recovery' \in Recoveries /\ recovery'.phase = "next"
        /\ recovery'.conv = NoConversation /\ recovery'.behind = 0
        /\ recovery'.mode = recovery.mode /\ recovery'.begunAt = recovery.begunAt
        /\ recovery'.generation = recovery.generation /\ recovery'.failures = recovery.failures
        /\ recovery'.failed = recovery.failed
    BY <1>1, <1>2, <1>6, LeaveFields
  <2>2. CountersGrow'
    BY <1>3, <2>1 DEF RInv, CountersGrow
  <2>3. ~Held'
    BY <1>1, <1>3, <1>6, <2>1 DEF RInv, Held, CountersGrow, SyncIsDated, Syncing
  <2>4. QED BY <1>3, <1>4, <2>1, <2>2, <2>3, AbandonKeeps
<1>7. QED BY <1>5, <1>6

\* A checkpoint: what was sent before the sync and is not seen lay before the
\* window already; what came after the sync is within Lookback of now.
LEMMA StampKeeps ==
  ASSUME RInv, StampCheckpoint
  PROVE  RInv'
<1>1. PICK C \in Conversations : C = recovery.conv
  BY DEF StampCheckpoint, RInv, ConversationAgrees
<1>2. /\ recovery.phase = "stamp" /\ recovery.behind = 0
      /\ checkpoint' = [checkpoint EXCEPT ![C] = clock] /\ recovery' = Leave(recovery)
      /\ UNCHANGED <<vars, clock, sentAt, device, marker, repairPending>>
  BY <1>1 DEF StampCheckpoint
<1>3. /\ clock \in Nat /\ Lookback \in Nat \ {0} /\ Lookback < clock
      /\ \A m \in Messages : sentAt[m] \in Nat /\ ConvOf[m] \in Conversations
      /\ \A c \in Conversations : checkpoint[c] \in Nat
      /\ recovery \in Recoveries /\ Len(tail) \in Nat
      /\ recovery.syncedAt \in Nat /\ recovery.begunAt \in Nat
  BY InvariantTypes DEF Recoveries
<1>4. IInv'
  BY <1>2, NextKeepsIInv DEF RInv
<1>5. UNCHANGED <<tail, messageBuffer, consumer, generation, failures, handled, stored, namespace>>
  BY <1>2 DEF vars, bridge, session
<1>6. /\ checkpoint'[C] = clock
      /\ \A c \in Conversations : c # C => checkpoint'[c] = checkpoint[c]
      /\ checkpoint' \in [Conversations -> 0 .. clock]
  BY <1>2, <1>3 DEF RInv, WorldTyped
<1>7. WorldTyped'
  BY <1>2, <1>6 DEF RInv, WorldTyped, Sent
<1>8. /\ recovery' \in Recoveries /\ recovery'.phase = "next"
      /\ recovery'.conv = NoConversation /\ recovery'.behind = 0
      /\ recovery'.mode = recovery.mode /\ recovery'.begunAt = recovery.begunAt
      /\ recovery'.generation = recovery.generation /\ recovery'.failures = recovery.failures
      /\ recovery'.failed = recovery.failed /\ recovery'.todo = recovery.todo
  BY <1>2, <1>3, LeaveFields
<1>9. /\ Present' = Present /\ (Held' => Held)
      /\ \A m \in Messages : Sent(m)' = Sent(m)
  BY <1>2, <1>5, <1>8 DEF Present, Held, Sent
<1>10. \A c \in Visited' : c \in Visited \/ c = C
  BY <1>1, <1>8 DEF Visited
<1>11. Awaited = {}
  BY <1>2 DEF Awaited
<1>12. ASSUME NEW m \in Messages, Due(m)
       PROVE  m \in Present \cup handled /\ (Held => m \in Present)
  BY <1>2, <1>11, <1>12 DEF RInv, WindowIsTracked, Tracks
<1>13. ASSUME ~PageFreezes, NEW m \in Messages, ConvOf[m] = C, Sent(m),
              m \notin Present \cup handled
       PROVE  sentAt[m] > Minus(clock, Lookback)
  <2>1. sentAt[m] >= recovery.syncedAt
    <3> SUFFICES ASSUME sentAt[m] < recovery.syncedAt PROVE FALSE
      BY <1>3
    <3>1. ~InWindow(m)
      BY <1>1, <1>12, <1>13 DEF Due
    <3>2. marker
      BY <3>1 DEF InWindow, RInv, RecentIsRepaired
    <3>3. Reread(m)
      BY <1>13, <3>2 DEF RInv, GapsAreCovered, Covered
    <3>4. QED BY <1>1, <1>3, <1>13, <3>1, <3>3 DEF InWindow, Reread
  <2>2. clock < recovery.syncedAt + Lookback
    BY <1>2, <1>13 DEF RInv, Awake, Syncing
  <2>3. sentAt[m] \in Nat
    BY <1>3
  <2>4. Minus(clock, Lookback) = clock - Lookback
    BY <1>3 DEF Minus
  <2>5. clock \in Nat /\ Lookback \in Nat /\ recovery.syncedAt \in Nat
    BY <1>3
  <2>6. QED BY <2>1, <2>2, <2>3, <2>4, <2>5
<1>14. ~PageFreezes => Covered(C)'
  BY <1>2, <1>3, <1>5, <1>6, <1>9, <1>13 DEF Covered, Reread
<1>15. ASSUME NEW c \in Conversations, c # C, Covered(c) PROVE Covered(c)'
  BY <1>2, <1>5, <1>6, <1>9, <1>15 DEF Covered, Reread
<1>16. GapsAreCovered'
  <2>1. ASSUME ~PageFreezes, marker PROVE \A c \in Conversations : Covered(c)'
    BY <1>14, <1>15, <2>1 DEF RInv, GapsAreCovered
  <2>2. ASSUME ~PageFreezes, Held' PROVE \A c \in Visited' : Covered(c)'
    <3>1. \A c \in Visited : Covered(c)
      BY <1>9, <2>2 DEF RInv, GapsAreCovered
    <3>2. QED BY <1>10, <1>14, <1>15, <2>2, <3>1 DEF Visited
  <2>3. QED BY <1>2, <2>1, <2>2 DEF GapsAreCovered
<1>17. RepairIsHonest'
  <2> SUFFICES ASSUME Held', NEW m \in Messages, ConvOf[m] \in Visited', Sent(m),
                      sentAt[m] < recovery.begunAt
               PROVE  m \in Present
    BY <1>2, <1>8, <1>9 DEF RepairIsHonest, Sent
  <2>1. CASE ConvOf[m] \in Visited
    BY <1>9, <2>1 DEF RInv, RepairIsHonest
  <2>2. CASE ConvOf[m] = C
    <3>1. sentAt[m] < recovery.syncedAt
      BY <1>2, <1>3 DEF RInv, SyncIsDated, Syncing
    <3>2. InWindow(m)
      BY <1>9 DEF InWindow, Held
    <3>3. QED BY <1>1, <1>9, <1>12, <2>2, <3>1, <3>2 DEF Due
  <2>3. QED BY <1>10, <2>1, <2>2
<1>18. /\ RecoveryTyped' /\ ConversationAgrees' /\ RecentIsRepaired' /\ CountersGrow'
  BY <1>2, <1>3, <1>5, <1>8
     DEF RInv, RecoveryTyped, ConversationAgrees, RecentIsRepaired, CountersGrow
<1>19. SyncIsDated' /\ Awake' /\ WindowIsTracked'
  BY <1>2, <1>8 DEF RInv, SyncIsDated, Awake, Syncing, WindowIsTracked, Tracks
<1>20. QED BY <1>4, <1>7, <1>16, <1>17, <1>18, <1>19 DEF RInv

\* The recovery stops before its end, or comes to it.
LEMMA LastKeeps ==
  ASSUME RInv, ListingFails \/ AllVisited
  PROVE  RInv'
<1>1. /\ recovery.phase = "next" /\ UNCHANGED <<vars, history>>
      /\ \/ recovery' = [recovery EXCEPT !.phase = "finish", !.todo = {}, !.failed = TRUE,
                                         !.behind = Len(tail)]
         \/ recovery.todo = {}
            /\ recovery' = [recovery EXCEPT !.phase = "finish", !.behind = Len(tail)]
  BY DEF ListingFails, AllVisited
<1>2. /\ recovery \in Recoveries /\ "finish" \in Phases /\ TRUE \in BOOLEAN /\ Len(tail) \in Nat
      /\ {} \in SUBSET Conversations
  BY InvariantTypes DEF Phases
<1>3. /\ SameRecovery /\ recovery'.phase = "finish" /\ recovery'.conv = recovery.conv
      /\ recovery'.todo = {} /\ recovery'.behind = Len(tail)
      /\ (recovery'.failed \/ recovery.todo = {})
  <2>1. CASE recovery' = [recovery EXCEPT !.phase = "finish", !.todo = {}, !.failed = TRUE,
                                          !.behind = Len(tail)]
    BY <1>2, <2>1 DEF SameRecovery, Recoveries
  <2>2. CASE recovery.todo = {}
             /\ recovery' = [recovery EXCEPT !.phase = "finish", !.behind = Len(tail)]
    BY <1>2, <2>2 DEF SameRecovery, Recoveries
  <2>3. QED BY <1>1, <2>1, <2>2
<1>4. /\ IInv' /\ UNCHANGED <<clock, sentAt, device, checkpoint, marker, repairPending, tail>>
  BY <1>1, WorldStands DEF history
<1>5. Held' => Visited' \subseteq Visited
  BY <1>3 DEF Visited, Held
<1>6. RecentIsRepaired' /\ CountersGrow' /\ GapsAreCovered' /\ RepairIsHonest'
  BY <1>1, <1>3, <1>4, <1>5, SameRecoveryKeeps
<1>7. WorldTyped'
  BY <1>4 DEF RInv, WorldTyped, Sent
<1>8. RecoveryTyped' /\ ConversationAgrees'
  BY <1>1, <1>2, <1>3, <1>4 DEF RInv, RecoveryTyped, ConversationAgrees, SameRecovery
<1>9. SyncIsDated' /\ Awake' /\ WindowIsTracked'
  BY <1>3, <1>4 DEF RInv, SyncIsDated, Awake, Syncing, WindowIsTracked, Tracks, SameRecovery
<1>10. QED BY <1>4, <1>6, <1>7, <1>8, <1>9 DEF RInv

\* A repair that ends unspoilt has visited every conversation.
LEMMA UnspoiltRepair ==
  ASSUME RInv, recovery.phase = "finish", recovery.mode = "repair", RepairHeld
  PROVE  /\ ~PageFreezes => \A c \in Conversations : Covered(c)
         /\ \A m \in Messages : Sent(m) /\ sentAt[m] < recovery.begunAt => m \in Present
<1>1. Held
  BY DEF Held, RepairHeld
<1>2. recovery.todo = {} /\ recovery.conv = NoConversation
  BY DEF RInv, ConversationAgrees
<1>3. Visited = Conversations
  BY <1>2, RecoveryAssumption DEF Visited
<1>4. \A m \in Messages : ConvOf[m] \in Visited
  BY <1>3, RecoveryAssumption
<1>5. QED BY <1>1, <1>3, <1>4 DEF RInv, GapsAreCovered, RepairIsHonest

\* With it every gap is covered, and the marker may be written.
LEMMA FinishKeeps ==
  ASSUME RInv, Finish
  PROVE  RInv'
<1>1. /\ recovery.phase = "finish" /\ recovery' = Idle
      /\ UNCHANGED <<vars, clock, sentAt, device, checkpoint>>
      /\ \/ recovery.mode = "repair" /\ RepairHeld /\ marker' = TRUE /\ repairPending' = FALSE
         \/ UNCHANGED <<marker, repairPending>>
  BY DEF Finish
<1>2. IInv' /\ \A c \in Conversations : Covered(c) => Covered(c)'
  BY <1>1, WorldStands
<1>3. WorldTyped'
  BY <1>1 DEF RInv, WorldTyped, Sent
<1>4. ~PageFreezes /\ marker' => \A c \in Conversations : Covered(c)
  BY <1>1, UnspoiltRepair DEF RInv, GapsAreCovered
<1>5. QED BY <1>1, <1>2, <1>3, <1>4, RestKeeps
-----------------------------------------------------------------------------
(* The theorems *)

\* An older installation: everything may be missing, nothing is claimed.
LEMMA InitEstablishesRInv == RecoveryInit => RInv
<1> SUFFICES ASSUME RecoveryInit PROVE RInv
  OBVIOUS
<1>1. /\ Init /\ clock = Lookback + 1 /\ sentAt \in [Messages -> {0, 1}] /\ device = {}
      /\ checkpoint \in [Conversations -> {0, clock}]
      /\ marker = FALSE /\ repairPending = TRUE /\ recovery = Idle
  BY DEF RecoveryInit
<1>2. IInv
  BY <1>1, InitEstablishesIInv
<1>3. /\ clock \in 0 .. MaxClock /\ Lookback < clock
      /\ {0, 1} \subseteq 0 .. clock /\ {0, clock} \subseteq 0 .. clock /\ clock \in Nat
  BY <1>1, RecoveryAssumption
<1>4. WorldTyped
  BY <1>1, <1>3 DEF WorldTyped
<1>5. /\ recovery \in Recoveries /\ recovery.phase = "idle" /\ recovery.mode = "full"
      /\ recovery.conv = NoConversation /\ recovery.behind = 0
      /\ recovery.generation = 0 /\ recovery.failures = 0 /\ recovery.begunAt = 0
  BY <1>1, IdleFields
<1>6. generation \in Nat /\ failures \in Nat /\ Len(tail) \in Nat
  BY <1>2 DEF IInv, TypeOK
<1>7. ~Held /\ ~Syncing
  BY <1>5 DEF Held, Syncing
<1>8. RecoveryTyped /\ ConversationAgrees /\ RecentIsRepaired /\ CountersGrow
  BY <1>5, <1>6 DEF RecoveryTyped, ConversationAgrees, RecentIsRepaired, CountersGrow
<1>9. SyncIsDated /\ Awake
  BY <1>3, <1>5, <1>7 DEF SyncIsDated, Awake, Syncing
<1>10. WindowIsTracked /\ GapsAreCovered /\ RepairIsHonest
  BY <1>1, <1>5, <1>7 DEF WindowIsTracked, Tracks, GapsAreCovered, RepairIsHonest
<1>11. QED BY <1>2, <1>4, <1>8, <1>9, <1>10 DEF RInv

\* Every step keeps the invariant.
LEMMA NextKeepsRInv == RInv /\ [RecoveryNext]_allVars => RInv'
<1> SUFFICES ASSUME RInv, [RecoveryNext]_allVars PROVE RInv'
  OBVIOUS
<1>1. CASE \E m \in Messages : NetworkAccepts(m) \/ LiveDelivery(m)
  BY <1>1, NetworkKeeps, LiveDeliveryKeeps
<1>2. CASE Tick
  BY <1>2, TickKeeps
<1>3. CASE \E l \in Layouts : LayoutComesOrGoes(l)
  BY <1>3, LayoutKeeps
<1>4. CASE HandlerStarts \/ HandlerEnds \/ PageReloads
  BY <1>4, HandlerStartsKeeps, HandlerEndsKeeps, ReloadKeeps
<1>5. CASE \E mode \in Modes : Begin(mode)
  BY <1>5, BeginKeeps
<1>6. CASE RecoveryStep \/ SyncSucceeds \/ FetchFails \/ ListingFails
  BY <1>6, NextConversationKeeps, SyncFailsKeeps, FetchMessagesKeeps, ReplayMessageKeeps,
     ReplayEndsKeeps, StampKeeps, LastKeeps, FinishKeeps, SyncSucceedsKeeps, FetchFailsKeeps
     DEF RecoveryStep
<1>7. CASE UNCHANGED allVars
  <2>1. /\ UNCHANGED <<vars, clock, sentAt, device, checkpoint, marker, repairPending, recovery>>
    BY <1>7 DEF allVars, history
  <2>2. IInv'
    BY <2>1, NextKeepsIInv DEF RInv
  <2>3. BridgeGrows
    BY <2>1, InvariantTypes DEF BridgeGrows, vars, bridge, session
  <2>4. device' \subseteq {m \in Messages : Sent(m)}
    BY <2>1 DEF RInv, WorldTyped
  <2>5. QED BY <2>1, <2>2, <2>3, <2>4, GrowthKeeps
<1>8. QED BY <1>1, <1>2, <1>3, <1>4, <1>5, <1>6, <1>7 DEF RecoveryNext

\* The inductive invariant holds of every reachable state.
THEOREM RecoveryInvariance == RecoverySpec => []RInv
BY InitEstablishesRInv, NextKeepsRInv, PTL DEF RecoverySpec

\* The database, the checkpoints, the marker and the recovery keep their types,
\* and a recovery never awaits more works than there are.
THEOREM RecoveryTypeCorrect == RecoverySpec => []RecoveryTypeOK
<1>1. RInv => RecoveryTypeOK
  <2> SUFFICES ASSUME RInv PROVE RecoveryTypeOK
    OBVIOUS
  <2>1. recovery.phase \in Phases /\ recovery.mode \in Modes /\ recovery.behind \in Nat
    BY DEF RInv, RecoveryTyped, Recoveries
  <2>2. recovery.behind \in 0 .. Len(tail)
    BY <2>1, InvariantTypes DEF RInv, RecoveryTyped
  <2>3. QED BY <2>1, <2>2 DEF RInv, IInv, WorldTyped, RecoveryTyped, RecoveryTypeOK
<1>2. QED BY <1>1, RecoveryInvariance, PTL

\* Unless the page may sleep for Lookback inside a recovery, a repaired inbox
\* never has a sent message that no handler has had in hand and that the next
\* replay of its conversation would not read.
THEOREM NoGapIsUnseen ==
  ASSUME ~PageFreezes
  PROVE  RecoverySpec => []NoUnseenGap
<1>1. RInv => NoUnseenGap
  BY RecoveryAssumption DEF RInv, GapsAreCovered, Covered, NoUnseenGap
<1>2. QED BY <1>1, RecoveryInvariance, PTL

\* The repair marker appears only when everything sent before the repair began
\* is in the app's database, whether or not the page sleeps.
THEOREM MarkersAreHonest == RecoverySpec => MarkerIsHonest
<1>1. RInv /\ [RecoveryNext]_allVars =>
        [marker' /\ ~marker =>
           \A m \in Messages : sentAt[m] \in 1 .. (recovery.begunAt - 1) => m \in Present]_allVars
  <2> SUFFICES ASSUME RInv, RecoveryNext, marker', ~marker,
                      NEW m \in Messages, sentAt[m] \in 1 .. (recovery.begunAt - 1)
               PROVE  m \in Present
    OBVIOUS
  <2>1. recovery.phase = "finish" /\ recovery.mode = "repair" /\ RepairHeld
    <3>1. \A x \in Messages : ~(NetworkAccepts(x) \/ LiveDelivery(x))
      BY DEF NetworkAccepts, LiveDelivery
    <3>2. ~(Tick \/ HandlerStarts \/ HandlerEnds \/ PageReloads)
      BY DEF Tick, HandlerStarts, HandlerEnds, PageReloads, history
    <3>3. \A l \in Layouts : ~LayoutComesOrGoes(l)
      BY DEF LayoutComesOrGoes, history
    <3>4. \A mode \in Modes : ~Begin(mode)
      BY Zenon DEF Begin, history
    <3>5. ~(SyncSucceeds \/ SyncFails \/ FetchFails \/ ListingFails \/ AllVisited)
      BY DEF SyncSucceeds, SyncFails, FetchFails, ListingFails, AllVisited, history
    <3>6. ~FetchMessages /\ ~ReplayMessage /\ ~ReplayEnds /\ ~StampCheckpoint
      BY Zenon DEF FetchMessages, ReplayMessage, ReplayEnds, StampCheckpoint, history
    <3>7. \A c \in Conversations : ~NextConversation(c)
      BY DEF NextConversation, history
    <3>8. Finish
      BY <3>1, <3>2, <3>3, <3>4, <3>5, <3>6, <3>7 DEF RecoveryNext, RecoveryStep
    <3>9. QED BY <3>8 DEF Finish
  <2>2. recovery.begunAt \in Nat /\ sentAt[m] \in Nat
    BY InvariantTypes DEF Recoveries
  <2>3. Sent(m) /\ sentAt[m] < recovery.begunAt
    BY <2>2 DEF Sent
  <2>4. QED BY <2>1, <2>3, UnspoiltRepair
<1>2. QED BY <1>1, RecoveryInvariance, PTL DEF RecoverySpec, MarkerIsHonest
=============================================================================
