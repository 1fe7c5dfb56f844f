------------------------- MODULE MessageBubblesProofs -------------------------
(***************************************************************************)
(* Theorems about what a message shows beside its text.                    *)
(*                                                                         *)
(* AttachmentDownloads, for any number of attachments, slots, clients,     *)
(* loads and decisions.                                                    *)
(*                                                                         *)
(* Reactions, for any number of people, reactions, taps, loads, history    *)
(* syncs and replays under way together.                                   *)
(***************************************************************************)
EXTENDS AttachmentDownloads, Reactions, FiniteSetTheorems, SequenceTheorems, TLAPS

-----------------------------------------------------------------------------
(***************************************************************************)
(* AttachmentDownloads                                                     *)
(***************************************************************************)

(* What has a type *)

States == {"remote", "failed", "refused", "cached"}
Bubbles == [load : {"idle", "loading", "joined", "failed"}, seen : States,
            tried : BOOLEAN, needs : BOOLEAN]

ClientTyped ==
  /\ client \in {None} \cup Clients /\ opened \in Clients
  /\ opening \in [Attachments -> {None, 0} \cup Clients]
ConsentTyped ==
  /\ consent \in Consents /\ network \in Consents /\ fresh \in BOOLEAN /\ vouched \in BOOLEAN
  /\ {syncClient, pending} \subseteq {None} \cup Clients /\ running \subseteq Clients
PageTyped ==
  /\ request \in [Attachments -> {None} \cup Requests]
  /\ row \in [Attachments -> States] /\ bubble \in [Attachments -> Bubbles]
-----------------------------------------------------------------------------
(* The inductive invariant *)

Queued == InStep({"queued"})
Holders == InStep(Holding)

\* Every waiter is in the queue once, and waits for want of a slot.
SlotInv ==
  /\ queue \in Seq(Attachments)
  /\ \A i, j \in 1 .. Len(queue) : queue[i] = queue[j] => i = j
  /\ {queue[k] : k \in 1 .. Len(queue)} = Queued
  /\ count = Cardinality(Holders) /\ count <= MaxConcurrent
  /\ queue # <<>> => count = MaxConcurrent

\* A sync that counts, and a request past its sync, know of the consent that is
\* Allowed now; a request for an unknown host was asked for.
ConsentInv ==
  /\ consent = "allowed" /\ fresh => vouched
  /\ \A a \in Attachments :
       /\ consent = "allowed" /\ At(a) = "reading" => request[a].vouched
       /\ request[a] # None => a \in Trusted \/ request[a].asked

IInv == ClientTyped /\ ConsentTyped /\ PageTyped /\ SlotInv /\ ConsentInv
-----------------------------------------------------------------------------
(* The queue *)

\* A sequence without repetitions has as many entries as elements.
LEMMA FrontCounts ==
  ASSUME SlotInv, NEW n \in 0 .. Len(queue)
  PROVE  LET front == {queue[k] : k \in 1 .. n}
         IN  front \subseteq Queued /\ IsFiniteSet(front) /\ Cardinality(front) = n
<1> DEFINE front == {queue[k] : k \in 1 .. n}
           f == [k \in 1 .. n |-> queue[k]]
<1>1. Len(queue) \in Nat
  BY LenProperties DEF SlotInv
<1>2. 1 .. n \subseteq 1 .. Len(queue)
  BY <1>1
<1>3. f \in [1 .. n -> front]
  OBVIOUS
<1>4. \A i, j \in 1 .. n : f[i] = f[j] => i = j
  BY <1>2 DEF SlotInv
<1>5. \A x \in front : \E k \in 1 .. n : f[k] = x
  OBVIOUS
<1>6. f \in Bijection(1 .. n, front)
  BY <1>3, <1>4, <1>5 DEF Bijection, Injection, Surjection, IsInjective
<1>7. IsFiniteSet(1 .. n) /\ Cardinality(1 .. n) = n
  BY <1>1, FS_Interval
<1>8. IsFiniteSet(front) /\ Cardinality(front) = n
  BY <1>6, <1>7, FS_Bijection DEF ExistsBijection
<1>9. front \subseteq Queued
  BY <1>2 DEF SlotInv
<1>10. QED BY <1>8, <1>9

\* At most n slots are handed out, and fewer only when the queue is empty.
LEMMA HandedIs ==
  ASSUME SlotInv, NEW n \in Nat
  PROVE  /\ Len(queue) \in Nat /\ Handed(n) \in 0 .. Len(queue) /\ Handed(n) <= n
         /\ Handed(n) < Len(queue) => Handed(n) = n
<1>1. Len(queue) \in Nat
  BY LenProperties DEF SlotInv
<1>2. QED BY <1>1 DEF Handed

\* The waiters left keep their order and their number.
LEMMA RestIs ==
  ASSUME SlotInv, NEW h \in 0 .. Len(queue)
  PROVE  LET rest == SubSeq(queue, h + 1, Len(queue))
         IN  /\ rest \in Seq(Attachments) /\ Len(rest) = Len(queue) - h
             /\ \A i \in 1 .. Len(queue) - h : rest[i] = queue[h + i]
<1>1. Len(queue) \in Nat /\ queue \in [1 .. Len(queue) -> Attachments]
  BY LenProperties DEF SlotInv
<1>2. /\ h + 1 \in Int /\ Len(queue) \in Int
      /\ \A i \in h + 1 .. Len(queue) : queue[i] \in Attachments
  BY <1>1
<1> DEFINE rest == SubSeq(queue, h + 1, Len(queue))
<1>3. /\ rest \in Seq(Attachments)
      /\ Len(rest) = IF h + 1 <= Len(queue) THEN Len(queue) - (h + 1) + 1 ELSE 0
      /\ \A i \in 1 .. Len(queue) - (h + 1) + 1 : rest[i] = queue[h + 1 + i - 1]
  BY <1>2, SubSeqProperties
<1> HIDE DEF rest
<1>4. Len(rest) = Len(queue) - h /\ Len(queue) - (h + 1) + 1 = Len(queue) - h
  <2>1. Len(queue) - (h + 1) + 1 = Len(queue) - h
    BY <1>1
  <2>2. ASSUME NEW l \in Nat, NEW m \in 0 .. l, NEW r,
               r = IF m + 1 <= l THEN l - (m + 1) + 1 ELSE 0
        PROVE  r = l - m
    BY <2>2
  <2>3. QED BY <1>1, <1>3, <2>1, <2>2, Zenon
<1>5. \A i \in 1 .. Len(queue) - h : h + 1 + i - 1 = h + i
  BY <1>1
<1>6. \A i \in 1 .. Len(queue) - h : rest[i] = queue[h + i]
  BY <1>3, <1>4, <1>5
<1>7. rest \in Seq(Attachments) /\ Len(rest) = Len(queue) - h
  BY <1>3, <1>4
<1> USE DEF rest
<1>8. QED BY <1>6, <1>7

\* No request both holds a slot and waits for one, and there are finitely many.
LEMMA HoldersAreFinite ==
  ASSUME Sensible
  PROVE  /\ IsFiniteSet(Holders) /\ IsFiniteSet(Queued) /\ IsFiniteSet(Holders')
         /\ Holders \cap Queued = {}
BY FS_Subset DEF Sensible, Holders, Queued, InStep, Holding

\* releaseIncomingAttachmentSlot: the slots in given go to the first waiters, and
\* those that nobody waits for are counted off.
LEMMA ReleaseKeeps ==
  ASSUME Sensible, SlotInv, NEW given \in SUBSET Holders,
         Release(Cardinality(given)),
         Queued' = Queued \ GivenSlots(Cardinality(given)),
         Holders' = (Holders \ given) \cup GivenSlots(Cardinality(given))
  PROVE  SlotInv'
<1> DEFINE n == Cardinality(given)
           h == Handed(n)
           front == {queue[k] : k \in 1 .. h}
<1>1. IsFiniteSet(given) /\ n \in Nat
  BY HoldersAreFinite, FS_Subset, FS_CardinalityType
<1>2. /\ Len(queue) \in Nat /\ h \in 0 .. Len(queue) /\ h <= n
      /\ h < Len(queue) => h = n
  BY <1>1, HandedIs
<1>3. front \subseteq Queued /\ IsFiniteSet(front) /\ Cardinality(front) = h
  BY <1>2, FrontCounts
<1>4. /\ queue' \in Seq(Attachments) /\ Len(queue') = Len(queue) - h
      /\ \A i \in 1 .. Len(queue) - h : queue'[i] = queue[h + i]
  BY <1>2, RestIs DEF Release
<1>5. Queued' = Queued \ front /\ Holders' = (Holders \ given) \cup front
      /\ count' = count - (n - h)
  BY DEF GivenSlots, Release, Released
<1> HIDE DEF n, h
<1>6. Cardinality(Holders') = Cardinality(Holders) - n + h
  <2>1. /\ IsFiniteSet(Holders \ given)
        /\ Cardinality(Holders \ given) = Cardinality(Holders) - Cardinality(Holders \cap given)
    BY HoldersAreFinite, FS_Difference
  <2>2. Holders \cap given = given /\ (Holders \ given) \cap front = {}
    BY <1>3, HoldersAreFinite
  <2>3. Cardinality((Holders \ given) \cup front) =
          Cardinality(Holders \ given) + Cardinality(front) - Cardinality({})
    BY <1>3, <2>1, <2>2, FS_Union
  <2>4. Cardinality(given) = n /\ Cardinality({}) = 0 /\ Cardinality(Holders) \in Nat
        /\ Cardinality(Holders \ given) \in Nat
    BY <2>1, HoldersAreFinite, FS_EmptySet, FS_CardinalityType DEF n
  <2>5. Cardinality(Holders') = Cardinality(Holders) - Cardinality(given) + h - 0
    BY <1>3, <1>5, <2>1, <2>2, <2>3, <2>4
  <2>6. QED BY <1>1, <1>2, <2>4, <2>5
<1>7. Cardinality(Holders) \in Nat /\ count = Cardinality(Holders) /\ MaxConcurrent \in Nat
      /\ count <= MaxConcurrent
  BY HoldersAreFinite, FS_CardinalityType DEF SlotInv, Sensible
<1>8. count' = Cardinality(Holders') /\ count' <= MaxConcurrent
  BY <1>1, <1>2, <1>5, <1>6, <1>7
<1>9. \A i, j \in 1 .. Len(queue') : queue'[i] = queue'[j] => i = j
  <2> SUFFICES ASSUME NEW i \in 1 .. Len(queue'), NEW j \in 1 .. Len(queue'),
                      queue'[i] = queue'[j]
               PROVE  i = j
    OBVIOUS
  <2>1. /\ i \in 1 .. Len(queue) - h /\ j \in 1 .. Len(queue) - h
        /\ h + i \in 1 .. Len(queue) /\ h + j \in 1 .. Len(queue)
    BY <1>2, <1>4
  <2>2. queue[h + i] = queue[h + j]
    BY <1>4, <2>1
  <2>3. h + i = h + j
    BY <2>1, <2>2 DEF SlotInv
  <2>4. QED BY <1>2, <2>3
<1>10. {queue'[k] : k \in 1 .. Len(queue')} = Queued'
  <2>1. ASSUME NEW k \in 1 .. Len(queue') PROVE queue'[k] \in Queued \ front
    <3>1. h + k \in 1 .. Len(queue) /\ queue'[k] = queue[h + k]
      BY <1>2, <1>4
    <3>2. queue[h + k] \in Queued
      BY <3>1 DEF SlotInv
    <3>3. \A l \in 1 .. h : l \in 1 .. Len(queue) /\ l # h + k
      BY <1>2
    <3>4. \A l \in 1 .. h : queue[l] # queue[h + k]
      BY <3>1, <3>3 DEF SlotInv
    <3>5. QED BY <3>1, <3>2, <3>4
  <2>2. ASSUME NEW a \in Queued \ front PROVE \E k \in 1 .. Len(queue') : queue'[k] = a
    <3>1. PICK l \in 1 .. Len(queue) : queue[l] = a
      BY DEF SlotInv
    <3>2. l \notin 1 .. h
      BY <3>1
    <3>3. l - h \in 1 .. Len(queue) - h /\ h + (l - h) = l
      BY <1>2, <3>2
    <3>4. QED BY <1>4, <3>1, <3>3
  <2>3. QED BY <1>5, <2>1, <2>2
<1>11. queue' # <<>> => count' = MaxConcurrent
  <2> SUFFICES ASSUME queue' # <<>> PROVE count' = MaxConcurrent
    OBVIOUS
  <2>1. Len(queue') \in Nat \ {0}
    BY <1>4, EmptySeq
  <2>2. h < Len(queue) /\ Len(queue) # 0
    BY <1>2, <1>4, <2>1
  <2>3. h = n /\ queue # <<>>
    BY <1>2, <2>2, EmptySeq
  <2>4. QED BY <1>1, <1>5, <1>7, <2>3 DEF SlotInv
<1>12. QED BY <1>4, <1>8, <1>9, <1>10, <1>11 DEF SlotInv

\* A step that moves nobody into or out of a slot keeps the count.
LEMMA SlotsStay ==
  ASSUME SlotInv, UNCHANGED slots, Queued' = Queued, Holders' = Holders
  PROVE  SlotInv'
<1>1. queue' = queue /\ count' = count
  BY DEF slots
<1>2. QED BY <1>1 DEF SlotInv
-----------------------------------------------------------------------------
(* Requests *)

\* An attachment has no request, or one of the type the code writes.
LEMMA EntryIs ==
  ASSUME Sensible, PageTyped, NEW a \in Attachments
  PROVE  \/ request[a] = None /\ At(a) = "none" /\ a \notin Queued /\ a \notin Holders
         \/ /\ request[a] \in Requests /\ request[a] # None /\ At(a) = request[a].at
            /\ At(a) \in Steps /\ request[a].own \in Clients
BY DEF Sensible, PageTyped, At, Requests, Queued, Holders, InStep, Holding

\* The request of a stays at its step or goes on to another with or without a slot.
LEMMA EntryGoesOn ==
  ASSUME Sensible, NEW r \in Requests, NEW to \in Steps
  PROVE  /\ [r EXCEPT !.at = to] \in Requests /\ [r EXCEPT !.at = to] # None
         /\ [r EXCEPT !.at = to].at = to /\ [r EXCEPT !.at = to].asked = r.asked
BY DEF Sensible, Requests

\* Authorizing a request changes nothing else of it.
LEMMA EntryIsVouched ==
  ASSUME Sensible, NEW r \in Requests, NEW v \in BOOLEAN
  PROVE  /\ [r EXCEPT !.vouched = v] \in Requests /\ [r EXCEPT !.vouched = v] # None
         /\ [r EXCEPT !.vouched = v].at = r.at /\ [r EXCEPT !.vouched = v].asked = r.asked
         /\ [r EXCEPT !.vouched = v].vouched = v
BY DEF Sensible, Requests

\* No request is new, and none has its consent read that had not before.
Settles ==
  \A a \in Attachments : request'[a] # None =>
    /\ request[a] # None /\ request'[a].asked = request[a].asked
    /\ request'[a].at = "reading" => request'[a] = request[a]

\* No request is for an unknown host that nobody asked for, and none has its
\* consent read that had not before.
Sound ==
  \A a \in Attachments : request'[a] # None =>
    /\ a \in Trusted \/ request'[a].asked
    /\ request'[a].at = "reading" => request'[a] = request[a]

\* A sync that settles starts no download by itself.
LEMMA SettlesIsSound ==
  ASSUME ConsentInv, Settles
  PROVE  Sound
BY DEF ConsentInv, Settles, Sound

\* While consent stays, so does what is known of it.
LEMMA ConsentStays ==
  ASSUME ConsentInv, Sound, UNCHANGED <<consent, fresh, vouched>>
  PROVE  ConsentInv'
BY DEF ConsentInv, Sound, At

\* No host is contacted.
NoneFetched == \A a \in Attachments : At(a)' = "fetching" => At(a) = "fetching"

\* Nothing but the page and its slots moves.
Elsewhere == UNCHANGED <<client, opened, opening>> /\ UNCHANGED <<consent, network, vouched, prefs>>

\* A step of the page alone keeps the invariant if it keeps types, slots and consent.
LEMMA PageMoves ==
  ASSUME IInv, Elsewhere, PageTyped', SlotInv', Sound
  PROVE  IInv'
<1>1. ClientTyped' /\ ConsentTyped'
  BY DEF IInv, ClientTyped, ConsentTyped, Elsewhere, prefs
<1>2. ConsentInv'
  BY ConsentStays DEF IInv, Elsewhere, prefs
<1>3. QED BY <1>1, <1>2 DEF IInv

\* A step in which no request gets or gives a slot, or joins or leaves the queue.
LEMMA PlacesStay ==
  ASSUME SlotInv, UNCHANGED slots,
         \A a \in Attachments : At(a)' = At(a) \/ {At(a), At(a)'} \cap (Holding \cup {"queued"}) = {}
                                \/ {At(a), At(a)'} \subseteq Holding
  PROVE  SlotInv'
<1>1. Queued' = Queued /\ Holders' = Holders
  BY DEF Queued, Holders, InStep, Holding
<1>2. QED BY <1>1, SlotsStay

\* A bubble that goes on loading keeps its type ...
LEMMA BubbleGoesOn ==
  ASSUME NEW b \in Bubbles, NEW l \in {"idle", "loading", "joined", "failed"},
         NEW n \in BOOLEAN
  PROVE  [b EXCEPT !.load = l] \in Bubbles /\ [b EXCEPT !.load = l, !.needs = n] \in Bubbles
BY DEF Bubbles

\* One slot or several are given to the first waiters, whose requests go on.
LEMMA WaitersGoOn ==
  ASSUME Sensible, PageTyped, SlotInv, NEW n \in Nat
  PROVE  /\ GivenSlots(n) \subseteq Queued
         /\ \A a \in GivenSlots(n) :
              /\ request[a] \in Requests /\ request[a] # None
              /\ [request[a] EXCEPT !.at = "authorizing"] \in Requests
              /\ [request[a] EXCEPT !.at = "authorizing"] # None
              /\ [request[a] EXCEPT !.at = "authorizing"].at = "authorizing"
              /\ [request[a] EXCEPT !.at = "authorizing"].asked = request[a].asked
<1>1. GivenSlots(n) \subseteq Queued
  BY HandedIs, FrontCounts DEF GivenSlots
<1>2. \A a \in Queued : a \in Attachments /\ request[a] \in Requests
  BY EntryIs DEF Queued, InStep
<1>3. "authorizing" \in Steps
  BY DEF Steps
<1>4. ASSUME NEW a \in GivenSlots(n)
      PROVE  /\ request[a] \in Requests /\ request[a] # None
             /\ [request[a] EXCEPT !.at = "authorizing"] \in Requests
             /\ [request[a] EXCEPT !.at = "authorizing"] # None
             /\ [request[a] EXCEPT !.at = "authorizing"].at = "authorizing"
             /\ [request[a] EXCEPT !.at = "authorizing"].asked = request[a].asked
  <2> None \notin Requests
    BY DEF Sensible
  <2>1. request[a] \in Requests /\ request[a] # None
    BY <1>1, <1>2
  <2>2. QED BY <1>3, <2>1, EntryGoesOn, Zenon
<1>5. QED BY <1>1, <1>4

\* However many requests fail at once, whether or not they had a slot.
LEMMA FailKeeps ==
  ASSUME Sensible, PageTyped, SlotInv, NEW lost \in SUBSET Attachments, lost \cap Queued = {},
         NEW why \in {"failed", "refused"}, Fail(lost, why)
  PROVE  PageTyped' /\ SlotInv' /\ Settles
         /\ \A a \in Attachments : At(a)' \in {At(a), "none", "authorizing"}
<1> DEFINE given == lost \cap InStep(Holding)
           n == Cardinality(given)
           next == GivenSlots(n)
<1>1. given \in SUBSET Holders /\ n \in Nat
  BY HoldersAreFinite, FS_Subset, FS_CardinalityType DEF Holders
<1>2. /\ next \subseteq Queued
      /\ \A a \in next : /\ request[a] \in Requests /\ request[a] # None
                         /\ [request[a] EXCEPT !.at = "authorizing"] \in Requests
                         /\ [request[a] EXCEPT !.at = "authorizing"] # None
                         /\ [request[a] EXCEPT !.at = "authorizing"].at = "authorizing"
                         /\ [request[a] EXCEPT !.at = "authorizing"].asked = request[a].asked
  BY <1>1, WaitersGoOn
<1>3. /\ Release(n)
      /\ request' = [a \in Attachments |->
           IF a \in lost THEN None
           ELSE IF a \in next THEN [request[a] EXCEPT !.at = "authorizing"]
           ELSE request[a]]
      /\ row' = [a \in Attachments |-> IF a \in lost THEN why ELSE row[a]]
  BY Zenon DEF Fail
<1> HIDE DEF next, n
<1>4. \A a \in Attachments :
        /\ a \in lost => request'[a] = None
        /\ a \in next => request'[a] = [request[a] EXCEPT !.at = "authorizing"] /\ a \notin lost
        /\ a \notin lost \cup next => request'[a] = request[a]
  BY <1>2, <1>3
<1>5. PageTyped'
  <2>1. request' \in [Attachments -> {None} \cup Requests]
    BY <1>2, <1>3 DEF PageTyped
  <2>2. row' \in [Attachments -> States]
    BY <1>3 DEF PageTyped, States
  <2> DEFINE needs == why = "refused"
  <2>3. needs \in BOOLEAN
    OBVIOUS
  <2>4. bubble' = [a \in Attachments |->
          IF a \in lost /\ bubble[a].load = "joined"
          THEN [bubble[a] EXCEPT !.load = "failed", !.needs = needs] ELSE bubble[a]]
    BY Zenon DEF Fail
  <2> HIDE DEF needs
  <2>5. \A a \in Attachments :
          bubble[a] \in Bubbles /\ [bubble[a] EXCEPT !.load = "failed", !.needs = needs] \in Bubbles
    <3>1. \A a \in Attachments : bubble[a] \in Bubbles
      BY DEF PageTyped
    <3>2. "failed" \in {"idle", "loading", "joined", "failed"}
      OBVIOUS
    <3>3. QED BY <2>3, <3>1, <3>2, BubbleGoesOn, Zenon
  <2> DEFINE fallen == [a \in Attachments |-> [bubble[a] EXCEPT !.load = "failed", !.needs = needs]]
  <2>6. bubble' \in [Attachments -> Bubbles]
    <3>1. /\ \A a \in Attachments : bubble[a] \in Bubbles /\ fallen[a] \in Bubbles
          /\ bubble' = [a \in Attachments |->
               IF a \in lost /\ bubble[a].load = "joined" THEN fallen[a] ELSE bubble[a]]
      BY <2>4, <2>5, Zenon
    <3> HIDE DEF fallen
    <3>2. QED BY <3>1
  <2>7. QED BY <2>1, <2>2, <2>6 DEF PageTyped
<1>6. \A a \in Attachments :
        /\ a \in lost => At(a)' = "none"
        /\ a \in next => At(a)' = "authorizing"
        /\ a \notin lost \cup next => At(a)' = At(a)
  BY <1>2, <1>4 DEF At
<1>7. Queued' = Queued \ next /\ Holders' = (Holders \ given) \cup next
  <2>1. \A a \in Attachments : a \in next => At(a) = "queued"
    BY <1>2 DEF Queued, InStep
  <2>2. next \subseteq Attachments
    BY <1>2 DEF Queued, InStep
  <2>3. Queued' = Queued \ next
    BY <1>6, <2>1, <2>2 DEF Queued, InStep
  <2>4. Holders' = (Holders \ given) \cup next
    BY <1>6, <2>1, <2>2 DEF Holders, InStep, Holding
  <2>5. QED BY <2>3, <2>4
<1>8. SlotInv'
  <2>1. given \in SUBSET Holders
    BY <1>1
  <2>2. Release(Cardinality(given)) /\ next = GivenSlots(Cardinality(given))
    BY <1>3 DEF next, n
  <2>3. QED BY <1>7, <2>1, <2>2, ReleaseKeeps
<1>9. Settles
  BY <1>2, <1>4 DEF Settles
<1>10. QED BY <1>5, <1>6, <1>8, <1>9
-----------------------------------------------------------------------------
(* The bubble *)

\* ... and so does one that is mounted, fails or goes.
LEMMA BubblesAre ==
  /\ \A s \in States : Bubble(s) \in Bubbles
  /\ \A b \in Bubbles : Failed(b) \in Bubbles
  /\ \A b \in Bubbles : \A l \in {"loading", "joined"} : [b EXCEPT !.load = l] \in Bubbles
  /\ Unmounted \in Bubbles
<1>1. FALSE \in BOOLEAN
  OBVIOUS
<1>2. Unmounted \in Bubbles
  BY <1>1 DEF Unmounted, Bubbles, States
<1>3. \A s \in States : Bubble(s) \in Bubbles
  BY <1>2 DEF Bubble, Bubbles
<1>4. \A b \in Bubbles : Failed(b) \in Bubbles
  BY <1>1 DEF Failed, Bubbles
<1>5. \A b \in Bubbles : \A l \in {"loading", "joined"} : [b EXCEPT !.load = l] \in Bubbles
  BY DEF Bubbles
<1>6. QED BY <1>2, <1>3, <1>4, <1>5

\* A bubble appears.
LEMMA MountKeeps ==
  ASSUME Sensible, IInv, NEW a \in Attachments, Mount(a)
  PROVE  IInv' /\ NoneFetched
<1>1. UNCHANGED <<request, row>> /\ UNCHANGED slots /\ Elsewhere
  BY DEF Mount, Elsewhere
<1>2. row[a] \in States
  BY DEF IInv, PageTyped
<1>3. PageTyped'
  BY <1>1, <1>2, BubblesAre DEF IInv, PageTyped, Mount
<1>4. Sound
  BY <1>1 DEF IInv, ConsentInv, Sound
<1>5. SlotInv'
  BY <1>1, PlacesStay DEF IInv, At
<1>6. QED BY <1>1, <1>3, <1>4, <1>5, PageMoves DEF NoneFetched, At

\* The load of a bubble: answered on the spot, joined, or a request of its own with
\* a slot or in the queue.
LEMMA RequestedKeeps ==
  ASSUME Sensible, IInv, NEW a \in Attachments, NEW approved \in BOOLEAN,
         NEW shown \in [Attachments -> Bubbles], Requested(a, approved, shown)
  PROVE  PageTyped' /\ SlotInv' /\ Sound /\ NoneFetched
<1>1. bubble' \in [Attachments -> Bubbles]
  <2>1. /\ Bubble("cached") \in Bubbles /\ Failed(shown[a]) \in Bubbles
        /\ [shown[a] EXCEPT !.load = "joined"] \in Bubbles
    BY BubblesAre DEF States
  <2>2. CASE bubble' = [shown EXCEPT ![a] = IF @.load = "loading" THEN Bubble("cached") ELSE @]
    BY <2>1, <2>2
  <2>3. CASE bubble' = [shown EXCEPT ![a] = IF @.load = "loading" THEN Failed(@) ELSE @]
    BY <2>1, <2>3
  <2>4. CASE bubble' = [shown EXCEPT ![a].load = IF @ = "loading" THEN "joined" ELSE @]
    <3>1. CASE shown[a].load = "loading"
      <4>1. bubble' = [shown EXCEPT ![a] = [shown[a] EXCEPT !.load = "joined"]]
        BY <2>4, <3>1
      <4>2. QED BY <2>1, <4>1
    <3>2. CASE shown[a].load # "loading"
      BY <2>4, <3>2 DEF Bubbles
    <3>3. QED BY <3>1, <3>2
  <2>5. QED BY <2>2, <2>3, <2>4, Zenon DEF Requested
<1>2. \/ UNCHANGED <<request, slots>> /\ (row' = row \/ row' = [row EXCEPT ![a] = "failed"])
      \/ /\ MayFetch(a, approved) /\ request[a] = None /\ client # None /\ UNCHANGED row
         /\ request' = [request EXCEPT ![a] =
              [at |-> IF count < MaxConcurrent THEN "authorizing" ELSE "queued",
               own |-> client, vouched |-> FALSE, asked |-> approved]]
         /\ IF count < MaxConcurrent
            THEN count' = count + 1 /\ queue' = queue
            ELSE count' = count /\ queue' = Append(queue, a)
  BY Zenon DEF Requested
<1>3. CASE UNCHANGED <<request, slots>> /\ (row' = row \/ row' = [row EXCEPT ![a] = "failed"])
  <2>1. PageTyped'
    BY <1>1, <1>3 DEF IInv, PageTyped, States
  <2>2. SlotInv'
    BY <1>3, PlacesStay DEF IInv, At
  <2>3. Sound
    BY <1>3 DEF IInv, ConsentInv, Sound
  <2>4. QED BY <1>3, <2>1, <2>2, <2>3 DEF NoneFetched, At
<1>4. CASE /\ MayFetch(a, approved) /\ request[a] = None /\ client # None /\ UNCHANGED row
           /\ request' = [request EXCEPT ![a] =
                [at |-> IF count < MaxConcurrent THEN "authorizing" ELSE "queued",
                 own |-> client, vouched |-> FALSE, asked |-> approved]]
           /\ IF count < MaxConcurrent
              THEN count' = count + 1 /\ queue' = queue
              ELSE count' = count /\ queue' = Append(queue, a)
  <2> DEFINE to == IF count < MaxConcurrent THEN "authorizing" ELSE "queued"
             r == [at |-> to, own |-> client, vouched |-> FALSE, asked |-> approved]
  <2>1. to \in Steps /\ client \in Clients /\ FALSE \in BOOLEAN
    BY <1>4 DEF Steps, IInv, ClientTyped
  <2>2. r \in Requests /\ r.at = to /\ r.asked = approved
    BY <2>1 DEF Requests
  <2>3. request' = [request EXCEPT ![a] = r] /\ r # None /\ to # "reading"
    BY <1>4, <2>2 DEF Sensible
  <2> HIDE DEF r
  <2>4. request'[a] = r /\ \A b \in Attachments : b # a => request'[b] = request[b]
    BY <2>3 DEF IInv, PageTyped
  <2>5. PageTyped'
    BY <1>1, <1>4, <2>2, <2>3 DEF IInv, PageTyped
  <2>6. Sound
    <3>1. approved => r.asked
      BY <2>2
    <3>2. a \in Trusted \/ r.asked
      BY <1>4, <3>1 DEF MayFetch
    <3>3. QED BY <2>2, <2>3, <2>4, <3>2 DEF Sound, IInv, ConsentInv
  <2>7. At(a) = "none" /\ At(a)' = to /\ \A b \in Attachments : b # a => At(b)' = At(b)
    BY <1>4, <2>2, <2>3, <2>4 DEF At
  <2>12. NoneFetched
    BY <2>1, <2>3, <2>7 DEF NoneFetched, Steps
  <2> HIDE DEF to
  <2>8. /\ Cardinality(Holders) \in Nat /\ count = Cardinality(Holders) /\ MaxConcurrent \in Nat
        /\ count <= MaxConcurrent
    BY HoldersAreFinite, FS_CardinalityType DEF IInv, SlotInv, Sensible
  <2>9. CASE count < MaxConcurrent
    <3>1. count' = count + 1 /\ queue' = queue /\ to = "authorizing"
      BY <1>4, <2>9 DEF to
    <3>2. Holders' = Holders \cup {a} /\ Queued' = Queued /\ a \notin Holders
      BY <2>7, <3>1 DEF Holders, Queued, InStep, Holding
    <3>3. Cardinality(Holders') = count + 1
      BY <2>8, <3>2, HoldersAreFinite, FS_AddElement
    <3>4. queue = <<>>
      BY <2>8, <2>9 DEF IInv, SlotInv
    <3>5. SlotInv'
      BY <2>8, <2>9, <3>1, <3>2, <3>3, <3>4 DEF IInv, SlotInv
    <3>6. QED BY <2>5, <2>6, <2>12, <3>5
  <2>10. CASE ~(count < MaxConcurrent)
    <3>1. count' = count /\ queue' = Append(queue, a) /\ to = "queued"
      BY <1>4, <2>10 DEF to
    <3>2. Holders' = Holders /\ Queued' = Queued \cup {a} /\ a \notin Queued
      BY <2>7, <3>1 DEF Holders, Queued, InStep, Holding
    <3>3. queue \in Seq(Attachments) /\ Len(queue) \in Nat
      BY LenProperties DEF IInv, SlotInv
    <3>4. /\ queue' \in Seq(Attachments) /\ Len(queue') = Len(queue) + 1
          /\ \A i \in 1 .. Len(queue) : queue'[i] = queue[i]
          /\ queue'[Len(queue) + 1] = a
      BY <3>1, <3>3, AppendProperties
    <3>5. \A i \in 1 .. Len(queue) : queue[i] \in Queued /\ queue[i] # a
      BY <3>2 DEF IInv, SlotInv
    <3>6. \A i, j \in 1 .. Len(queue') : queue'[i] = queue'[j] => i = j
      <4>1. \A i \in 1 .. Len(queue') : i \in 1 .. Len(queue) \/ i = Len(queue) + 1
        BY <3>3, <3>4
      <4>2. QED BY <3>4, <3>5, <4>1 DEF IInv, SlotInv
    <3>7. {queue'[k] : k \in 1 .. Len(queue')} = Queued'
      <4>1. 1 .. Len(queue') = 1 .. Len(queue) \cup {Len(queue) + 1}
        BY <3>3, <3>4
      <4>2. {queue[k] : k \in 1 .. Len(queue)} = Queued
        BY DEF IInv, SlotInv
      <4>3. QED BY <3>2, <3>4, <4>1, <4>2
    <3>8. count' = Cardinality(Holders') /\ count' = MaxConcurrent
      BY <2>8, <2>10, <3>1, <3>2
    <3>9. SlotInv'
      BY <2>8, <3>4, <3>6, <3>7, <3>8 DEF SlotInv
    <3>10. QED BY <2>5, <2>6, <2>12, <3>9
  <2>11. QED BY <2>9, <2>10
<1>5. QED BY <1>2, <1>3, <1>4

\* The bubbles while an attachment loads.
LEMMA LoadingIs ==
  ASSUME IInv, NEW a \in Attachments, NEW mark \in BOOLEAN
  PROVE  Loading(a, mark) \in [Attachments -> Bubbles]
<1>1. bubble \in [Attachments -> Bubbles] /\ bubble[a] \in Bubbles
  BY DEF IInv, PageTyped
<1> DEFINE tried == bubble[a].tried \/ mark
           b == [bubble[a] EXCEPT !.load = "loading"]
           c == [b EXCEPT !.tried = tried]
<1>2. tried \in BOOLEAN /\ b \in Bubbles
  BY <1>1, BubblesAre DEF Bubbles
<1>3. c \in Bubbles
  <2> HIDE DEF b, tried
  <2>1. QED BY <1>2 DEF Bubbles
<1>4. Loading(a, mark) = [bubble EXCEPT ![a] = c]
  BY <1>1 DEF Loading, Bubbles
<1> HIDE DEF c
<1>5. QED BY <1>1, <1>3, <1>4

\* The load of a bubble, started by the view or by a button.
LEMMA LoadKeeps ==
  ASSUME Sensible, IInv, NEW a \in Attachments, AutoLoad(a) \/ PressLoad(a)
  PROVE  IInv' /\ NoneFetched
<1> DEFINE unknown == a \notin Trusted
<1>1. FALSE \in BOOLEAN /\ TRUE \in BOOLEAN /\ unknown \in BOOLEAN
  OBVIOUS
<1>2. Loading(a, TRUE) \in [Attachments -> Bubbles] /\ Loading(a, FALSE) \in [Attachments -> Bubbles]
  BY <1>1, LoadingIs
<1>3. Requested(a, FALSE, Loading(a, TRUE)) \/ Requested(a, unknown, Loading(a, FALSE))
  BY Zenon DEF AutoLoad, PressLoad
<1> HIDE DEF unknown
<1>4. PageTyped' /\ SlotInv' /\ Sound /\ NoneFetched
  BY <1>1, <1>2, <1>3, RequestedKeeps
<1>5. Elsewhere
  BY DEF AutoLoad, PressLoad, Elsewhere
<1>6. QED BY <1>4, <1>5, PageMoves

\* The person accepts the conversation from a bubble.
LEMMA PressAcceptKeeps ==
  ASSUME Sensible, IInv, NEW a \in Attachments, PressAccept(a)
  PROVE  IInv' /\ NoneFetched
<1>1. /\ UNCHANGED <<request, row>> /\ UNCHANGED slots
      /\ UNCHANGED <<client, opened>> /\ UNCHANGED <<consent, network, vouched, prefs>>
  BY DEF PressAccept
<1>2. bubble' \in [Attachments -> Bubbles]
  <2>1. FALSE \in BOOLEAN
    OBVIOUS
  <2>2. QED BY <2>1, LoadingIs DEF PressAccept
<1>3. client \in Clients
  BY DEF IInv, ClientTyped, PressAccept
<1>4. ClientTyped'
  BY <1>1, <1>3 DEF IInv, ClientTyped, PressAccept
<1>5. ConsentTyped' /\ PageTyped'
  BY <1>1, <1>2 DEF IInv, ConsentTyped, prefs, PageTyped
<1>6. SlotInv'
  BY <1>1, PlacesStay DEF IInv, At
<1>7. ConsentInv'
  BY <1>1 DEF IInv, ConsentInv, At, prefs
<1>8. QED BY <1>1, <1>4, <1>5, <1>6, <1>7 DEF IInv, NoneFetched, At

\* An update of the consent answered: every request past its sync knows of it.
LEMMA DecidedKeeps ==
  ASSUME Sensible, IInv, NEW to \in {"allowed", "denied"},
         Decided(to), request' = VouchAll(request, to), UNCHANGED <<client, opened, bubble, row>>,
         UNCHANGED slots, opening' \in [Attachments -> {None, 0} \cup Clients]
  PROVE  IInv' /\ NoneFetched
<1> DEFINE known == to = "allowed"
<1>1. known \in BOOLEAN /\ "reading" \in Steps
  BY DEF Steps
<1>2. ASSUME NEW a \in Attachments
      PROVE  /\ request'[a] \in {None} \cup Requests /\ At(a)' = At(a)
             /\ request'[a] # None => request[a] # None /\ request'[a].asked = request[a].asked
             /\ At(a) = "reading" => request'[a].vouched = known
  <2>1. request'[a] = Vouch(request[a], to)
    BY DEF VouchAll
  <2>2. request[a] \in {None} \cup Requests
    BY DEF IInv, PageTyped
  <2>3. CASE request[a] # None /\ request[a].at = "reading"
    <3> DEFINE r == [request[a] EXCEPT !.vouched = known]
    <3>1. request'[a] = r
      BY <2>1, <2>3, Zenon DEF Vouch
    <3>2. /\ r \in Requests /\ r.at = request[a].at /\ r.asked = request[a].asked
          /\ r.vouched = known
      <4> HIDE DEF known
      <4>1. QED BY <1>1, <2>2, <2>3 DEF Requests
    <3>3. r # None
      BY <3>2 DEF Sensible
    <3> HIDE DEF r, known
    <3>4. QED BY <2>3, <3>1, <3>2, <3>3 DEF At
  <2>4. CASE ~(request[a] # None /\ request[a].at = "reading")
    BY <2>1, <2>2, <2>4, Zenon DEF Vouch, At
  <2>5. QED BY <2>3, <2>4
<1>3. PageTyped'
  <2>1. request' \in [Attachments -> {None} \cup Requests]
    BY <1>2 DEF VouchAll
  <2>2. QED BY <2>1 DEF IInv, PageTyped
<1>4. ClientTyped' /\ ConsentTyped'
  <2>1. FALSE \in BOOLEAN /\ (vouched /\ known) \in BOOLEAN
    OBVIOUS
  <2>2. vouched' = (vouched /\ known) /\ fresh' = FALSE
    BY Zenon DEF Decided
  <2>3. vouched' \in BOOLEAN /\ fresh' \in BOOLEAN
    BY <2>1, <2>2, Zenon
  <2>4. consent' \in Consents /\ network' \in Consents
    BY DEF Decided, Consents
  <2>5. UNCHANGED <<syncClient, pending, running>>
    BY DEF Decided
  <2>6. QED BY <2>3, <2>4, <2>5 DEF IInv, ConsentTyped, ClientTyped
<1>5. SlotInv'
  BY <1>2, PlacesStay DEF IInv
<1>6. ConsentInv'
  <2>1. ~fresh' /\ (consent' = "allowed" => known)
    BY DEF Decided
  <2>2. \A a \in Attachments : At(a)' = "reading" /\ consent' = "allowed" => request'[a].vouched
    BY <1>2, <2>1
  <2>3. \A a \in Attachments : request'[a] # None => a \in Trusted \/ request'[a].asked
    BY <1>2 DEF IInv, ConsentInv
  <2>4. QED BY <2>1, <2>2, <2>3 DEF ConsentInv
<1>7. QED BY <1>2, <1>3, <1>4, <1>5, <1>6 DEF IInv, NoneFetched

\* The consent update on behalf of a bubble was answered.
LEMMA AcceptedKeeps ==
  ASSUME Sensible, IInv, NEW a \in Attachments, Accepted(a)
  PROVE  IInv' /\ NoneFetched
<1>1. opening' \in [Attachments -> {None, 0} \cup Clients]
  BY DEF IInv, ClientTyped, Accepted
<1>2. /\ Decided("allowed") /\ request' = VouchAll(request, "allowed")
      /\ UNCHANGED <<client, opened, bubble, row>> /\ UNCHANGED slots
  BY DEF Accepted
<1>3. QED BY <1>1, <1>2, DecidedKeeps

\* The person allows or denies the conversation: what a sync found before no longer counts.
LEMMA DecideKeeps ==
  ASSUME Sensible, IInv, NEW to \in {"allowed", "denied"}, Decide(to)
  PROVE  IInv' /\ NoneFetched
<1>1. opening' \in [Attachments -> {None, 0} \cup Clients]
  BY DEF IInv, ClientTyped, Decide
<1>2. /\ Decided(to) /\ request' = VouchAll(request, to)
      /\ UNCHANGED <<client, opened, bubble, row>> /\ UNCHANGED slots
  BY DEF Decide
<1>3. QED BY <1>1, <1>2, DecidedKeeps

\* After the acceptance the attachment loads.
LEMMA LoadAcceptedKeeps ==
  ASSUME Sensible, IInv, NEW a \in Attachments, LoadAccepted(a)
  PROVE  IInv' /\ NoneFetched
<1> DEFINE unknown == a \notin Trusted
<1>1. unknown \in BOOLEAN /\ bubble \in [Attachments -> Bubbles]
  BY DEF IInv, PageTyped
<1>2. Requested(a, unknown, bubble)
  BY DEF LoadAccepted
<1> HIDE DEF unknown
<1>3. PageTyped' /\ SlotInv' /\ Sound /\ NoneFetched
  BY <1>1, <1>2, RequestedKeeps
<1>4. UNCHANGED <<client, opened, consent, network, vouched, prefs>>
  BY DEF LoadAccepted
<1>5. ClientTyped' /\ ConsentTyped'
  BY <1>4 DEF IInv, ClientTyped, ConsentTyped, prefs, LoadAccepted
<1>6. ConsentInv'
  BY <1>3, <1>4, ConsentStays DEF IInv, prefs
<1>7. QED BY <1>3, <1>5, <1>6 DEF IInv

\* The consent update failed.
LEMMA AcceptFailsKeeps ==
  ASSUME Sensible, IInv, NEW a \in Attachments, AcceptFails(a)
  PROVE  IInv' /\ NoneFetched
<1>1. /\ UNCHANGED <<request, row>> /\ UNCHANGED slots
      /\ UNCHANGED <<client, opened>> /\ UNCHANGED <<consent, network, vouched, prefs>>
  BY DEF AcceptFails
<1>2. bubble' \in [Attachments -> Bubbles]
  <2>1. bubble \in [Attachments -> Bubbles] /\ Failed(bubble[a]) \in Bubbles
    BY BubblesAre DEF IInv, PageTyped
  <2>2. bubble' = [bubble EXCEPT ![a] = IF @.load = "loading" THEN Failed(@) ELSE @]
    BY DEF AcceptFails
  <2>3. QED BY <2>1, <2>2
<1>3. ClientTyped'
  BY <1>1 DEF IInv, ClientTyped, AcceptFails
<1>4. ConsentTyped' /\ PageTyped'
  BY <1>1, <1>2 DEF IInv, ConsentTyped, prefs, PageTyped
<1>5. SlotInv'
  BY <1>1, PlacesStay DEF IInv, At
<1>6. ConsentInv'
  BY <1>1 DEF IInv, ConsentInv, At, prefs
<1>7. QED BY <1>1, <1>3, <1>4, <1>5, <1>6 DEF IInv, NoneFetched, At
-----------------------------------------------------------------------------
(* loadRemoteAttachment *)

\* A request goes on to a step at which it holds its slot still.
LEMMA AdvanceKeeps ==
  ASSUME Sensible, IInv, NEW a \in Attachments, At(a) \in Holding,
         NEW to \in Holding \ {"reading"}, Advance(a, to), UNCHANGED slots,
         UNCHANGED <<row, bubble>>
  PROVE  /\ PageTyped' /\ SlotInv' /\ Sound
         /\ At(a)' = to /\ \A b \in Attachments : b # a => At(b)' = At(b)
<1>1. request[a] \in Requests /\ request[a] # None
  BY EntryIs DEF IInv, Holding
<1> DEFINE r == [request[a] EXCEPT !.at = to]
<1>2. to \in Steps
  BY DEF Steps, Holding
<1>3. r \in Requests /\ r # None /\ r.at = to /\ r.asked = request[a].asked
  BY <1>1, <1>2, EntryGoesOn, Zenon
<1>4. request' = [request EXCEPT ![a] = r]
  BY DEF Advance
<1> HIDE DEF r
<1>5. request'[a] = r /\ \A b \in Attachments : b # a => request'[b] = request[b]
  BY <1>4 DEF IInv, PageTyped
<1>6. PageTyped'
  BY <1>3, <1>4 DEF IInv, PageTyped
<1>7. At(a)' = to /\ \A b \in Attachments : b # a => At(b)' = At(b)
  BY <1>3, <1>5 DEF At
<1>8. SlotInv'
  BY <1>7, PlacesStay DEF IInv
<1>9. Sound
  BY <1>1, <1>3, <1>5 DEF Sound, IInv, ConsentInv
<1>10. QED BY <1>6, <1>7, <1>8, <1>9

\* A request with a slot, or past it, fails.
LEMMA OneFails ==
  ASSUME Sensible, IInv, NEW a \in Attachments, At(a) \notin {"none", "queued"},
         NEW why \in {"failed", "refused"}, Fail({a}, why)
  PROVE  PageTyped' /\ SlotInv' /\ Sound /\ NoneFetched
<1>1. {a} \in SUBSET Attachments /\ {a} \cap Queued = {}
  BY DEF Queued, InStep
<1>2. /\ PageTyped' /\ SlotInv' /\ Settles
      /\ \A b \in Attachments : At(b)' \in {At(b), "none", "authorizing"}
  BY <1>1, FailKeeps DEF IInv
<1>3. QED BY <1>2, SettlesIsSound DEF IInv, NoneFetched

\* A request with a slot is authorized by the consent just synced.
LEMMA AuthorizeKeeps ==
  ASSUME Sensible, IInv, NEW a \in Attachments, Authorize(a)
  PROVE  IInv' /\ NoneFetched
<1> DEFINE own == request[a].own
<1>1. /\ At(a) = "authorizing" /\ At(a) \in Holding /\ At(a) \notin {"none", "queued"}
      /\ request[a] \in Requests /\ request[a] # None /\ own \in Clients
  BY EntryIs DEF IInv, Authorize, Holding
<1>2. UNCHANGED <<client, opened, opening>> /\ UNCHANGED <<consent, network, vouched>>
  BY DEF Authorize
<1>3. CASE Fail({a}, "failed") /\ UNCHANGED prefs
  BY <1>1, <1>2, <1>3, OneFails, PageMoves DEF Elsewhere
<1>4. CASE /\ fresh /\ request' = [request EXCEPT ![a].at = "reading", ![a].vouched = vouched]
           /\ UNCHANGED <<prefs, slots, row, bubble>>
  <2> DEFINE m == [request[a] EXCEPT !.at = "reading"]
             b == [m EXCEPT !.vouched = vouched]
  <2>1. "reading" \in Steps /\ vouched \in BOOLEAN
    BY DEF Steps, IInv, ConsentTyped
  <2>2. b \in Requests /\ b # None /\ b.at = "reading" /\ b.vouched = vouched
        /\ b.asked = request[a].asked
    <3>1. m \in Requests /\ m.at = "reading" /\ m.asked = request[a].asked
      BY <1>1, <2>1, EntryGoesOn, Zenon
    <3> HIDE DEF m
    <3>2. QED BY <2>1, <3>1, EntryIsVouched
  <2>3. request' = [request EXCEPT ![a] = b]
    <3> DEFINE c == [request EXCEPT ![a].at = "reading"]
    <3>1. c[a] = m /\ c = [request EXCEPT ![a] = m]
      BY DEF IInv, PageTyped
    <3>2. request' = [c EXCEPT ![a] = [c[a] EXCEPT !.vouched = vouched]]
      BY <1>4
    <3> HIDE DEF c, m
    <3>3. request' = [c EXCEPT ![a] = b]
      BY <3>1, <3>2
    <3> HIDE DEF b
    <3>4. QED BY <3>1, <3>3 DEF IInv, PageTyped
  <2> HIDE DEF b
  <2>4. request'[a] = b /\ \A d \in Attachments : d # a => request'[d] = request[d]
    BY <2>3 DEF IInv, PageTyped
  <2>5. PageTyped'
    BY <1>4, <2>2, <2>3 DEF IInv, PageTyped
  <2>6. At(a)' = "reading" /\ \A d \in Attachments : d # a => At(d)' = At(d)
    BY <2>2, <2>4 DEF At
  <2>7. SlotInv'
    <3>1. {At(a), At(a)'} \subseteq Holding
      BY <1>1, <2>6 DEF Holding
    <3>2. QED BY <1>4, <2>6, <3>1, PlacesStay DEF IInv
  <2>8. ClientTyped' /\ ConsentTyped'
    BY <1>2, <1>4 DEF IInv, ClientTyped, ConsentTyped, prefs
  <2>9. ConsentInv'
    <3>1. consent = "allowed" => vouched
      BY <1>4 DEF IInv, ConsentInv
    <3>2. \A d \in Attachments : consent = "allowed" /\ At(d)' = "reading" => request'[d].vouched
      BY <2>2, <2>4, <2>6, <3>1 DEF IInv, ConsentInv
    <3>3. \A d \in Attachments : request'[d] # None => d \in Trusted \/ request'[d].asked
      BY <1>1, <2>2, <2>4 DEF IInv, ConsentInv
    <3>4. QED BY <1>2, <3>1, <3>2, <3>3 DEF ConsentInv
  <2>10. QED BY <2>5, <2>6, <2>7, <2>8, <2>9 DEF IInv, NoneFetched
<1>5. CASE Advance(a, "syncing") /\ UNCHANGED slots /\ UNCHANGED <<row, bubble>>
           /\ fresh' = fresh /\ {syncClient, pending}' \subseteq {None, own} \cup {syncClient, pending}
           /\ running' \subseteq running \cup {own}
  <2>1. "syncing" \in Holding \ {"reading"}
    BY DEF Holding
  <2>2. /\ PageTyped' /\ SlotInv' /\ Sound
        /\ At(a)' = "syncing" /\ \A b \in Attachments : b # a => At(b)' = At(b)
    BY <1>1, <1>5, <2>1, AdvanceKeeps
  <2>3. ClientTyped' /\ ConsentTyped'
    BY <1>1, <1>2, <1>5 DEF IInv, ClientTyped, ConsentTyped
  <2>4. ConsentInv'
    BY <1>2, <1>5, <2>2, ConsentStays DEF IInv
  <2>5. QED BY <2>2, <2>3, <2>4 DEF IInv, NoneFetched
<1>6. QED
  <2>1. \/ Fail({a}, "failed") /\ UNCHANGED prefs
        \/ /\ fresh /\ request' = [request EXCEPT ![a].at = "reading", ![a].vouched = vouched]
           /\ UNCHANGED <<prefs, slots, row, bubble>>
        \/ Advance(a, "syncing") /\ UNCHANGED <<prefs, slots, row, bubble>>
        \/ /\ Advance(a, "syncing") /\ fresh' = fresh
           /\ syncClient' = own /\ pending' = own /\ running' = running \cup {own}
           /\ UNCHANGED <<slots, row, bubble>>
    BY Zenon DEF Authorize, SyncStarts
  <2>2. QED BY <1>3, <1>4, <1>5, <2>1 DEF prefs

\* preferences.sync answers: the consent is the network's, the requests that waited
\* for it read it, and what those past their sync know is brought up to date.
LEMMA SyncEndsKeeps ==
  ASSUME Sensible, IInv, NEW c \in Clients, SyncEnds(c)
  PROVE  IInv' /\ NoneFetched
<1>1. UNCHANGED <<client, opened, opening>> /\ UNCHANGED <<network, syncClient>>
      /\ pending' \in {pending, None} /\ running' \subseteq running
  <2>1. /\ UNCHANGED <<client, opened, opening>> /\ UNCHANGED <<network, syncClient>>
        /\ pending' = (IF pending = c THEN None ELSE pending) /\ running' = running \ {c}
    BY Zenon DEF SyncEnds
  <2>2. QED BY <2>1
<1>2. ClientTyped'
  BY <1>1 DEF IInv, ClientTyped
<1>3. CASE /\ Fail({a \in InStep({"syncing"}) : request[a].own = c}, "failed")
           /\ UNCHANGED <<consent, fresh, vouched>>
  <2> DEFINE lost == {a \in InStep({"syncing"}) : request[a].own = c}
  <2>1. lost \in SUBSET Attachments /\ lost \cap Queued = {}
    BY DEF Queued, InStep
  <2>2. Fail(lost, "failed")
    BY <1>3
  <2> HIDE DEF lost
  <2>3. /\ PageTyped' /\ SlotInv' /\ Settles
        /\ \A b \in Attachments : At(b)' \in {At(b), "none", "authorizing"}
    BY <2>1, <2>2, FailKeeps DEF IInv
  <2>4. ConsentInv'
    BY <1>3, <2>3, SettlesIsSound, ConsentStays DEF IInv
  <2>5. ConsentTyped'
    BY <1>1, <1>3 DEF IInv, ConsentTyped
  <2>6. QED BY <1>2, <2>3, <2>4, <2>5 DEF IInv, NoneFetched
<1>4. CASE /\ consent' = network
           /\ fresh' = (fresh \/ c = client) /\ vouched' = (network = "allowed")
           /\ request' = [a \in Attachments |->
                IF At(a) = "syncing" /\ request[a].own = c
                THEN [request[a] EXCEPT !.at = "reading", !.vouched = network = "allowed"]
                ELSE Vouch(request[a], network)]
           /\ UNCHANGED <<slots, row, bubble>>
  <2> DEFINE known == network = "allowed"
             mine == fresh \/ c = client
             entry(a) == IF At(a) = "syncing" /\ request[a].own = c
                         THEN [request[a] EXCEPT !.at = "reading", !.vouched = network = "allowed"]
                         ELSE Vouch(request[a], network)
  <2>1. known \in BOOLEAN /\ mine \in BOOLEAN /\ "reading" \in Steps
    BY DEF Steps
  <2>0. request' = [a \in Attachments |-> entry(a)] /\ UNCHANGED <<slots, row, bubble>>
    BY <1>4, Zenon
  <2>2. ASSUME NEW a \in Attachments
        PROVE  /\ request'[a] \in {None} \cup Requests
               /\ request'[a] # None => request[a] # None /\ request'[a].asked = request[a].asked
               /\ At(a)' = "reading" => request'[a].vouched = known
               /\ At(a)' = At(a) \/ (At(a) = "syncing" /\ At(a)' = "reading")
    <3>1. request[a] \in {None} \cup Requests
      BY DEF IInv, PageTyped
    <3>2. CASE At(a) = "syncing" /\ request[a].own = c
      <4> DEFINE m == [request[a] EXCEPT !.at = "reading"]
                 r == [m EXCEPT !.vouched = known]
      <4>1. request'[a] = r
        BY <1>4, <3>2, Zenon
      <4>2. request[a] \in Requests /\ request[a] # None
        BY <3>1, <3>2 DEF At
      <4>3. r \in Requests /\ r # None /\ r.at = "reading" /\ r.vouched = known
            /\ r.asked = request[a].asked
        <5>1. m \in Requests /\ m.at = "reading" /\ m.asked = request[a].asked
          BY <2>1, <4>2, EntryGoesOn, Zenon
        <5> HIDE DEF m, known
        <5>2. QED BY <2>1, <5>1, EntryIsVouched
      <4> HIDE DEF known
      <4> HIDE DEF r
      <4>4. QED BY <3>2, <4>1, <4>2, <4>3 DEF At
    <3>3. CASE ~(At(a) = "syncing" /\ request[a].own = c) /\ request[a] # None /\ request[a].at = "reading"
      <4> DEFINE r == [request[a] EXCEPT !.vouched = known]
      <4>1. request'[a] = r
        <5>1. request'[a] = Vouch(request[a], network)
          BY <1>4, <3>3, Zenon
        <5>2. QED BY <3>3, <5>1, Zenon DEF Vouch
      <4> HIDE DEF known
      <4>2. r \in Requests /\ r.at = "reading" /\ r.asked = request[a].asked /\ r.vouched = known
        BY <2>1, <3>1, <3>3 DEF Requests
      <4>3. r # None
        BY <4>2 DEF Sensible
      <4> HIDE DEF r
      <4>4. QED BY <3>3, <4>1, <4>2, <4>3 DEF At
    <3>4. CASE ~(At(a) = "syncing" /\ request[a].own = c) /\ ~(request[a] # None /\ request[a].at = "reading")
      <4>1. request'[a] = Vouch(request[a], network)
        BY <1>4, <3>4, Zenon
      <4>2. request'[a] = request[a]
        BY <3>4, <4>1, Zenon DEF Vouch
      <4>3. At(a)' = At(a) /\ At(a)' # "reading"
        BY <3>4, <4>2 DEF At
      <4> HIDE DEF known
      <4>4. request'[a] \in {None} \cup Requests
            /\ (request'[a] # None => request[a] # None /\ request'[a].asked = request[a].asked)
        BY <3>1, <4>2
      <4>5. QED BY <4>3, <4>4, Zenon
    <3>5. QED BY <3>2, <3>3, <3>4
  <2>3. PageTyped'
    <3> HIDE DEF entry
    <3>1. request' \in [Attachments -> {None} \cup Requests]
      BY <2>0, <2>2
    <3>2. QED BY <2>0, <3>1 DEF IInv, PageTyped
  <2>4. vouched' = known /\ fresh' = mine /\ consent' = network
    BY <1>4, Zenon
  <2>5. ConsentTyped'
    <3>1. vouched' \in BOOLEAN /\ fresh' \in BOOLEAN
      BY <2>1, <2>4, Zenon
    <3>2. QED BY <1>1, <2>4, <3>1 DEF IInv, ConsentTyped
  <2>6. SlotInv'
    <3>1. \A a \in Attachments : At(a)' = At(a) \/ {At(a), At(a)'} \subseteq Holding
      BY <2>2 DEF Holding
    <3> HIDE DEF entry
    <3>2. UNCHANGED slots
      BY <2>0
    <3>3. QED BY <3>1, <3>2, PlacesStay DEF IInv
  <2>7. ConsentInv'
    <3>1. consent' = "allowed" => known
      BY <2>4
    <3>2. \A a \in Attachments : request'[a] # None => a \in Trusted \/ request'[a].asked
      BY <2>2 DEF IInv, ConsentInv
    <3> HIDE DEF known
    <3>3. \A a \in Attachments : consent' = "allowed" /\ At(a)' = "reading" => request'[a].vouched
      BY <2>2, <3>1
    <3>4. QED BY <2>4, <3>1, <3>2, <3>3 DEF ConsentInv
  <2>8. NoneFetched
    BY <2>2 DEF NoneFetched
  <2>9. QED BY <1>2, <2>3, <2>5, <2>6, <2>7, <2>8 DEF IInv
<1>5. QED BY <1>3, <1>4, Zenon DEF SyncEnds

\* The only step that contacts a host.
LEMMA ReadConsentKeeps ==
  ASSUME Sensible, IInv, NEW a \in Attachments, ReadConsent(a)
  PROVE  IInv' /\ FetchStep
<1>1. /\ At(a) \in Holding /\ At(a) \notin {"none", "queued"} /\ At(a) = "reading"
      /\ "fetching" \in Holding \ {"reading"} /\ request[a] # None
  BY EntryIs DEF ReadConsent, Holding, IInv
<1>2. Elsewhere
  BY DEF ReadConsent, Elsewhere
<1>3. CASE /\ request[a].own = client /\ consent = "allowed"
           /\ Advance(a, "fetching") /\ UNCHANGED slots /\ UNCHANGED <<row, bubble>>
  <2>1. /\ PageTyped' /\ SlotInv' /\ Sound
        /\ \A b \in Attachments : b # a => At(b)' = At(b)
    BY <1>1, <1>3, AdvanceKeeps
  <2>2. request[a].vouched /\ (a \in Trusted \/ request[a].asked)
    BY <1>1, <1>3 DEF IInv, ConsentInv
  <2>3. FetchStep
    BY <1>3, <2>1, <2>2 DEF FetchStep
  <2>4. QED BY <1>2, <2>1, <2>3, PageMoves
<1>4. CASE Fail({a}, "failed") \/ Fail({a}, "refused")
  BY <1>1, <1>2, <1>4, OneFails, PageMoves DEF NoneFetched, FetchStep
<1>5. QED BY <1>3, <1>4 DEF ReadConsent

\* A failed download gives its slot to the first that waits.
LEMMA FetchFailsKeeps ==
  ASSUME Sensible, IInv, NEW a \in Attachments, FetchFails(a)
  PROVE  IInv' /\ NoneFetched
<1>1. At(a) \notin {"none", "queued"} /\ Fail({a}, "failed") /\ Elsewhere
  BY DEF FetchFails, Elsewhere
<1>2. QED BY <1>1, OneFails, PageMoves

\* The bytes are there: the slot goes to the first waiter before they are checked.
LEMMA FetchEndsKeeps ==
  ASSUME Sensible, IInv, NEW a \in Attachments, FetchEnds(a)
  PROVE  IInv' /\ NoneFetched
<1> DEFINE next == GivenSlots(1)
           r == [request[a] EXCEPT !.at = "checking"]
<1>1. Elsewhere /\ UNCHANGED <<bubble, row>> /\ Release(1) /\ At(a) = "fetching"
  BY DEF FetchEnds, Elsewhere
<1>2. /\ next \subseteq Queued
      /\ \A b \in next : /\ request[b] \in Requests /\ request[b] # None
                         /\ [request[b] EXCEPT !.at = "authorizing"] \in Requests
                         /\ [request[b] EXCEPT !.at = "authorizing"] # None
                         /\ [request[b] EXCEPT !.at = "authorizing"].at = "authorizing"
                         /\ [request[b] EXCEPT !.at = "authorizing"].asked = request[b].asked
  BY WaitersGoOn DEF IInv
<1>3. request[a] \in Requests /\ request[a] # None
  BY <1>1, EntryIs DEF IInv
<1>4. r \in Requests /\ r # None /\ r.at = "checking" /\ r.asked = request[a].asked
  <2>1. "checking" \in Steps
    BY DEF Steps
  <2>2. QED BY <1>3, <2>1, EntryGoesOn, Zenon
<1>5. request' = [b \in Attachments |->
         IF b = a THEN r
         ELSE IF b \in next THEN [request[b] EXCEPT !.at = "authorizing"] ELSE request[b]]
  BY Zenon DEF FetchEnds
<1> HIDE DEF next, r
<1>6. /\ \A b \in next : b \in Attachments /\ At(b) = "queued" /\ b # a
  BY <1>1, <1>2 DEF Queued, InStep
<1>7. \A b \in Attachments :
        /\ b = a => request'[b] = r
        /\ b \in next => request'[b] = [request[b] EXCEPT !.at = "authorizing"]
        /\ b \notin next \cup {a} => request'[b] = request[b]
  BY <1>5, <1>6
<1>8. PageTyped'
  <2>1. request' \in [Attachments -> {None} \cup Requests]
    BY <1>2, <1>4, <1>5 DEF IInv, PageTyped
  <2>2. QED BY <1>1, <2>1 DEF IInv, PageTyped
<1>9. \A b \in Attachments :
        /\ b = a => At(b)' = "checking"
        /\ b \in next => At(b)' = "authorizing"
        /\ b \notin next \cup {a} => At(b)' = At(b)
  BY <1>2, <1>4, <1>7 DEF At
<1>10. Queued' = Queued \ next /\ Holders' = (Holders \ {a}) \cup next
  <2>1. Queued' = Queued \ next
    BY <1>1, <1>6, <1>9 DEF Queued, InStep
  <2>2. Holders' = (Holders \ {a}) \cup next
    BY <1>1, <1>6, <1>9 DEF Holders, InStep, Holding
  <2>3. QED BY <2>1, <2>2
<1>11. SlotInv'
  <2>1. {a} \in SUBSET Holders /\ Cardinality({a}) = 1
    BY <1>1, FS_Singleton DEF Holders, InStep, Holding
  <2>2. QED BY <1>1, <1>10, <2>1, ReleaseKeeps DEF IInv, next
<1>12. Sound
  BY <1>2, <1>3, <1>4, <1>7 DEF Sound, IInv, ConsentInv
<1>13. NoneFetched
  BY <1>9 DEF NoneFetched
<1>14. QED BY <1>1, <1>8, <1>11, <1>12, <1>13, PageMoves

\* The consent is read once more before the bytes are kept.
LEMMA CheckKeeps ==
  ASSUME Sensible, IInv, NEW a \in Attachments, Check(a)
  PROVE  IInv' /\ NoneFetched
<1>1. At(a) = "checking" /\ Elsewhere
  BY DEF Check, Elsewhere
<1>2. CASE Fail({a}, "failed") \/ Fail({a}, "refused")
  BY <1>1, <1>2, OneFails, PageMoves
<1>3. CASE /\ row' = [row EXCEPT ![a] = "cached"] /\ request' = [request EXCEPT ![a] = None]
           /\ bubble' = [bubble EXCEPT ![a] = IF @.load = "joined" THEN Bubble("cached") ELSE @]
           /\ UNCHANGED slots
  <2>1. PageTyped'
    <3>1. bubble \in [Attachments -> Bubbles] /\ Bubble("cached") \in Bubbles
      BY BubblesAre DEF IInv, PageTyped, States
    <3>2. bubble' \in [Attachments -> Bubbles]
      BY <1>3, <3>1
    <3>3. QED BY <1>3, <3>2 DEF IInv, PageTyped, States
  <2>2. request'[a] = None /\ \A b \in Attachments : b # a => request'[b] = request[b]
    BY <1>3 DEF IInv, PageTyped
  <2>3. At(a)' = "none" /\ \A b \in Attachments : b # a => At(b)' = At(b)
    BY <2>2 DEF At
  <2>4. SlotInv'
    <3>1. {At(a), At(a)'} \cap (Holding \cup {"queued"}) = {}
      BY <1>1, <2>3 DEF Holding
    <3>2. QED BY <1>3, <2>3, <3>1, PlacesStay DEF IInv
  <2>5. Sound
    BY <2>2 DEF Sound, IInv, ConsentInv
  <2>6. QED BY <1>1, <2>1, <2>3, <2>4, <2>5, PageMoves DEF NoneFetched
<1>4. QED BY <1>2, <1>3 DEF Check
-----------------------------------------------------------------------------
(* The rest of the world *)

\* Decisions in other clients, the end of a window, a disconnect and a reconnect.
LEMMA WorldKeeps ==
  ASSUME Sensible, IInv, DecidedElsewhere("allowed") \/ DecidedElsewhere("denied") \/ WindowEnds
                         \/ Disconnect \/ Connect \/ UNCHANGED vars
  PROVE  IInv' /\ NoneFetched
<1>1. UNCHANGED <<request, opening, bubble, row>> /\ UNCHANGED slots
  BY DEF DecidedElsewhere, WindowEnds, Disconnect, Connect, vars, page
<1>2. PageTyped'
  BY <1>1 DEF IInv, PageTyped
<1>3. SlotInv'
  BY <1>1, PlacesStay DEF IInv, At
<1>4. ConsentTyped'
  <2>1. UNCHANGED <<consent, syncClient, pending, running>>
    BY DEF DecidedElsewhere, WindowEnds, Disconnect, Connect, vars, prefs
  <2>2. network' \in {network, "allowed", "denied"}
    BY DEF DecidedElsewhere, WindowEnds, Disconnect, Connect, vars
  <2>3. UNCHANGED <<fresh, vouched>> \/ (fresh' = FALSE /\ vouched' = FALSE)
    <3>1. CASE WindowEnds
      BY <3>1, Zenon DEF WindowEnds
    <3>2. CASE ~WindowEnds
      <4>1. UNCHANGED prefs /\ UNCHANGED vouched
        BY <3>2 DEF DecidedElsewhere, Disconnect, Connect, vars
      <4>2. UNCHANGED fresh
        BY <4>1, Zenon DEF prefs
      <4>3. QED BY <4>1, <4>2
    <3>3. QED BY <3>1, <3>2, Zenon
  <2>4. fresh' \in BOOLEAN /\ vouched' \in BOOLEAN
    <3>1. FALSE \in BOOLEAN
      OBVIOUS
    <3>2. QED BY <2>3, <3>1, Zenon DEF IInv, ConsentTyped
  <2>5. QED BY <2>1, <2>2, <2>4 DEF IInv, ConsentTyped, Consents
<1>5. ClientTyped'
  <2>1. CASE UNCHANGED <<client, opened>>
    BY <1>1, <2>1 DEF IInv, ClientTyped
  <2>2. CASE Disconnect
    BY <1>1, <2>2 DEF IInv, ClientTyped, Disconnect
  <2>3. CASE Connect
    <3>1. opened \in Clients /\ MaxClients \in Nat /\ opened < MaxClients
      BY <2>3 DEF IInv, ClientTyped, Connect, Sensible
    <3>2. opened + 1 \in Clients
      BY <3>1 DEF Clients
    <3>3. QED BY <1>1, <2>3, <3>2 DEF IInv, ClientTyped, Connect
  <2>4. QED BY <2>1, <2>2, <2>3 DEF DecidedElsewhere, WindowEnds, vars
<1>6. ConsentInv'
  <2>1. consent' = consent /\ (UNCHANGED <<fresh, vouched>> \/ ~fresh')
    BY Zenon DEF DecidedElsewhere, WindowEnds, Disconnect, Connect, vars, prefs
  <2>2. QED BY <1>1, <2>1 DEF IInv, ConsentInv, At
<1>7. QED BY <1>1, <1>2, <1>3, <1>4, <1>5, <1>6 DEF IInv, NoneFetched, At
-----------------------------------------------------------------------------
(* The theorems *)

\* The invariant holds at the start ...
LEMMA InitIInv ==
  ASSUME Sensible, Init
  PROVE  IInv
<1>1. 1 \in Clients
  BY DEF Sensible, Clients
<1>2. FALSE \in BOOLEAN /\ {} \subseteq Clients
  OBVIOUS
<1>3. /\ client = 1 /\ opened = 1 /\ syncClient = None /\ pending = None /\ running = {}
      /\ consent \in Consents /\ network = consent /\ count = 0 /\ queue = <<>>
      /\ opening = [a \in Attachments |-> None] /\ row = [a \in Attachments |-> "remote"]
      /\ bubble = [a \in Attachments |-> Unmounted]
  BY DEF Init
<1>4. /\ fresh = FALSE /\ vouched = FALSE /\ request = [a \in Attachments |-> None]
  BY DEF Init
<1>5. ClientTyped
  BY <1>1, <1>3 DEF ClientTyped
<1>6. ConsentTyped
  <2>1. fresh \in BOOLEAN /\ vouched \in BOOLEAN
    BY <1>2, <1>4, Zenon
  <2>2. QED BY <1>3, <2>1 DEF ConsentTyped
<1>7. PageTyped
  <2>1. bubble \in [Attachments -> Bubbles]
    BY <1>3, BubblesAre
  <2>2. QED BY <1>3, <1>4, <2>1 DEF PageTyped, States
<1>8. \A a \in Attachments : At(a) = "none"
  BY <1>4 DEF At
<1>9. SlotInv
  <2>1. Queued = {} /\ Holders = {}
    BY <1>8 DEF Queued, Holders, InStep, Holding
  <2>2. queue \in Seq(Attachments) /\ Len(queue) = 0 /\ queue = <<>>
    BY <1>3, EmptySeq
  <2>3. count = Cardinality(Holders) /\ count <= MaxConcurrent
    BY <1>3, <2>1, FS_EmptySet DEF Sensible
  <2>4. 1 .. Len(queue) = {}
    BY <2>2
  <2>5. QED BY <2>1, <2>2, <2>3, <2>4 DEF SlotInv
<1>10. ConsentInv
  BY <1>4, <1>8 DEF ConsentInv
<1>11. QED BY <1>5, <1>6, <1>7, <1>9, <1>10 DEF IInv

\* ... and in every step, which contacts no host it must not.
LEMMA NextIInv ==
  ASSUME Sensible, IInv, [DownloadNext]_vars
  PROVE  IInv' /\ FetchStep /\ [FetchStep]_vars
<1> USE DEF NoneFetched, FetchStep
<1>1. ASSUME NEW a \in Attachments,
             \/ Mount(a) \/ AutoLoad(a) \/ PressLoad(a) \/ PressAccept(a) \/ Accepted(a)
             \/ LoadAccepted(a) \/ AcceptFails(a)
      PROVE  IInv' /\ FetchStep
  BY <1>1, MountKeeps, LoadKeeps, PressAcceptKeeps, AcceptedKeeps, LoadAcceptedKeeps, AcceptFailsKeeps
<1>2. ASSUME NEW a \in Attachments,
             Authorize(a) \/ ReadConsent(a) \/ FetchFails(a) \/ FetchEnds(a) \/ Check(a)
      PROVE  IInv' /\ FetchStep
  BY <1>2, AuthorizeKeeps, ReadConsentKeeps, FetchFailsKeeps, FetchEndsKeeps, CheckKeeps
<1>3. ASSUME NEW c \in 1 .. MaxClients, SyncEnds(c)
      PROVE  IInv' /\ FetchStep
  BY <1>3, SyncEndsKeeps DEF Clients
<1>4. ASSUME NEW to \in {"allowed", "denied"}, Decide(to) \/ DecidedElsewhere(to)
      PROVE  IInv' /\ FetchStep
  BY <1>4, DecideKeeps, WorldKeeps
<1>5. CASE WindowEnds \/ Disconnect \/ Connect \/ UNCHANGED vars
  BY <1>5, WorldKeeps
<1>6. QED BY <1>1, <1>2, <1>3, <1>4, <1>5 DEF DownloadNext

\* The inductive invariant holds in every state.
THEOREM Invariance == DownloadSpec => []IInv
<1>1. Init => IInv
  BY DownloadAssumption, InitIInv
<1>2. IInv /\ [DownloadNext]_vars => IInv'
  BY DownloadAssumption, NextIInv
<1>3. QED BY <1>1, <1>2, PTL DEF DownloadSpec

\* Every variable keeps its type, and the count never exceeds the slots there are.
THEOREM TypeCorrect == DownloadSpec => []DownloadTypeOK
<1>1. IInv => DownloadTypeOK
  <2> SUFFICES ASSUME IInv PROVE DownloadTypeOK
    OBVIOUS
  <2>1. count \in 0 .. MaxConcurrent
    BY DownloadAssumption, HoldersAreFinite, FS_CardinalityType DEF IInv, SlotInv, Sensible
  <2>2. \A a \in Attachments : At(a) \in {"none"} \cup Steps
    BY DownloadAssumption, EntryIs DEF IInv
  <2>3. \A a \in Attachments : /\ row[a] \in {"remote", "failed", "refused", "cached"}
                               /\ bubble[a].load \in {"idle", "loading", "joined", "failed"}
    BY DEF IInv, PageTyped, States, Bubbles
  <2>4. QED BY <2>1, <2>2, <2>3 DEF IInv, ClientTyped, ConsentTyped, Clients, DownloadTypeOK
<1>2. QED BY <1>1, Invariance, PTL

\* incoming-attachment.ts: for any number of slots, downloads and clients, and in
\* whatever order they end or fail, the count is the number of requests that hold a
\* slot, the queue holds every other one that waits exactly once, and nobody waits
\* while a slot is free.
THEOREM SlotsAreKept == DownloadSpec => []SlotsAreCounted
<1>1. IInv => SlotsAreCounted
  <2> SUFFICES ASSUME IInv PROVE SlotsAreCounted
    OBVIOUS
  <2>1. queue \in Seq(Attachments) /\ Len(queue) \in Nat /\ DOMAIN queue = 1 .. Len(queue)
    BY LenProperties DEF IInv, SlotInv
  <2>2. {queue[k] : k \in 1 .. Len(queue)} = Queued
    BY DEF IInv, SlotInv
  <2>3. Len(queue) \in 0 .. Len(queue)
    BY <2>1
  <2>4. Cardinality(Queued) = Len(queue)
    BY DownloadAssumption, <2>2, <2>3, FrontCounts DEF IInv
  <2>5. QED BY <2>1, <2>2, <2>4 DEF IInv, SlotInv, SlotsAreCounted, Queued, Holders
<1>2. QED BY <1>1, Invariance, PTL

\* FEATURES.md, Attachment Download Security: no host is contacted but for the
\* connected client, with a consent that the last sync found Allowed, and, if the app
\* does not know the host, because the person asked for it.
THEOREM NobodyElseIsAsked == DownloadSpec => HostsAreAuthorized
<1>1. IInv /\ [DownloadNext]_vars => [FetchStep]_vars
  BY DownloadAssumption, NextIInv
<1>2. QED BY <1>1, Invariance, PTL DEF DownloadSpec, HostsAreAuthorized

-----------------------------------------------------------------------------
(***************************************************************************)
(* Reactions                                                               *)
(***************************************************************************)

(* The inductive invariant *)

Events == [who : Senders, add : BOOLEAN]
Arrivals == [who : Senders, add : BOOLEAN, by : Replays \cup {Absent}]
Sets == SUBSET Senders

ReactionsTyped ==
  /\ log \in Seq(Events) /\ arrived \in Seq(Arrivals)
  /\ covered \in Nat /\ covered <= Len(log)
  /\ stored \in {Absent} \cup Sets /\ display \in {Absent} \cup Sets
  /\ handling \in {Absent} \cup Handlings /\ tap \in {Absent} \cup Taps
  /\ loading \in {Absent} \cup Loadings /\ replays \in [Replays -> {Absent} \cup Passes]
  /\ due \in Nat /\ doubtful \in BOOLEAN /\ alone \in {Absent} \cup Replays

EverReacted == {s \in Senders : ReactsIn(s, 1, Len(log))}

\* Nobody is anywhere who never reacted.
NobodyElse ==
  /\ stored # Absent => stored \subseteq EverReacted
  /\ display # Absent => display \subseteq EverReacted
  /\ handling # Absent => handling.new \subseteq EverReacted
  /\ tap # Absent => tap.seen \subseteq EverReacted
  /\ loading # Absent /\ loading.rows # Absent => loading.rows \subseteq EverReacted
  /\ \A i \in 1 .. Len(arrived) : arrived[i].who \in EverReacted

\* The screen and a load have what the row had; a handler has the row it is about to
\* write, or has written it.
HandlerKnows ==
  /\ display # Absent => stored # Absent
  /\ loading # Absent /\ loading.rows # Absent => stored # Absent
  /\ handling # Absent => stored # Absent
  /\ handling # Absent /\ handling.at = "publish" => stored = handling.new

\* The reaction that a tap has sent is the last of this inbox.
TapIsLast ==
  tap # Absent /\ tap.at = "sent" =>
    (me \in Reacted(Len(log)) <=> me \notin tap.seen) /\ ReactsIn(me, 1, Len(log))

\* A replay goes through events of the log, and without doubt it skips none.
ReplayInLog ==
  \A r \in Replays : replays[r] # Absent =>
    /\ replays[r].upTo <= Len(log) /\ replays[r].next \in 1 .. replays[r].upTo + 1
    /\ ~doubtful => replays[r].next <= covered + 1

\* What the last event of the person in a queue says, if there is one.
NotIn(q, s) == \A i \in 1 .. Len(q) : q[i].who # s
LastSays(q, s, b) ==
  \A i \in 1 .. Len(q) :
    q[i].who = s /\ (\A k \in i + 1 .. Len(q) : q[k].who # s) => (q[i].add <=> b)

\* The row is right about a person, as of the first n events, when the queue has been
\* handled: by the last event in the queue, or else by what is in hand already.
InHand(s, n) ==
  /\ handling # Absent /\ handling.at = "write" => (s \in handling.new <=> s \in Reacted(n))
  /\ handling = Absent \/ handling.at # "write" =>
       stored # Absent /\ (s \in stored <=> s \in Reacted(n))
  /\ handling = Absent /\ display # Absent => (s \in display <=> s \in Reacted(n))
Kept(s, n) ==
  /\ LastSays(arrived, s, s \in Reacted(n))
  /\ NotIn(arrived, s) => InHand(s, n)

\* A replay has been overtaken by one that read more, and will notice when it goes on.
Overtaken ==
  \E r \in Replays :
    replays[r] # Absent /\ replays[r].next <= replays[r].upTo /\ covered > replays[r].upTo

\* Nothing more about the person is to come that a replay has brought or is to bring.
Done(s) ==
  /\ ReactsIn(s, 1, Len(log)) /\ ~ReactsIn(s, covered + 1, Len(log))
  /\ \A r \in Replays : replays[r] # Absent => ~ReactsIn(s, replays[r].next, replays[r].upTo)
Certain ==
  ~doubtful /\ ~Overtaken => \A s \in Senders : Done(s) => Kept(s, Len(log))

\* A replay that has the message to itself is the only one, and right as far as it has come.
Replayed ==
  alone # Absent =>
    /\ replays[alone] # Absent /\ \A r \in Replays : r # alone => replays[r] = Absent
    /\ stored # Absent /\ covered <= replays[alone].upTo
    /\ \A s \in Senders :
         ReactsIn(s, 1, replays[alone].next - 1) => Kept(s, replays[alone].next - 1)

\* A handler that found the chat closed leaves it closed.
ClosedStays ==
  ~doubtful \/ alone # Absent =>
    (handling # Absent /\ ~handling.shown => display = Absent)

ReactionsInv ==
  /\ ReactionsTyped /\ NobodyElse /\ HandlerKnows /\ TapIsLast /\ ReplayInLog
  /\ Certain /\ Replayed /\ ClosedStays
-----------------------------------------------------------------------------
(* Queues and logs *)

\* An event that joins a queue speaks for its sender, and for nobody else.
LEMMA AppendSays ==
  ASSUME NEW q \in Seq(Arrivals), NEW e \in Arrivals, NEW s, NEW b \in BOOLEAN
  PROVE  /\ NotIn(Append(q, e), s) <=> NotIn(q, s) /\ e.who # s
         /\ e.who # s => (LastSays(Append(q, e), s, b) <=> LastSays(q, s, b))
         /\ e.who = s => (LastSays(Append(q, e), s, b) <=> (e.add <=> b))
<1> DEFINE r == Append(q, e)
<1>1. /\ Len(q) \in Nat /\ Len(r) = Len(q) + 1
      /\ \A i \in 1 .. Len(q) : r[i] = q[i]
      /\ r[Len(q) + 1] = e
  OBVIOUS
<1> HIDE DEF r
<1>2. NotIn(r, s) <=> NotIn(q, s) /\ e.who # s
  BY <1>1 DEF NotIn
<1>3. ASSUME e.who # s
      PROVE  LastSays(r, s, b) <=> LastSays(q, s, b)
  <2>1. ASSUME NEW i \in 1 .. Len(q)
        PROVE  (\A k \in i + 1 .. Len(r) : r[k].who # s) <=> (\A k \in i + 1 .. Len(q) : q[k].who # s)
    BY <1>1, <1>3
  <2>2. QED BY <1>1, <1>3, <2>1 DEF LastSays
<1>4. ASSUME e.who = s
      PROVE  LastSays(r, s, b) <=> (e.add <=> b)
  <2>1. ASSUME NEW i \in 1 .. Len(q)
        PROVE  ~(\A k \in i + 1 .. Len(r) : r[k].who # s)
    BY <1>1, <1>4
  <2>2. \A k \in Len(q) + 2 .. Len(r) : r[k].who # s
    BY <1>1
  <2>3. QED BY <1>1, <1>4, <2>1, <2>2 DEF LastSays
<1>5. QED BY <1>2, <1>3, <1>4 DEF r

\* The first event of a queue gives way to the others.
LEMMA TailSays ==
  ASSUME NEW q \in Seq(Arrivals), q # <<>>, NEW s, NEW b \in BOOLEAN
  PROVE  /\ LastSays(q, s, b) => LastSays(Tail(q), s, b)
         /\ NotIn(Tail(q), s) /\ Head(q).who # s => NotIn(q, s)
         /\ NotIn(Tail(q), s) /\ Head(q).who = s /\ LastSays(q, s, b) => (Head(q).add <=> b)
<1> DEFINE r == Tail(q)
<1>1. /\ Len(q) \in Nat /\ Len(q) >= 1 /\ Len(r) = Len(q) - 1
      /\ \A i \in 1 .. Len(r) : r[i] = q[i + 1]
      /\ Head(q) = q[1]
  OBVIOUS
<1> HIDE DEF r
<1>2. ASSUME LastSays(q, s, b)
      PROVE  LastSays(r, s, b)
  <2> SUFFICES ASSUME NEW i \in 1 .. Len(r), r[i].who = s, \A k \in i + 1 .. Len(r) : r[k].who # s
               PROVE  r[i].add <=> b
    BY DEF LastSays
  <2>1. ASSUME NEW k \in i + 2 .. Len(q)
        PROVE  q[k].who # s
    <3>1. k - 1 \in i + 1 .. Len(r) /\ r[k - 1] = q[k]
      BY <1>1
    <3>2. QED BY <3>1
  <2>2. i + 1 \in 1 .. Len(q) /\ q[i + 1] = r[i]
    BY <1>1
  <2>3. \A k \in (i + 1) + 1 .. Len(q) : q[k].who # s
    BY <2>1, <1>1
  <2>4. QED BY <1>2, <2>2, <2>3 DEF LastSays
<1>3. ASSUME NotIn(r, s)
      PROVE  \A k \in 2 .. Len(q) : q[k].who # s
  <2> TAKE k \in 2 .. Len(q)
  <2>1. k - 1 \in 1 .. Len(r) /\ r[k - 1] = q[k]
    BY <1>1
  <2>2. QED BY <1>3, <2>1 DEF NotIn
<1>4. NotIn(r, s) /\ Head(q).who # s => NotIn(q, s)
  BY <1>1, <1>3 DEF NotIn
<1>5. NotIn(r, s) /\ Head(q).who = s /\ LastSays(q, s, b) => (Head(q).add <=> b)
  BY <1>1, <1>3 DEF LastSays
<1>6. QED BY <1>2, <1>4, <1>5 DEF r

\* Events of other people change nothing for one.
LEMMA SameReacted ==
  ASSUME NEW s \in Senders, NEW m \in Nat, NEW n \in Nat, m <= n, ~ReactsIn(s, m + 1, n)
  PROVE  s \in Reacted(m) <=> s \in Reacted(n)
<1>1. ASSUME s \in Reacted(m)
      PROVE  s \in Reacted(n)
  <2>1. PICK k \in 1 .. m : log[k].who = s /\ log[k].add /\ \A j \in k + 1 .. m : log[j].who # s
    BY <1>1 DEF Reacted
  <2>2. k \in 1 .. n /\ \A j \in k + 1 .. n : log[j].who # s
    BY <2>1 DEF ReactsIn
  <2>3. QED BY <2>1, <2>2 DEF Reacted
<1>2. ASSUME s \in Reacted(n)
      PROVE  s \in Reacted(m)
  <2>1. PICK k \in 1 .. n : log[k].who = s /\ log[k].add /\ \A j \in k + 1 .. n : log[j].who # s
    BY <1>2 DEF Reacted
  <2>2. k \in 1 .. m /\ \A j \in k + 1 .. m : log[j].who # s
    BY <2>1 DEF ReactsIn
  <2>3. QED BY <2>1, <2>2 DEF Reacted
<1>3. QED BY <1>1, <1>2

\* The last event decides.
LEMMA LastDecides ==
  ASSUME NEW s \in Senders, NEW n \in Nat \ {0}, log[n].who = s, log[n].add \in BOOLEAN
  PROVE  s \in Reacted(n) <=> log[n].add
<1>1. ASSUME s \in Reacted(n)
      PROVE  log[n].add
  <2>1. PICK k \in 1 .. n : log[k].who = s /\ log[k].add /\ \A j \in k + 1 .. n : log[j].who # s
    BY <1>1 DEF Reacted
  <2>2. k = n
    BY <2>1
  <2>3. QED BY <2>1, <2>2
<1>2. log[n].add => s \in Reacted(n)
  BY DEF Reacted
<1>3. QED BY <1>1, <1>2

\* A new event leaves the earlier ones.
LEMMA LogGrows ==
  ASSUME log \in Seq(Events), NEW e \in Events, log' = Append(log, e)
  PROVE  /\ Len(log)' = Len(log) + 1 /\ log' \in Seq(Events) /\ log'[Len(log)'] = e
         /\ \A i \in 1 .. Len(log) : log'[i] = log[i]
         /\ \A n \in 0 .. Len(log) : Reacted(n)' = Reacted(n)
         /\ \A m \in Nat \ {0}, n \in 0 .. Len(log), s \in Senders :
              ReactsIn(s, m, n)' <=> ReactsIn(s, m, n)
<1>1. /\ Len(log) \in Nat /\ Len(log') = Len(log) + 1 /\ log' \in Seq(Events)
      /\ log'[Len(log')] = e
      /\ \A i \in 1 .. Len(log) : log'[i] = log[i]
  OBVIOUS
<1>2. ASSUME NEW n \in 0 .. Len(log)
      PROVE  Reacted(n)' = Reacted(n)
  BY <1>1 DEF Reacted
<1>3. ASSUME NEW m \in Nat \ {0}, NEW n \in 0 .. Len(log), NEW s \in Senders
      PROVE  ReactsIn(s, m, n)' <=> ReactsIn(s, m, n)
  BY <1>1 DEF ReactsIn
<1>4. QED BY <1>1, <1>2, <1>3
-----------------------------------------------------------------------------
(* Steps that leave the log and the queue alone *)

\* The replays are where they were.
SameReplays ==
  /\ replays' \in [Replays -> {Absent} \cup Passes]
  /\ \A r \in Replays :
       /\ replays'[r] = Absent <=> replays[r] = Absent
       /\ replays[r] # Absent =>
            replays'[r].upTo = replays[r].upTo /\ replays'[r].next = replays[r].next

\* What is kept in hand about each person is kept.
LEMMA QuietKeeps ==
  ASSUME ReactionsInv, UNCHANGED <<log, covered, arrived>>, SameReplays,
         ~doubtful' => ~doubtful, alone' \in {alone, Absent},
         stored # Absent => stored' # Absent,
         \A s \in Senders : ~doubtful' /\ InHand(s, Len(log)) => InHand(s, Len(log))',
         \A s \in Senders, n \in Nat : alone' # Absent /\ InHand(s, n) => InHand(s, n)'
  PROVE  Certain' /\ Replayed' /\ ReplayInLog'
<1>1. \A n : Reacted(n)' = Reacted(n)
  BY DEF Reacted
<1>2. \A s, m, n : ReactsIn(s, m, n)' <=> ReactsIn(s, m, n)
  BY DEF ReactsIn
<1>3. \A r \in Replays :
        /\ replays'[r] = Absent <=> replays[r] = Absent
        /\ replays[r] # Absent =>
             replays'[r].upTo = replays[r].upTo /\ replays'[r].next = replays[r].next
  BY DEF SameReplays
<1>4. Certain'
  <2> SUFFICES ASSUME ~doubtful', ~Overtaken', NEW s \in Senders, Done(s)'
               PROVE  Kept(s, Len(log))'
    BY DEF Certain
  <2>1. ~Overtaken
    BY <1>3 DEF Overtaken
  <2>2. Done(s)
    BY <1>2, <1>3 DEF Done
  <2>3. Kept(s, Len(log))
    BY <2>1, <2>2 DEF ReactionsInv, Certain
  <2>4. QED BY <1>1, <2>3 DEF Kept
<1>5. Replayed'
  <2> SUFFICES ASSUME alone' # Absent
               PROVE  Replayed'
    BY DEF Replayed
  <2>1. alone' = alone /\ alone # Absent /\ alone \in Replays
    BY DEF ReactionsInv, ReactionsTyped
  <2>2. PICK n : n = replays[alone].next - 1
    OBVIOUS
  <2>3. /\ replays[alone] # Absent /\ replays'[alone] # Absent
        /\ replays'[alone].next - 1 = n /\ replays'[alone].upTo = replays[alone].upTo
        /\ \A r \in Replays : r # alone => replays'[r] = Absent
        /\ stored' # Absent /\ covered' <= replays'[alone].upTo
    BY <1>3, <2>1, <2>2 DEF ReactionsInv, Replayed
  <2>4. n \in Nat
    BY <2>1, <2>2, <2>3 DEF ReactionsInv, ReactionsTyped, Passes
  <2>5. ASSUME NEW s \in Senders, ReactsIn(s, 1, n)'
        PROVE  Kept(s, n)'
    <3>1. Kept(s, n)
      BY <1>2, <2>1, <2>2, <2>5 DEF ReactionsInv, Replayed
    <3>2. QED BY <1>1, <2>4, <3>1 DEF Kept
  <2>6. \A s \in Senders : ReactsIn(s, 1, replays[alone].next - 1)'
                             => Kept(s, replays[alone].next - 1)'
    <3> TAKE s \in Senders
    <3>1. ReactsIn(s, 1, replays[alone].next - 1)' <=> ReactsIn(s, 1, n)'
      BY <2>1, <2>3 DEF ReactsIn
    <3>2. Kept(s, replays[alone].next - 1)' <=> Kept(s, n)'
      BY <2>1, <2>3 DEF Kept, InHand, LastSays
    <3>3. QED BY <2>5, <3>1, <3>2
  <2>7. QED BY <2>1, <2>3, <2>6 DEF Replayed
<1>6. ReplayInLog'
  BY <1>3 DEF ReplayInLog, ReactionsInv
<1>7. QED BY <1>4, <1>5, <1>6

\* The replay that was awaited goes on where it is.
LEMMA SettledStays ==
  ASSUME ReactionsInv, NEW by, Settled(by, FALSE)
  PROVE  SameReplays
<1>1. replays \in [Replays -> {Absent} \cup Passes]
  BY DEF ReactionsInv, ReactionsTyped
<1>2. ASSUME NEW r \in Replays
      PROVE  /\ replays'[r] \in {Absent} \cup Passes
             /\ replays'[r] = Absent <=> replays[r] = Absent
             /\ replays[r] # Absent =>
                  replays'[r].upTo = replays[r].upTo /\ replays'[r].next = replays[r].next
  <2>1. CASE r # by \/ replays[r] = Absent
    BY <1>1, <2>1 DEF Settled
  <2>2. CASE r = by /\ replays[r] # Absent
    <3>1. replays'[r] = [replays[r] EXCEPT !.waits = FALSE] /\ replays[r] \in Passes
      BY <1>1, <2>2 DEF Settled
    <3>2. /\ replays'[r] \in Passes
          /\ replays'[r].upTo = replays[r].upTo /\ replays'[r].next = replays[r].next
      BY <3>1 DEF Passes
    <3>3. QED BY <2>2, <3>2, ReactionsAssumption
  <2>3. QED BY <2>1, <2>2
<1>3. replays' \in [Replays -> {Absent} \cup Passes]
  BY <1>2 DEF Settled
<1>4. QED BY <1>2, <1>3 DEF SameReplays

\* ... or gives the conversation up.
LEMMA SettledGivesUp ==
  ASSUME ReactionsInv, NEW by, NEW failed, Settled(by, failed)
  PROVE  /\ replays' \in [Replays -> {Absent} \cup Passes]
         /\ \A r \in Replays : replays'[r] # Absent =>
              /\ replays[r] # Absent
              /\ replays'[r].upTo = replays[r].upTo /\ replays'[r].next = replays[r].next
<1>1. replays \in [Replays -> {Absent} \cup Passes]
  BY DEF ReactionsInv, ReactionsTyped
<1>2. ASSUME NEW r \in Replays
      PROVE  /\ replays'[r] \in {Absent} \cup Passes
             /\ replays'[r] # Absent =>
                  /\ replays[r] # Absent
                  /\ replays'[r].upTo = replays[r].upTo /\ replays'[r].next = replays[r].next
  <2>1. CASE r # by \/ replays[r] = Absent
    BY <1>1, <2>1 DEF Settled
  <2>2. CASE r = by /\ replays[r] # Absent
    <3>1. replays[r] \in Passes
      BY <1>1, <2>2
    <3>2. replays'[r] = Absent \/ replays'[r] = [replays[r] EXCEPT !.waits = FALSE]
      BY <2>2 DEF Settled
    <3>3. QED BY <2>2, <3>1, <3>2 DEF Passes
  <2>3. QED BY <2>1, <2>2
<1>3. QED BY <1>2 DEF Settled

\* The row is written: what was in hand is in the row.
LEMMA WriteKeeps ==
  ASSUME ReactionsInv, Write
  PROVE  ReactionsInv'
<1>1. /\ handling \in Handlings /\ handling # Absent /\ handling.at = "write" /\ stored # Absent
      /\ handling.new \in Sets
  BY DEF Write, ReactionsInv, ReactionsTyped, HandlerKnows, Handlings, Sets
<1>2. /\ stored' = handling.new /\ handling' = [handling EXCEPT !.at = "publish"]
      /\ UNCHANGED <<log, covered, arrived, display, tap, loading, replays, due, doubtful, alone>>
  BY <1>1 DEF Write
<1>3. /\ handling' \in Handlings /\ handling'.at = "publish" /\ handling'.new = handling.new
      /\ handling'.shown = handling.shown /\ handling' # Absent
  <2>1. /\ handling' \in Handlings /\ handling'.at = "publish" /\ handling'.new = handling.new
        /\ handling'.shown = handling.shown
    BY <1>1, <1>2 DEF Handlings
  <2>2. QED BY <2>1, ReactionsAssumption
<1>4. stored' # Absent
  BY <1>1, <1>2, ReactionsAssumption DEF Sets
<1>5. ReactionsTyped'
  BY <1>1, <1>2, <1>3 DEF ReactionsInv, ReactionsTyped
<1>6. NobodyElse'
  BY <1>1, <1>2, <1>3 DEF ReactionsInv, NobodyElse, EverReacted, ReactsIn
<1>7. HandlerKnows' /\ TapIsLast' /\ ClosedStays'
  BY <1>1, <1>2, <1>3, <1>4
     DEF ReactionsInv, HandlerKnows, TapIsLast, ClosedStays, Reacted, ReactsIn
<1>8. ASSUME NEW s, NEW n, InHand(s, n)
      PROVE  /\ "publish" # "write" /\ stored' # Absent
             /\ s \in stored' <=> s \in Reacted(n)
  BY <1>1, <1>2, <1>4, <1>8 DEF InHand
<1>9. \A n : Reacted(n)' = Reacted(n)
  BY <1>2 DEF Reacted
<1>10. ASSUME NEW s \in Senders, InHand(s, Len(log))
       PROVE  InHand(s, Len(log))'
  BY <1>2, <1>3, <1>8, <1>9, <1>10 DEF InHand
<1>11. ASSUME NEW s \in Senders, NEW n \in Nat, InHand(s, n)
       PROVE  InHand(s, n)'
  BY <1>2, <1>3, <1>8, <1>9, <1>11 DEF InHand
<1>12. Certain' /\ Replayed' /\ ReplayInLog'
  <2>1. SameReplays
    BY <1>2 DEF SameReplays, ReactionsInv, ReactionsTyped
  <2>2. QED BY <1>2, <1>4, <1>10, <1>11, <2>1, QuietKeeps
<1>13. QED BY <1>5, <1>6, <1>7, <1>12 DEF ReactionsInv

\* The screen gets what the row has.
LEMMA PublishKeeps ==
  ASSUME ReactionsInv, Publish
  PROVE  ReactionsInv'
<1>1. /\ handling \in Handlings /\ handling # Absent /\ handling.at = "publish"
      /\ stored # Absent /\ stored = handling.new /\ handling.new \in Sets
  BY DEF Publish, ReactionsInv, ReactionsTyped, HandlerKnows, Handlings, Sets
<1>2. /\ handling' = Absent
      /\ display' = IF handling.shown /\ display # Absent THEN stored ELSE display
      /\ UNCHANGED <<log, covered, arrived, stored, tap, loading, due, doubtful, alone>>
  BY <1>1 DEF Publish
<1>3. SameReplays
  BY SettledStays DEF Publish
<1>4. ReactionsTyped'
  <2>1. replays' \in [Replays -> {Absent} \cup Passes]
    BY <1>3 DEF SameReplays
  <2>2. display' \in {Absent} \cup Sets
    BY <1>1, <1>2 DEF ReactionsInv, ReactionsTyped
  <2>3. QED BY <1>1, <1>2, <2>1, <2>2 DEF ReactionsInv, ReactionsTyped
<1>5. NobodyElse'
  BY <1>1, <1>2 DEF ReactionsInv, NobodyElse, EverReacted, ReactsIn
<1>6. HandlerKnows' /\ TapIsLast' /\ ClosedStays'
  BY <1>1, <1>2 DEF ReactionsInv, HandlerKnows, TapIsLast, ClosedStays, Reacted, ReactsIn
<1>7. \A n : Reacted(n)' = Reacted(n)
  BY <1>2 DEF Reacted
<1>8. ~doubtful \/ alone # Absent => display' \in {Absent, stored}
  BY <1>1, <1>2 DEF ReactionsInv, ClosedStays
<1>9. ASSUME NEW s \in Senders, ~doubtful \/ alone # Absent, NEW n, InHand(s, n)
      PROVE  stored # Absent /\ (s \in stored <=> s \in Reacted(n))
  BY <1>1, <1>9 DEF InHand
<1>10. ASSUME NEW s \in Senders, ~doubtful', InHand(s, Len(log))
       PROVE  InHand(s, Len(log))'
  BY <1>2, <1>7, <1>8, <1>9, <1>10 DEF InHand
<1>11. ASSUME NEW s \in Senders, NEW n \in Nat, alone' # Absent, InHand(s, n)
       PROVE  InHand(s, n)'
  BY <1>2, <1>7, <1>8, <1>9, <1>11 DEF InHand
<1>12. Certain' /\ Replayed' /\ ReplayInLog'
  BY <1>2, <1>3, <1>10, <1>11, QuietKeeps
<1>13. QED BY <1>4, <1>5, <1>6, <1>12 DEF ReactionsInv

\* A tap that reads the screen or is given up, and a load that reads the row, touch neither.
LEMMA ReadingKeeps ==
  ASSUME ReactionsInv, Tap \/ TapFails \/ LoadReads
  PROVE  ReactionsInv'
<1>1. UNCHANGED <<log, covered, arrived, handling, stored, display, replays, due, doubtful, alone>>
  BY DEF Tap, TapFails, LoadReads
<1>2. ReactionsTyped' /\ NobodyElse' /\ TapIsLast' /\ HandlerKnows'
  <2>1. CASE Tap
    <3>1. /\ tap' \in Taps /\ tap' # Absent /\ tap'.at # "sent" /\ tap'.seen = display
          /\ display # Absent /\ loading' = loading
      BY <2>1, ReactionsAssumption DEF Tap, ReactionsInv, ReactionsTyped, Taps, Sets
    <3>2. ReactionsTyped'
      BY <1>1, <3>1 DEF ReactionsInv, ReactionsTyped
    <3>3. NobodyElse'
      BY <1>1, <3>1 DEF ReactionsInv, NobodyElse, EverReacted, ReactsIn
    <3>4. TapIsLast' /\ HandlerKnows'
      BY <1>1, <3>1 DEF ReactionsInv, TapIsLast, HandlerKnows
    <3>5. QED BY <3>2, <3>3, <3>4
  <2>2. CASE TapFails
    <3>1. tap' = Absent /\ loading' = loading
      BY <2>2 DEF TapFails
    <3>2. QED BY <1>1, <3>1
              DEF ReactionsInv, ReactionsTyped, NobodyElse, EverReacted, ReactsIn, TapIsLast,
                  HandlerKnows
  <2>3. CASE LoadReads
    <3>1. loading' \in Loadings /\ loading'.rows = stored /\ tap' = tap
      BY <2>3 DEF LoadReads, ReactionsInv, ReactionsTyped, Loadings, Sets
    <3>2. ReactionsTyped'
      BY <1>1, <3>1 DEF ReactionsInv, ReactionsTyped
    <3>3. NobodyElse'
      BY <1>1, <3>1 DEF ReactionsInv, NobodyElse, EverReacted, ReactsIn
    <3>4. TapIsLast' /\ HandlerKnows'
      BY <1>1, <3>1 DEF ReactionsInv, TapIsLast, HandlerKnows, Reacted, ReactsIn
    <3>5. QED BY <3>2, <3>3, <3>4
  <2>4. QED BY <2>1, <2>2, <2>3
<1>3. ClosedStays'
  BY <1>1 DEF ReactionsInv, ClosedStays
<1>4. \A n : Reacted(n)' = Reacted(n)
  BY <1>1 DEF Reacted
<1>5. ASSUME NEW s \in Senders, NEW n, InHand(s, n)
      PROVE  /\ handling' # Absent /\ handling'.at = "write" => (s \in handling'.new <=> s \in Reacted(n))
             /\ handling' = Absent \/ handling'.at # "write" =>
                  stored' # Absent /\ (s \in stored' <=> s \in Reacted(n))
             /\ handling' = Absent /\ display' # Absent => (s \in display' <=> s \in Reacted(n))
  BY <1>1, <1>5 DEF InHand
<1>6. ASSUME NEW s \in Senders, InHand(s, Len(log))
      PROVE  InHand(s, Len(log))'
  BY <1>1, <1>4, <1>5, <1>6 DEF InHand
<1>7. ASSUME NEW s \in Senders, NEW n \in Nat, InHand(s, n)
      PROVE  InHand(s, n)'
  BY <1>1, <1>4, <1>5, <1>7 DEF InHand
<1>8. Certain' /\ Replayed' /\ ReplayInLog'
  <2>1. SameReplays
    BY <1>1 DEF SameReplays, ReactionsInv, ReactionsTyped
  <2>2. QED BY <1>1, <1>6, <1>7, <2>1, QuietKeeps
<1>9. QED BY <1>2, <1>3, <1>8 DEF ReactionsInv

\* A message stored late starts with nobody: what was in hand about it came to nothing.
LEMMA StoringKeeps ==
  ASSUME ReactionsInv, MessageStored
  PROVE  ReactionsInv'
<1>1. /\ stored = Absent /\ stored' = {} /\ display' \in {Absent, {}}
      /\ handling = Absent /\ display = Absent
      /\ UNCHANGED <<log, covered, arrived, handling, tap, loading, replays, due, doubtful, alone>>
  BY DEF MessageStored, ReactionsInv, HandlerKnows
<1>2. {} \in Sets /\ {} # Absent
  BY ReactionsAssumption DEF Sets
<1>3. ReactionsTyped'
  BY <1>1, <1>2 DEF ReactionsInv, ReactionsTyped
<1>4. NobodyElse'
  BY <1>1, <1>2 DEF ReactionsInv, NobodyElse, EverReacted, ReactsIn
<1>5. HandlerKnows' /\ TapIsLast' /\ ClosedStays'
  BY <1>1, <1>2 DEF ReactionsInv, HandlerKnows, TapIsLast, ClosedStays, Reacted, ReactsIn
<1>6. alone = Absent
  BY <1>1 DEF ReactionsInv, Replayed
<1>7. ASSUME NEW s \in Senders, NEW n
      PROVE  ~InHand(s, n)
  BY <1>1 DEF InHand
<1>8. Certain' /\ Replayed' /\ ReplayInLog'
  <2>1. SameReplays
    BY <1>1 DEF SameReplays, ReactionsInv, ReactionsTyped
  <2>2. QED BY <1>1, <1>2, <1>6, <1>7, <2>1, QuietKeeps
<1>9. QED BY <1>3, <1>4, <1>5, <1>8 DEF ReactionsInv

\* A tap is shown: without doubt the screen was what the tap had seen.
LEMMA TapShownKeeps ==
  ASSUME ReactionsInv, TapShown
  PROVE  ReactionsInv'
<1> DEFINE new == IF me \in tap.seen THEN tap.seen \ {me} ELSE tap.seen \cup {me}
<1>1. /\ tap \in Taps /\ tap # Absent /\ tap.at = "sent" /\ tap' = Absent /\ tap.seen \in Sets
      /\ display' = IF display = Absent THEN Absent ELSE new
      /\ doubtful' = (doubtful \/ (display # Absent /\ display # tap.seen)) /\ alone' = Absent
      /\ UNCHANGED <<log, covered, arrived, handling, stored, loading, replays, due>>
  BY DEF TapShown, ReactionsInv, ReactionsTyped, Taps, Sets
<1>2. /\ new \in Sets /\ new # Absent
      /\ \A s : s # me => (s \in new <=> s \in tap.seen)
      /\ me \in new <=> me \notin tap.seen
  BY <1>1, ReactionsAssumption DEF Sets
<1>3. /\ me \in Reacted(Len(log)) <=> me \in new
      /\ ReactsIn(me, 1, Len(log))
  BY <1>1, <1>2 DEF ReactionsInv, TapIsLast
<1>4. new \subseteq EverReacted
  BY <1>1, <1>2, <1>3, ReactionsAssumption DEF ReactionsInv, NobodyElse, EverReacted, Sets
<1> HIDE DEF new
<1>5. ReactionsTyped'
  BY <1>1, <1>2 DEF ReactionsInv, ReactionsTyped
<1>6. NobodyElse'
  BY <1>1, <1>4 DEF ReactionsInv, NobodyElse, EverReacted, ReactsIn
<1>7. HandlerKnows' /\ TapIsLast' /\ ClosedStays'
  BY <1>1 DEF ReactionsInv, HandlerKnows, TapIsLast, ClosedStays
<1>8. \A n : Reacted(n)' = Reacted(n)
  BY <1>1 DEF Reacted
<1>9. ASSUME NEW s \in Senders, ~doubtful', InHand(s, Len(log))
      PROVE  InHand(s, Len(log))'
  <2>1. display # Absent => display = tap.seen
    BY <1>1, <1>9
  <2>2. ASSUME handling = Absent, display' # Absent
        PROVE  s \in display' <=> s \in Reacted(Len(log))
    <3>1. s \in tap.seen <=> s \in Reacted(Len(log))
      BY <1>1, <1>9, <2>1, <2>2 DEF InHand
    <3>2. QED BY <1>1, <1>2, <1>3, <2>2, <3>1
  <2>3. QED BY <1>1, <1>8, <1>9, <2>2 DEF InHand
<1>10. ~doubtful' => ~doubtful
  BY <1>1
<1>11. Certain' /\ Replayed' /\ ReplayInLog'
  <2>1. SameReplays
    BY <1>1 DEF SameReplays, ReactionsInv, ReactionsTyped
  <2>2. QED BY <1>1, <1>9, <1>10, <2>1, QuietKeeps
<1>12. QED BY <1>5, <1>6, <1>7, <1>11 DEF ReactionsInv

\* What is left to a replay that does not fall short has never been handed over.
LEMMA LeftIsBeyond ==
  ASSUME ReactionsInv
  PROVE  /\ \A r \in Replays, s \in Senders :
              replays[r] # Absent /\ ~FallsShort(r) /\ ~ReactsIn(s, covered + 1, Len(log))
                => ~ReactsIn(s, replays[r].next, replays[r].upTo)
         /\ (\A r \in Replays : replays[r] # Absent => ~FallsShort(r)) => ~Overtaken
<1>1. /\ covered \in Nat /\ Len(log) \in Nat
      /\ \A r \in Replays : replays[r] # Absent =>
           /\ replays[r].next \in Nat /\ replays[r].upTo \in Nat /\ replays[r].upTo <= Len(log)
  BY DEF ReactionsInv, ReactionsTyped, ReplayInLog, Passes
<1>2. QED BY <1>1 DEF FallsShort, ReactsIn, Overtaken

\* The page goes: without doubt nothing was queued, and no replay stops short.
LEMMA ReloadKeeps ==
  ASSUME ReactionsInv, Reload
  PROVE  ReactionsInv'
<1>1. /\ display' = Absent /\ arrived' = <<>> /\ handling' = Absent
      /\ tap' = Absent /\ loading' = Absent
      /\ replays' = [r \in Replays |-> Absent] /\ due' = 0
      /\ doubtful' = (doubtful \/ arrived # <<>> \/ handling # Absent
                      \/ \E r \in Replays : replays[r] # Absent /\ FallsShort(r))
      /\ alone' = Absent
      /\ UNCHANGED <<log, covered, stored>>
  BY DEF Reload
<1>2. ReactionsTyped'
  <2>1. doubtful' \in BOOLEAN
    BY <1>1
  <2>2. arrived' \in Seq(Arrivals)
    BY <1>1
  <2>3. QED BY <1>1, <2>1, <2>2 DEF ReactionsInv, ReactionsTyped
<1>3. NobodyElse'
  BY <1>1 DEF ReactionsInv, NobodyElse, EverReacted, ReactsIn
<1>4. HandlerKnows' /\ TapIsLast' /\ ClosedStays' /\ ReplayInLog' /\ Replayed'
  BY <1>1 DEF HandlerKnows, TapIsLast, ClosedStays, ReplayInLog, Replayed
<1>5. Certain'
  <2> SUFFICES ASSUME ~doubtful', NEW s \in Senders, Done(s)'
               PROVE  Kept(s, Len(log))'
    BY DEF Certain
  <2>1. ~doubtful /\ arrived = <<>> /\ handling = Absent
    BY <1>1
  <2>2. \A r \in Replays : replays[r] # Absent => ~FallsShort(r)
    BY <1>1
  <2>3. ReactsIn(s, 1, Len(log)) /\ ~ReactsIn(s, covered + 1, Len(log))
    BY <1>1 DEF Done, ReactsIn
  <2>4. Done(s) /\ ~Overtaken
    BY <2>2, <2>3, LeftIsBeyond DEF Done
  <2>5. Kept(s, Len(log))
    BY <2>1, <2>4 DEF ReactionsInv, Certain
  <2>6. Reacted(Len(log))' = Reacted(Len(log))
    BY <1>1 DEF Reacted
  <2>7. NotIn(arrived, s)
    BY <2>1 DEF NotIn
  <2>8. stored # Absent /\ (s \in stored <=> s \in Reacted(Len(log)))
    BY <2>1, <2>5, <2>7 DEF Kept, InHand
  <2>9. QED BY <1>1, <2>1, <2>5, <2>6, <2>8 DEF Kept, InHand
<1>6. QED BY <1>2, <1>3, <1>4, <1>5 DEF ReactionsInv

\* A load reaches the screen: without doubt it has the row as it is.
LEMMA LoadSetsKeeps ==
  ASSUME ReactionsInv, LoadSets
  PROVE  ReactionsInv'
<1>1. /\ loading \in Loadings /\ loading # Absent /\ loading' = Absent /\ display' = loading.rows
      /\ doubtful' = (doubtful \/ loading.rows # stored \/ (handling # Absent /\ ~handling.shown))
      /\ due' = due + 1 /\ alone' = Absent
      /\ UNCHANGED <<log, covered, arrived, handling, stored, tap, replays>>
      /\ loading.rows \in {Absent} \cup Sets
  BY DEF LoadSets, ReactionsInv, ReactionsTyped, Loadings, Sets
<1>2. NobodyElse' /\ TapIsLast' /\ HandlerKnows'
  BY <1>1 DEF ReactionsInv, NobodyElse, EverReacted, TapIsLast, HandlerKnows, Reacted, ReactsIn
<1>3. \A n : Reacted(n)' = Reacted(n)
  BY <1>1 DEF Reacted
<1>4. ReactionsTyped'
  BY <1>1 DEF ReactionsInv, ReactionsTyped
<1>5. ClosedStays'
  BY <1>1 DEF ClosedStays
<1>6. ASSUME NEW s \in Senders, ~doubtful', InHand(s, Len(log))
      PROVE  InHand(s, Len(log))'
  BY <1>1, <1>3, <1>6 DEF InHand
<1>7. Certain' /\ Replayed' /\ ReplayInLog'
  <2>1. SameReplays
    BY <1>1 DEF SameReplays, ReactionsInv, ReactionsTyped
  <2>2. QED BY <1>1, <1>6, <2>1, QuietKeeps
<1>8. QED BY <1>2, <1>4, <1>5, <1>7 DEF ReactionsInv

\* The first event of the queue is in hand: it is what the queue said of its sender.
LEMMA TakingKeeps ==
  ASSUME ReactionsInv, NEW old \in Sets, old = stored \/ old = display, stored # Absent,
         display # Absent => old = display, display = Absent => old = stored,
         handling = Absent, arrived # <<>>, arrived' = Tail(arrived),
         handling' # Absent, handling'.new = Applied(old, Head(arrived)), handling'.at = "write",
         UNCHANGED <<log, stored, display>>,
         NEW s \in Senders, NEW n, Kept(s, n)
  PROVE  Kept(s, n)'
<1> DEFINE e == Head(arrived)
<1> DEFINE b == s \in Reacted(n)
<1>1. arrived \in Seq(Arrivals) /\ e \in Arrivals
  BY DEF ReactionsInv, ReactionsTyped
<1>2. Reacted(n)' = Reacted(n)
  BY DEF Reacted
<1>3. LastSays(arrived, s, b) /\ b \in BOOLEAN
  BY DEF Kept
<1> HIDE DEF b
<1>4. /\ LastSays(Tail(arrived), s, b)
      /\ NotIn(Tail(arrived), s) /\ e.who # s => NotIn(arrived, s)
      /\ NotIn(Tail(arrived), s) /\ e.who = s => (e.add <=> b)
  BY <1>1, <1>3, TailSays
<1>5. ASSUME NotIn(Tail(arrived), s)
      PROVE  s \in Applied(old, e) <=> b
  <2>1. CASE e.who = s
    <3>1. e.add <=> b
      BY <1>4, <1>5, <2>1
    <3>2. s \in Applied(old, e) <=> e.add
      BY <1>1, <2>1 DEF Applied, Arrivals
    <3>3. QED BY <3>1, <3>2
  <2>2. CASE e.who # s
    <3>1. InHand(s, n)
      BY <1>4, <1>5, <2>2 DEF Kept
    <3>2. s \in old <=> b
      BY <3>1 DEF InHand, b
    <3>3. s \in Applied(old, e) <=> s \in old
      BY <2>2 DEF Applied
    <3>4. QED BY <3>2, <3>3
  <2>3. QED BY <2>1, <2>2
<1> HIDE DEF e
<1>6. LastSays(arrived, s, s \in Reacted(n))'
  BY <1>2, <1>4 DEF LastSays, b
<1>7. NotIn(arrived, s)' => InHand(s, n)'
  <2> SUFFICES ASSUME NotIn(Tail(arrived), s)
               PROVE  InHand(s, n)'
    BY DEF NotIn
  <2>1. handling'.new = Applied(old, e)
    BY DEF e
  <2>2. s \in handling'.new <=> s \in Reacted(n)'
    BY <1>2, <1>5, <2>1 DEF b
  <2>3. QED BY <2>2 DEF InHand
<1>8. QED BY <1>6, <1>7 DEF Kept
\* What the handler leaves in the queue is typed, and of people who reacted.
LEMMA TakingIsTyped ==
  ASSUME ReactionsInv, arrived # <<>>, arrived' = Tail(arrived), UNCHANGED log
  PROVE  /\ Head(arrived) \in Arrivals /\ Head(arrived).who \in EverReacted
         /\ arrived' \in Seq(Arrivals)
         /\ \A i \in 1 .. Len(arrived') : arrived'[i].who \in EverReacted'
<1>1. /\ arrived \in Seq(Arrivals) /\ arrived' \in Seq(Arrivals)
      /\ Head(arrived) \in Arrivals /\ Head(arrived) = arrived[1] /\ 1 \in 1 .. Len(arrived)
      /\ Len(arrived) \in Nat /\ Len(arrived') = Len(arrived) - 1
      /\ \A i \in 1 .. Len(arrived') : arrived'[i] = arrived[i + 1]
  BY DEF ReactionsInv, ReactionsTyped
<1>2. EverReacted' = EverReacted
  BY DEF EverReacted, ReactsIn
<1>3. \A i \in 1 .. Len(arrived') : arrived'[i].who \in EverReacted'
  <2> TAKE i \in 1 .. Len(arrived')
  <2>1. i + 1 \in 1 .. Len(arrived)
    BY <1>1
  <2>2. QED BY <1>1, <1>2, <2>1 DEF ReactionsInv, NobodyElse
<1>4. Head(arrived).who \in EverReacted
  BY <1>1 DEF ReactionsInv, NobodyElse
<1>5. QED BY <1>1, <1>3, <1>4

\* The handler takes its event up.
LEMMA FindTargetKeeps ==
  ASSUME ReactionsInv, FindTarget
  PROVE  ReactionsInv'
<1> DEFINE old == IF display # Absent THEN display ELSE stored
<1> DEFINE e == Head(arrived)
<1>1. /\ handling = Absent /\ arrived # <<>> /\ arrived' = Tail(arrived)
      /\ UNCHANGED <<log, covered, stored, display, tap, loading, replays, due, doubtful, alone>>
      /\ old # Absent
      /\ handling' = [shown |-> display # Absent, new |-> Applied(old, e), by |-> e.by,
                      at |-> "write"]
  BY DEF FindTarget
<1>2. /\ e \in Arrivals /\ arrived' \in Seq(Arrivals) /\ e.who \in EverReacted
      /\ \A i \in 1 .. Len(arrived') : arrived'[i].who \in EverReacted'
  BY <1>1, TakingIsTyped
<1>3. TapIsLast'
  BY <1>1 DEF ReactionsInv, TapIsLast, Reacted, ReactsIn
<1>4. EverReacted' = EverReacted
  BY <1>1 DEF EverReacted, ReactsIn
<1>5. /\ stored # Absent /\ old \in Sets /\ old \subseteq EverReacted
      /\ old = stored \/ old = display
      /\ display # Absent => old = display
      /\ display = Absent => old = stored
  BY <1>1 DEF ReactionsInv, HandlerKnows, ReactionsTyped, NobodyElse
<1>6. Applied(old, e) \in Sets /\ Applied(old, e) \subseteq EverReacted
  BY <1>2, <1>5 DEF Applied, Sets, EverReacted
<1>7. e.by \in Replays \cup {Absent}
  BY <1>2 DEF Arrivals
<1> HIDE DEF old, e
<1>8. /\ handling' \in Handlings /\ handling'.new = Applied(old, e) /\ handling'.at = "write"
      /\ handling'.shown = (display # Absent)
  BY <1>1, <1>6, <1>7 DEF Handlings, Sets
<1>9. handling' # Absent
  BY <1>8, ReactionsAssumption
<1>10. ReactionsTyped'
  BY <1>1, <1>2, <1>8 DEF ReactionsInv, ReactionsTyped
<1>11. NobodyElse'
  BY <1>1, <1>2, <1>4, <1>6, <1>8 DEF ReactionsInv, NobodyElse
<1>12. HandlerKnows' /\ ClosedStays' /\ ReplayInLog'
  BY <1>1, <1>5, <1>8 DEF ReactionsInv, HandlerKnows, ClosedStays, ReplayInLog
<1>13. ASSUME NEW s \in Senders, NEW n, Kept(s, n)
       PROVE  Kept(s, n)'
  <2>1. handling'.new = Applied(old, Head(arrived))
    BY <1>8 DEF e
  <2>2. QED BY <1>1, <1>5, <1>8, <1>9, <1>13, <2>1, TakingKeeps
<1>14. Certain'
  BY <1>1, <1>13 DEF ReactionsInv, Certain, Overtaken, Done, ReactsIn
<1>15. Replayed'
  BY <1>1, <1>13 DEF ReactionsInv, Replayed, ReactsIn
<1>16. QED BY <1>3, <1>10, <1>11, <1>12, <1>14, <1>15 DEF ReactionsInv

\* An event that comes to nothing leaves a doubt.
LEMMA LosingKeeps ==
  ASSUME ReactionsInv, SkipEvent \/ HandlerFails
  PROVE  ReactionsInv'
<1>1. /\ doubtful' = TRUE /\ alone' = Absent
      /\ UNCHANGED <<log, covered, stored, display, tap, loading, due>>
      /\ \/ handling' = handling /\ arrived # <<>> /\ arrived' = Tail(arrived)
         \/ handling' = Absent /\ arrived' = arrived
      /\ \E by, failed : Settled(by, failed)
  BY DEF SkipEvent, HandlerFails
<1>2. /\ replays' \in [Replays -> {Absent} \cup Passes]
      /\ \A r \in Replays : replays'[r] # Absent =>
           /\ replays[r] # Absent
           /\ replays'[r].upTo = replays[r].upTo /\ replays'[r].next = replays[r].next
  BY <1>1, SettledGivesUp
<1>3. EverReacted' = EverReacted
  BY <1>1 DEF EverReacted, ReactsIn
<1>4. /\ arrived' \in Seq(Arrivals)
      /\ \A i \in 1 .. Len(arrived') : arrived'[i].who \in EverReacted'
  <2>1. CASE arrived # <<>> /\ arrived' = Tail(arrived)
    BY <1>1, <2>1, TakingIsTyped
  <2>2. CASE arrived' = arrived
    BY <1>3, <2>2 DEF ReactionsInv, ReactionsTyped, NobodyElse
  <2>3. QED BY <1>1, <2>1, <2>2
<1>5. ReactionsTyped'
  BY <1>1, <1>2, <1>4 DEF ReactionsInv, ReactionsTyped
<1>6. NobodyElse'
  BY <1>1, <1>3, <1>4 DEF ReactionsInv, NobodyElse
<1>7. HandlerKnows'
  BY <1>1 DEF ReactionsInv, HandlerKnows
<1>8. TapIsLast'
  BY <1>1 DEF ReactionsInv, TapIsLast, Reacted, ReactsIn
<1>9. ReplayInLog'
  BY <1>1, <1>2 DEF ReactionsInv, ReplayInLog
<1>10. Certain' /\ Replayed' /\ ClosedStays'
  BY <1>1 DEF Certain, Replayed, ClosedStays
<1>11. QED BY <1>5, <1>6, <1>7, <1>8, <1>9, <1>10 DEF ReactionsInv


\* An event joins the queue: it decides for its sender, the others stay as they are.
LEMMA JoiningKeeps ==
  ASSUME ReactionsInv, NEW e \in Arrivals, arrived' = Append(arrived, e),
         UNCHANGED <<log, handling, stored, display>>, NEW s \in Senders, NEW m, NEW n,
         \/ e.who # s /\ Kept(s, m) /\ (s \in Reacted(m) <=> s \in Reacted(n))
         \/ e.who = s /\ (e.add <=> s \in Reacted(n))
  PROVE  Kept(s, n)'
<1> DEFINE b == s \in Reacted(n)
<1>1. arrived \in Seq(Arrivals) /\ b \in BOOLEAN
  BY DEF ReactionsInv, ReactionsTyped
<1>2. Reacted(n)' = Reacted(n)
  BY DEF Reacted
<1>3. e.who # s => Kept(s, m) /\ (s \in Reacted(m) <=> b)
  OBVIOUS
<1>4. e.who = s => (e.add <=> b)
  OBVIOUS
<1>5. e.who # s => LastSays(arrived, s, b)
  BY <1>3 DEF Kept, LastSays
<1> HIDE DEF b
<1>6. /\ NotIn(Append(arrived, e), s) <=> NotIn(arrived, s) /\ e.who # s
      /\ e.who # s => (LastSays(Append(arrived, e), s, b) <=> LastSays(arrived, s, b))
      /\ e.who = s => (LastSays(Append(arrived, e), s, b) <=> (e.add <=> b))
  BY <1>1, AppendSays
<1>7. LastSays(Append(arrived, e), s, b)
  BY <1>4, <1>5, <1>6
<1>8. LastSays(arrived, s, s \in Reacted(n))'
  BY <1>2, <1>7 DEF LastSays, b
<1>9. ASSUME NotIn(arrived, s)'
      PROVE  InHand(s, n)'
  <2>1. e.who # s /\ NotIn(arrived, s)
    BY <1>6, <1>9 DEF NotIn
  <2>2. InHand(s, m)
    BY <1>3, <2>1 DEF Kept
  <2>3. s \in Reacted(m) <=> s \in Reacted(n)'
    BY <1>2, <1>3, <2>1 DEF b
  <2>4. QED BY <2>2, <2>3 DEF InHand
<1>10. QED BY <1>8, <1>9 DEF Kept

\* The events that join the queue are events of the log.
LEMMA JoiningIsTyped ==
  ASSUME ReactionsInv, NEW k \in 1 .. Len(log), NEW by \in Replays \cup {Absent}, NEW e,
         e = [who |-> log[k].who, add |-> log[k].add, by |-> by],
         arrived' = Append(arrived, e), UNCHANGED log
  PROVE  /\ e \in Arrivals /\ arrived' \in Seq(Arrivals)
         /\ \A i \in 1 .. Len(arrived') : arrived'[i].who \in EverReacted'
<1>1. log[k] \in Events /\ log[k].who \in Senders /\ log[k].add \in BOOLEAN
  <2>1. log[k] \in Events
    BY DEF ReactionsInv, ReactionsTyped
  <2>2. QED BY <2>1 DEF Events
<1>2. e \in Arrivals /\ e.who = log[k].who
  BY <1>1 DEF Arrivals
<1>3. arrived \in Seq(Arrivals) /\ arrived' \in Seq(Arrivals)
  BY <1>2 DEF ReactionsInv, ReactionsTyped
<1>4. /\ Len(arrived) \in Nat /\ Len(arrived') = Len(arrived) + 1
      /\ \A i \in 1 .. Len(arrived) : arrived'[i] = arrived[i]
      /\ arrived'[Len(arrived) + 1] = e
  BY <1>2, <1>3
<1>5. EverReacted' = EverReacted
  BY DEF EverReacted, ReactsIn
<1>6. e.who \in EverReacted
  BY <1>1, <1>2 DEF EverReacted, ReactsIn
<1>7. QED BY <1>2, <1>3, <1>4, <1>5, <1>6 DEF ReactionsInv, NobodyElse

\* A replay begins: it has everything still to come.
LEMMA BeginReplayKeeps ==
  ASSUME ReactionsInv, NEW r \in Replays, BeginReplay(r)
  PROVE  ReactionsInv'
<1>1. PICK kind \in {"open", "sync"}, upTo \in 1 .. Len(log) : \E from \in 1 .. upTo :
        /\ replays' = [replays EXCEPT
             ![r] = [kind |-> kind, next |-> from, upTo |-> upTo, waits |-> FALSE]]
        /\ (due > 0 /\ due' = due - 1) \/ due' = due
        /\ doubtful' = (doubtful \/ from > covered + 1)
        /\ \/ alone' = Absent
           \/ /\ alone' = r /\ from = 1 /\ covered <= upTo /\ handling = Absent
              /\ \A q \in Replays : replays[q] = Absent
              /\ stored # Absent
  <2>1. PICK k \in {"open", "sync"}, u \in 1 .. Len(log) : \E from \in 1 .. u :
          /\ replays' = [replays EXCEPT
               ![r] = [kind |-> k, next |-> from, upTo |-> u, waits |-> FALSE]]
          /\ (due > 0 /\ due' = due - 1) \/ due' = due
          /\ doubtful' = (doubtful \/ from > covered + 1)
          /\ alone' = IF /\ from = 1 /\ covered <= u
                         /\ arrived = <<>> /\ handling = Absent
                         /\ \A q \in Replays : replays[q] = Absent
                         /\ stored # Absent /\ display \in {Absent, stored}
                      THEN r ELSE Absent
    BY Zenon DEF BeginReplay
  <2>2. QED BY <2>1
<1>2. PICK from \in 1 .. upTo :
        /\ replays' = [replays EXCEPT
             ![r] = [kind |-> kind, next |-> from, upTo |-> upTo, waits |-> FALSE]]
        /\ (due > 0 /\ due' = due - 1) \/ due' = due
        /\ doubtful' = (doubtful \/ from > covered + 1)
        /\ \/ alone' = Absent
           \/ /\ alone' = r /\ from = 1 /\ covered <= upTo /\ handling = Absent
              /\ \A q \in Replays : replays[q] = Absent
              /\ stored # Absent
  BY <1>1
<1>3. /\ replays[r] = Absent
      /\ UNCHANGED <<log, covered, arrived, handling, stored, display, tap, loading>>
  BY DEF BeginReplay
<1>4. /\ log \in Seq(Events) /\ Len(log) \in Nat /\ covered \in Nat /\ upTo \in Nat
      /\ upTo <= Len(log) /\ from \in Nat /\ from >= 1 /\ from <= upTo
      /\ replays \in [Replays -> {Absent} \cup Passes] /\ due \in Nat
  <2>1. /\ log \in Seq(Events) /\ covered \in Nat /\ due \in Nat
        /\ replays \in [Replays -> {Absent} \cup Passes]
    BY DEF ReactionsInv, ReactionsTyped
  <2>2. Len(log) \in Nat
    BY <2>1
  <2>3. QED BY <2>1, <2>2
<1>5. PICK new : new = [kind |-> kind, next |-> from, upTo |-> upTo, waits |-> FALSE]
  OBVIOUS
<1>6. new \in Passes /\ new # Absent /\ new.next = from /\ new.upTo = upTo
  <2>1. new \in Passes /\ new.next = from /\ new.upTo = upTo
    BY <1>4, <1>5 DEF Passes
  <2>2. QED BY <2>1, ReactionsAssumption
<1>7. /\ replays' \in [Replays -> {Absent} \cup Passes] /\ replays'[r] = new
      /\ \A q \in Replays : q # r => replays'[q] = replays[q]
  BY <1>2, <1>4, <1>5, <1>6
<1>8. ReactionsTyped'
  <2>1. due' \in Nat /\ doubtful' \in BOOLEAN /\ alone' \in {Absent} \cup Replays
    BY <1>2, <1>4
  <2>2. QED BY <1>3, <1>7, <2>1 DEF ReactionsInv, ReactionsTyped
<1>9. NobodyElse' /\ HandlerKnows' /\ TapIsLast'
  BY <1>3 DEF ReactionsInv, NobodyElse, EverReacted, HandlerKnows, TapIsLast, Reacted, ReactsIn
<1>10. ClosedStays'
  BY <1>2, <1>3 DEF ReactionsInv, ClosedStays
<1>11. ReplayInLog'
  <2> SUFFICES ASSUME NEW q \in Replays, replays'[q] # Absent
               PROVE  /\ replays'[q].upTo <= Len(log) /\ replays'[q].next \in 1 .. replays'[q].upTo + 1
                      /\ ~doubtful' => replays'[q].next <= covered + 1
    BY <1>3 DEF ReplayInLog
  <2>1. CASE q = r
    <3>1. replays'[q].upTo = upTo /\ replays'[q].next = from
      BY <1>6, <1>7, <2>1
    <3>2. ~doubtful' => ~(from > covered + 1)
      BY <1>2
    <3>3. QED BY <1>4, <3>1, <3>2
  <2>2. CASE q # r
    BY <1>2, <1>7, <2>2 DEF ReactionsInv, ReplayInLog
  <2>3. QED BY <2>1, <2>2
<1>12. Replayed'
  <2> SUFFICES ASSUME alone' = r, from = 1, covered <= upTo, stored # Absent,
                      \A q \in Replays : replays[q] = Absent
               PROVE  Replayed'
    BY <1>2 DEF Replayed
  <2>1. \A s : ~ReactsIn(s, 1, replays[alone].next - 1)'
    BY <1>6, <1>7 DEF ReactsIn
  <2>2. QED BY <1>3, <1>6, <1>7, <2>1 DEF Replayed
<1>13. Certain'
  <2> SUFFICES ASSUME ~doubtful', ~Overtaken', NEW s \in Senders, Done(s)'
               PROVE  Kept(s, Len(log))'
    BY DEF Certain
  <2>1. ~doubtful /\ ~Overtaken
    BY <1>2, <1>3, <1>7 DEF Overtaken
  <2>2. Done(s)
    BY <1>3, <1>7 DEF Done, ReactsIn
  <2>3. Kept(s, Len(log))
    BY <2>1, <2>2 DEF ReactionsInv, Certain
  <2>4. QED BY <1>3, <2>3 DEF Kept, LastSays, NotIn, InHand, Reacted
<1>14. QED BY <1>8, <1>9, <1>10, <1>11, <1>12, <1>13 DEF ReactionsInv

\* A replay hands over its next event.
LEMMA ReplayKeeps ==
  ASSUME ReactionsInv, NEW r \in Replays, Replay(r)
  PROVE  ReactionsInv'
<1>0. PICK at, upTo : at = replays[r].next /\ upTo = replays[r].upTo
  OBVIOUS
<1>1. /\ replays \in [Replays -> {Absent} \cup Passes]
      /\ replays[r] \in Passes /\ replays[r] # Absent /\ at <= upTo /\ upTo <= Len(log)
      /\ upTo \in Nat /\ at \in 1 .. Len(log) /\ at \in Nat \ {0} /\ Len(log) \in Nat
      /\ covered \in Nat /\ covered <= Len(log) /\ (~doubtful => at <= covered + 1)
  <2>1. /\ replays \in [Replays -> {Absent} \cup Passes] /\ covered \in Nat /\ covered <= Len(log)
        /\ log \in Seq(Events)
    BY DEF ReactionsInv, ReactionsTyped
  <2>2. replays[r] \in Passes /\ replays[r] # Absent /\ at <= upTo
    BY <1>0, <2>1 DEF Replay
  <2>3. upTo <= Len(log) /\ at \in 1 .. upTo + 1 /\ (~doubtful => at <= covered + 1)
    BY <1>0, <2>2 DEF ReactionsInv, ReplayInLog
  <2>4. Len(log) \in Nat /\ upTo \in Nat
    BY <1>0, <2>1, <2>2 DEF Passes
  <2>5. QED BY <2>1, <2>2, <2>3, <2>4
<1>2. PICK awaited \in BOOLEAN :
        /\ arrived' = Append(arrived, [who |-> log[at].who, add |-> log[at].add,
                                       by |-> IF awaited THEN r ELSE Absent])
        /\ replays' = [replays EXCEPT ![r] = [@ EXCEPT !.next = at + 1, !.waits = awaited]]
  BY <1>0 DEF Replay
<1>3. /\ covered' = IF at > covered THEN at ELSE covered
      /\ doubtful' = (doubtful \/ covered > upTo)
      /\ UNCHANGED <<log, handling, stored, display, tap, loading, due, alone>>
  BY <1>0 DEF Replay
<1>4. PICK e : e = [who |-> log[at].who, add |-> log[at].add, by |-> IF awaited THEN r ELSE Absent]
  OBVIOUS
<1>5. /\ e \in Arrivals /\ arrived' \in Seq(Arrivals)
      /\ \A i \in 1 .. Len(arrived') : arrived'[i].who \in EverReacted'
  BY <1>1, <1>2, <1>3, <1>4, JoiningIsTyped
<1>6. e.who = log[at].who /\ e.add = log[at].add /\ arrived' = Append(arrived, e)
  BY <1>2, <1>4
<1>7. /\ replays' \in [Replays -> {Absent} \cup Passes]
      /\ replays'[r] # Absent /\ replays'[r].upTo = upTo /\ replays'[r].next = at + 1
      /\ \A q \in Replays : q # r => replays'[q] = replays[q]
  <2>1. PICK new : new = [replays[r] EXCEPT !.next = at + 1, !.waits = awaited]
    OBVIOUS
  <2>2. new \in Passes /\ new.upTo = upTo /\ new.next = at + 1
    <3>1. at + 1 \in Nat \ {0}
      BY <1>1
    <3>2. QED BY <1>0, <1>1, <2>1, <3>1 DEF Passes
  <2>3. new # Absent
    BY <2>2, ReactionsAssumption
  <2>4. replays' = [replays EXCEPT ![r] = new]
    BY <1>2, <2>1
  <2>5. QED BY <1>1, <2>2, <2>3, <2>4
<1>8. /\ covered' \in Nat /\ covered' <= Len(log) /\ at <= covered' /\ covered <= covered'
      /\ covered' = covered \/ covered' = at
  BY <1>1, <1>3
<1>9. ReactionsTyped'
  <2>1. doubtful' \in BOOLEAN
    BY <1>3
  <2>2. QED BY <1>3, <1>5, <1>7, <1>8, <2>1 DEF ReactionsInv, ReactionsTyped
<1>10. NobodyElse'
  BY <1>3, <1>5 DEF ReactionsInv, NobodyElse, EverReacted, ReactsIn
<1>11. HandlerKnows' /\ TapIsLast' /\ ClosedStays'
  BY <1>3 DEF ReactionsInv, HandlerKnows, TapIsLast, ClosedStays, Reacted, ReactsIn
<1>12. ReplayInLog'
  <2> SUFFICES ASSUME NEW q \in Replays, replays'[q] # Absent
               PROVE  /\ replays'[q].upTo <= Len(log) /\ replays'[q].next \in 1 .. replays'[q].upTo + 1
                      /\ ~doubtful' => replays'[q].next <= covered' + 1
    BY <1>3 DEF ReplayInLog
  <2>1. CASE q = r
    BY <1>1, <1>7, <1>8, <2>1
  <2>2. CASE q # r
    <3>1. /\ replays[q] # Absent /\ replays[q].upTo <= Len(log)
          /\ replays[q].next \in 1 .. replays[q].upTo + 1 /\ replays[q].upTo \in Nat
          /\ ~doubtful => replays[q].next <= covered + 1
      BY <1>1, <1>7, <2>2 DEF ReactionsInv, ReplayInLog, Passes
    <3>2. replays'[q] = replays[q] /\ (~doubtful' => ~doubtful)
      BY <1>3, <1>7, <2>2
    <3>3. replays[q].next \in Nat
      BY <3>1
    <3>4. replays[q].next <= covered + 1 => replays[q].next <= covered' + 1
      BY <1>1, <1>8, <3>3
    <3>5. QED BY <3>1, <3>2, <3>4
  <2>3. QED BY <2>1, <2>2
<1>13. ASSUME NEW s \in Senders, e.who = s
       PROVE  s \in Reacted(at) <=> e.add
  BY <1>1, <1>5, <1>6, <1>13, LastDecides DEF Arrivals
<1>14. Certain'
  <2> SUFFICES ASSUME ~doubtful', ~Overtaken', NEW s \in Senders, Done(s)'
               PROVE  Kept(s, Len(log))'
    BY DEF Certain
  <2>1. ~doubtful /\ covered <= upTo /\ at <= covered + 1
    <3>1. ~doubtful /\ ~(covered > upTo)
      BY <1>3
    <3>2. QED BY <1>1, <3>1
  <2>2. ASSUME NEW q \in Replays, replays[q] # Absent, replays[q].next <= replays[q].upTo,
               covered > replays[q].upTo
        PROVE  FALSE
    <3>1. q # r
      BY <1>0, <1>1, <2>1, <2>2
    <3>2. replays[q].upTo \in Nat
      BY <1>1, <2>2 DEF Passes
    <3>3. covered' > replays[q].upTo
      BY <1>1, <1>8, <2>2, <3>2
    <3>4. QED BY <1>7, <2>2, <3>1, <3>3 DEF Overtaken
  <2>3. ~Overtaken
    BY <2>2 DEF Overtaken
  <2>4. /\ ReactsIn(s, 1, Len(log)) /\ ~ReactsIn(s, covered' + 1, Len(log))
        /\ ~ReactsIn(s, at + 1, upTo)
        /\ \A q \in Replays : q # r /\ replays[q] # Absent =>
             ~ReactsIn(s, replays[q].next, replays[q].upTo)
    BY <1>3, <1>7 DEF Done, ReactsIn
  <2>5. PICK c \in Nat : /\ c <= Len(log) /\ c <= upTo /\ (c = covered \/ c = at) /\ c >= covered
                         /\ ~ReactsIn(s, c + 1, Len(log))
    <3>1. covered' <= upTo
      BY <1>1, <1>8, <2>1
    <3>2. QED BY <1>8, <2>4, <3>1
  <2>6. CASE e.who = s
    <3>1. ~ReactsIn(s, at + 1, Len(log))
      BY <1>1, <2>4, <2>5 DEF ReactsIn
    <3>2. s \in Reacted(at) <=> s \in Reacted(Len(log))
      BY <1>1, <3>1, SameReacted
    <3>3. Kept(s, Len(log))'
      BY <1>3, <1>5, <1>6, <1>13, <2>6, <3>2, JoiningKeeps
    <3>4. QED BY <1>3, <3>3
  <2>7. CASE e.who # s
    <3>1. ~ReactsIn(s, covered + 1, Len(log))
      BY <1>1, <1>6, <2>1, <2>7, <2>5 DEF ReactsIn
    <3>2. ~ReactsIn(s, at, upTo)
      BY <1>1, <1>6, <2>4, <2>7 DEF ReactsIn
    <3>3. Done(s)
      BY <1>0, <2>4, <3>1, <3>2 DEF Done
    <3>4. Kept(s, Len(log))
      BY <2>1, <2>3, <3>3 DEF ReactionsInv, Certain
    <3>5. QED BY <1>3, <1>5, <1>6, <2>7, <3>4, JoiningKeeps
  <2>8. QED BY <2>6, <2>7
<1>15. Replayed'
  <2> SUFFICES ASSUME alone' # Absent
               PROVE  Replayed'
    BY DEF Replayed
  <2>1. /\ alone = r /\ alone' = r /\ alone # Absent /\ stored # Absent /\ covered <= upTo
        /\ \A q \in Replays : q # r => replays[q] = Absent
    <3>1. alone # Absent /\ alone' = alone
      BY <1>3
    <3>2. alone = r
      BY <1>1, <3>1 DEF ReactionsInv, Replayed
    <3>3. QED BY <1>0, <3>1, <3>2 DEF ReactionsInv, Replayed
  <2>2. covered' <= upTo /\ (at + 1) - 1 = at
    BY <1>1, <1>3, <2>1
  <2>3. ASSUME NEW s \in Senders, ReactsIn(s, 1, at)'
        PROVE  Kept(s, at)'
    <3>1. ReactsIn(s, 1, at)
      BY <1>3, <2>3 DEF ReactsIn
    <3>2. CASE e.who = s
      BY <1>3, <1>5, <1>6, <1>13, <3>2, JoiningKeeps
    <3>3. CASE e.who # s
      <4>1. ReactsIn(s, 1, at - 1) /\ ~ReactsIn(s, (at - 1) + 1, at)
        BY <1>1, <1>6, <3>1, <3>3 DEF ReactsIn
      <4>2. Kept(s, at - 1)
        BY <1>0, <2>1, <4>1 DEF ReactionsInv, Replayed
      <4>3. at - 1 \in Nat /\ at - 1 <= at
        BY <1>1
      <4>4. s \in Reacted(at - 1) <=> s \in Reacted(at)
        BY <1>1, <4>1, <4>3, SameReacted
      <4>5. QED BY <1>3, <1>5, <1>6, <3>3, <4>2, <4>4, JoiningKeeps
    <3>4. QED BY <3>2, <3>3
  <2>4. replays'[alone'].next - 1 = at
    <3>1. replays'[alone'].next = at + 1
      BY <1>7, <2>1
    <3>2. QED BY <2>2, <3>1
  <2>5. \A s \in Senders : ReactsIn(s, 1, replays[alone].next - 1)'
                             => Kept(s, replays[alone].next - 1)'
    <3> TAKE s \in Senders
    <3>1. ReactsIn(s, 1, replays[alone].next - 1)' <=> ReactsIn(s, 1, at)'
      BY <2>4 DEF ReactsIn
    <3>2. Kept(s, replays[alone].next - 1)' <=> Kept(s, at)'
      BY <2>4 DEF Kept, InHand, LastSays
    <3>3. QED BY <2>3, <3>1, <3>2
  <2>6. QED BY <1>3, <1>7, <2>1, <2>2, <2>5 DEF Replayed
<1>16. QED BY <1>9, <1>10, <1>11, <1>12, <1>14, <1>15 DEF ReactionsInv

\* A replay is over, or stops: one that had the message to itself has made it certain, and
\* one that stops without falling short has nothing of the message to bring again.
LEMMA ReplayOverKeeps ==
  ASSUME ReactionsInv, NEW r \in Replays, ReplayEnds(r) \/ ReplayStops(r)
  PROVE  ReactionsInv'
<1>1. /\ replays[r] # Absent /\ replays' = [replays EXCEPT ![r] = Absent]
      /\ alone' = IF alone = r THEN Absent ELSE alone
      /\ UNCHANGED <<log, covered, arrived, handling, stored, display, tap, loading, due>>
  BY DEF ReplayEnds, ReplayStops
<1>2. \/ /\ replays[r].next > replays[r].upTo /\ doubtful' = (doubtful /\ alone # r)
      \/ doubtful' = (doubtful \/ FallsShort(r))
  BY DEF ReplayEnds, ReplayStops
<1>3. /\ replays \in [Replays -> {Absent} \cup Passes] /\ log \in Seq(Events)
      /\ Len(log) \in Nat /\ covered \in Nat /\ covered <= Len(log)
      /\ replays[r].upTo \in Nat /\ replays[r].upTo <= Len(log)
      /\ replays[r].next \in Nat /\ replays[r].next <= replays[r].upTo + 1
  <2>1. replays \in [Replays -> {Absent} \cup Passes] /\ replays[r] \in Passes
    BY <1>1 DEF ReactionsInv, ReactionsTyped
  <2>2. replays[r].upTo \in Nat /\ replays[r].next \in Nat
    BY <2>1 DEF Passes
  <2>3. QED BY <1>1, <2>1, <2>2 DEF ReactionsInv, ReactionsTyped, ReplayInLog
<1>4. /\ replays' \in [Replays -> {Absent} \cup Passes] /\ replays'[r] = Absent
      /\ \A q \in Replays : q # r => replays'[q] = replays[q]
  BY <1>1, <1>3
<1>5. alone' = Absent /\ (alone = Absent \/ alone = r)
  BY <1>1 DEF ReactionsInv, Replayed
<1>6. ReactionsTyped'
  <2>1. doubtful' \in BOOLEAN
    BY <1>2 DEF FallsShort
  <2>2. QED BY <1>1, <1>4, <1>5, <2>1 DEF ReactionsInv, ReactionsTyped
<1>7. NobodyElse' /\ HandlerKnows' /\ TapIsLast'
  BY <1>1 DEF ReactionsInv, NobodyElse, EverReacted, HandlerKnows, TapIsLast, Reacted, ReactsIn
<1>8. ~doubtful' => ~doubtful \/ alone = r
  BY <1>2
<1>9. ClosedStays'
  BY <1>1, <1>5, <1>8, ReactionsAssumption DEF ReactionsInv, ClosedStays
<1>10. ReplayInLog'
  <2> SUFFICES ASSUME NEW q \in Replays, replays'[q] # Absent
               PROVE  /\ replays[q].upTo <= Len(log) /\ replays[q].next \in 1 .. replays[q].upTo + 1
                      /\ ~doubtful' => replays[q].next <= covered + 1
    BY <1>1, <1>4 DEF ReplayInLog
  <2>1. q # r /\ replays[q] # Absent
    BY <1>4
  <2>2. alone # r
    BY <2>1, ReactionsAssumption DEF ReactionsInv, Replayed
  <2>3. QED BY <1>8, <2>1, <2>2 DEF ReactionsInv, ReplayInLog
<1>11. Replayed'
  BY <1>5 DEF Replayed
<1>12. Certain'
  <2> SUFFICES ASSUME ~doubtful', ~Overtaken', NEW s \in Senders, Done(s)'
               PROVE  Kept(s, Len(log))'
    BY DEF Certain
  <2>1. /\ ReactsIn(s, 1, Len(log)) /\ ~ReactsIn(s, covered + 1, Len(log))
        /\ \A q \in Replays : q # r /\ replays[q] # Absent =>
             ~ReactsIn(s, replays[q].next, replays[q].upTo)
    BY <1>1, <1>4 DEF Done, ReactsIn
  <2>2. Kept(s, Len(log))
    <3>1. CASE ~doubtful
      <4>1. ~FallsShort(r)
        <5>1. CASE replays[r].next > replays[r].upTo
          BY <1>3, <5>1 DEF FallsShort
        <5>2. CASE doubtful' = (doubtful \/ FallsShort(r))
          BY <5>2
        <5>3. QED BY <1>2, <5>1, <5>2
      <4>2. ~ReactsIn(s, replays[r].next, replays[r].upTo)
        BY <1>1, <2>1, <4>1, LeftIsBeyond
      <4>3. ~(replays[r].next <= replays[r].upTo /\ covered > replays[r].upTo)
        BY <1>3, <4>1 DEF FallsShort
      <4>4. ~Overtaken
        BY <1>1, <1>4, <4>3 DEF Overtaken
      <4>5. Done(s)
        BY <2>1, <4>2 DEF Done
      <4>6. QED BY <3>1, <4>4, <4>5 DEF ReactionsInv, Certain
    <3>2. CASE doubtful
      <4>1. alone = r /\ alone # Absent /\ replays[r].next - 1 = replays[r].upTo
        <5>1. alone = r /\ replays[r].next > replays[r].upTo
          BY <1>2, <3>2
        <5>2. QED BY <1>3, <5>1, ReactionsAssumption
      <4>2. covered <= replays[r].upTo
        BY <4>1 DEF ReactionsInv, Replayed
      <4>3. /\ ReactsIn(s, 1, replays[r].upTo)
            /\ ~ReactsIn(s, replays[r].upTo + 1, Len(log))
        BY <1>3, <2>1, <4>2 DEF ReactsIn
      <4>4. Kept(s, replays[r].upTo)
        BY <4>1, <4>3 DEF ReactionsInv, Replayed
      <4>5. s \in Reacted(replays[r].upTo) <=> s \in Reacted(Len(log))
        BY <1>3, <4>3, SameReacted
      <4>6. QED BY <4>4, <4>5 DEF Kept, LastSays, InHand
    <3>3. QED BY <3>1, <3>2
  <2>3. QED BY <1>1, <2>2 DEF Kept, LastSays, NotIn, InHand, Reacted
<1>13. QED BY <1>6, <1>7, <1>9, <1>10, <1>11, <1>12 DEF ReactionsInv

\* A reaction of somebody, a tap that is sent included, is news of that person only.
LEMMA ReactingKeeps ==
  ASSUME ReactionsInv, NEW e \in Events, log' = Append(log, e),
         UNCHANGED <<covered, arrived, handling, stored, display, loading, replays, due, doubtful,
                     alone>>
  PROVE  /\ Certain' /\ Replayed' /\ ReplayInLog' /\ HandlerKnows' /\ ClosedStays'
         /\ EverReacted \subseteq EverReacted'
         /\ ReactsIn(e.who, 1, Len(log))'
         /\ e.who \in Reacted(Len(log))' <=> e.add
         /\ \A s \in Senders : s # e.who =>
              /\ s \in Reacted(Len(log))' <=> s \in Reacted(Len(log))
              /\ ReactsIn(s, 1, Len(log))' <=> ReactsIn(s, 1, Len(log))
<1>1. /\ log \in Seq(Events) /\ Len(log) \in Nat /\ covered \in Nat /\ covered <= Len(log)
      /\ e.who \in Senders /\ e.add \in BOOLEAN
      /\ replays \in [Replays -> {Absent} \cup Passes]
  BY DEF ReactionsInv, ReactionsTyped, Events
<1>2. /\ Len(log)' = Len(log) + 1 /\ log'[Len(log) + 1] = e
      /\ \A i \in 1 .. Len(log) : log'[i] = log[i]
  BY <1>1
<1>3. /\ \A n \in 0 .. Len(log) : Reacted(n)' = Reacted(n)
      /\ \A m \in Nat \ {0}, n \in 0 .. Len(log), s \in Senders :
           ReactsIn(s, m, n)' <=> ReactsIn(s, m, n)
  BY <1>1, LogGrows
<1>4. ASSUME NEW s \in Senders, s # e.who
      PROVE  /\ s \in Reacted(Len(log))' <=> s \in Reacted(Len(log))
             /\ ReactsIn(s, 1, Len(log))' <=> ReactsIn(s, 1, Len(log))
  <2>1. s \in Reacted(Len(log))' <=> s \in Reacted(Len(log))
    BY <1>1, <1>2, <1>4 DEF Reacted
  <2>2. ReactsIn(s, 1, Len(log))' <=> ReactsIn(s, 1, Len(log))
    BY <1>1, <1>2, <1>4 DEF ReactsIn
  <2>3. QED BY <2>1, <2>2
<1>5. ReactsIn(e.who, 1, Len(log))' /\ ReactsIn(e.who, covered + 1, Len(log))'
  BY <1>1, <1>2 DEF ReactsIn
<1>6. e.who \in Reacted(Len(log))' <=> e.add
  BY <1>1, <1>2 DEF Reacted
<1>7. EverReacted \subseteq EverReacted'
  BY <1>1, <1>4, <1>5 DEF EverReacted
<1>8. HandlerKnows' /\ ClosedStays'
  BY DEF ReactionsInv, HandlerKnows, ClosedStays
<1>9. \A r \in Replays : replays[r] # Absent =>
        /\ replays[r].upTo \in Nat /\ replays[r].upTo <= Len(log)
        /\ replays[r].next \in Nat \ {0} /\ replays[r].next <= replays[r].upTo + 1
        /\ ~doubtful => replays[r].next <= covered + 1
  BY <1>1 DEF ReactionsInv, ReplayInLog, Passes
<1>10. ReplayInLog'
  BY <1>1, <1>2, <1>9 DEF ReplayInLog
<1>11. Certain'
  <2> SUFFICES ASSUME ~doubtful', ~Overtaken', NEW s \in Senders, Done(s)'
               PROVE  Kept(s, Len(log))'
    BY DEF Certain
  <2>1. s # e.who
    BY <1>1, <1>5 DEF Done
  <2>2. ~ReactsIn(s, covered + 1, Len(log))
    BY <1>1, <1>2 DEF Done, ReactsIn
  <2>3. \A r \in Replays : replays[r] # Absent => ~ReactsIn(s, replays[r].next, replays[r].upTo)
    BY <1>1, <1>2, <1>9 DEF Done, ReactsIn
  <2>4. Done(s) /\ ~Overtaken /\ ~doubtful
    BY <1>4, <2>1, <2>2, <2>3 DEF Done, Overtaken
  <2>5. Kept(s, Len(log))
    BY <2>4 DEF ReactionsInv, Certain
  <2>6. s \in Reacted(Len(log))' <=> s \in Reacted(Len(log))
    BY <1>4, <2>1
  <2>7. QED BY <2>5, <2>6 DEF Kept, LastSays, NotIn, InHand
<1>12. Replayed'
  <2> SUFFICES ASSUME alone # Absent
               PROVE  Replayed'
    BY DEF Replayed
  <2>1. PICK n : n = replays[alone].next - 1
    OBVIOUS
  <2>2. alone \in Replays /\ replays[alone] # Absent
    BY DEF ReactionsInv, ReactionsTyped, Replayed
  <2>3. n \in 0 .. Len(log) /\ replays'[alone'].next - 1 = n
    BY <1>1, <1>9, <2>1, <2>2
  <2>4. ASSUME NEW s \in Senders, ReactsIn(s, 1, n)'
        PROVE  Kept(s, n)'
    <3>1. n \in 0 .. Len(log) /\ 1 \in Nat \ {0}
      BY <2>3
    <3>2. ReactsIn(s, 1, n)' <=> ReactsIn(s, 1, n)
      BY <1>3, <3>1, Zenon
    <3>3. ReactsIn(s, 1, n)
      BY <2>4, <3>2
    <3>4. Kept(s, n)
      BY <2>1, <3>3 DEF ReactionsInv, Replayed
    <3>5. Reacted(n)' = Reacted(n)
      BY <1>3, <2>3
    <3>6. QED BY <3>4, <3>5 DEF Kept, LastSays, NotIn, InHand
  <2>5. \A s \in Senders : ReactsIn(s, 1, replays[alone].next - 1)'
                             => Kept(s, replays[alone].next - 1)'
    <3> TAKE s \in Senders
    <3>1. ReactsIn(s, 1, replays[alone].next - 1)' <=> ReactsIn(s, 1, n)'
      BY <2>3 DEF ReactsIn
    <3>2. Kept(s, replays[alone].next - 1)' <=> Kept(s, n)'
      BY <2>3 DEF Kept, InHand, LastSays
    <3>3. QED BY <2>4, <3>1, <3>2
  <2>6. QED BY <2>2, <2>5 DEF Replayed, ReactionsInv
<1>13. QED BY <1>4, <1>5, <1>6, <1>7, <1>8, <1>10, <1>11, <1>12

\* Somebody else reacts.
LEMMA PeerReactsKeeps ==
  ASSUME ReactionsInv, NEW p \in Senders, PeerReacts(p)
  PROVE  ReactionsInv'
<1> DEFINE e == [who |-> p, add |-> p \notin Reacted(Len(log))]
<1>1. /\ p # me /\ log' = Append(log, e)
      /\ UNCHANGED <<covered, arrived, handling, stored, display, tap, loading, replays, due,
                     doubtful, alone>>
      /\ e \in Events /\ e.who = p
  BY DEF PeerReacts, Events
<1> HIDE DEF e
<1>2. /\ Certain' /\ Replayed' /\ ReplayInLog' /\ HandlerKnows' /\ ClosedStays'
      /\ EverReacted \subseteq EverReacted'
      /\ \A s \in Senders : s # p =>
           /\ s \in Reacted(Len(log))' <=> s \in Reacted(Len(log))
           /\ ReactsIn(s, 1, Len(log))' <=> ReactsIn(s, 1, Len(log))
  BY <1>1, ReactingKeeps
<1>3. ReactionsTyped'
  <2>1. log \in Seq(Events) /\ covered \in Nat /\ covered <= Len(log)
    BY DEF ReactionsInv, ReactionsTyped
  <2>2. log' \in Seq(Events) /\ covered' <= Len(log)'
    BY <1>1, <2>1
  <2>3. QED BY <1>1, <2>2 DEF ReactionsInv, ReactionsTyped
<1>4. NobodyElse'
  BY <1>1, <1>2 DEF ReactionsInv, NobodyElse
<1>5. TapIsLast'
  BY <1>1, <1>2, ReactionsAssumption DEF ReactionsInv, TapIsLast
<1>6. QED BY <1>2, <1>3, <1>4, <1>5 DEF ReactionsInv

\* The reaction of a tap is sent: it is the last of this inbox.
LEMMA TapSentKeeps ==
  ASSUME ReactionsInv, TapSent
  PROVE  ReactionsInv'
<1>0. PICK e : e = [who |-> me, add |-> me \notin tap.seen]
  OBVIOUS
<1>1. /\ tap # Absent /\ tap \in Taps /\ log' = Append(log, e)
      /\ tap' = [tap EXCEPT !.at = "sent"]
      /\ UNCHANGED <<covered, arrived, handling, stored, display, loading, replays, due, doubtful,
                     alone>>
      /\ e \in Events /\ e.who = me /\ e.add = (me \notin tap.seen)
  BY <1>0, ReactionsAssumption DEF TapSent, Events, ReactionsInv, ReactionsTyped
<1>2. tap' \in Taps /\ tap'.at = "sent" /\ tap'.seen = tap.seen
  BY <1>1 DEF Taps
<1>3. tap' # Absent
  BY <1>2, ReactionsAssumption
<1>4. /\ Certain' /\ Replayed' /\ ReplayInLog' /\ HandlerKnows' /\ ClosedStays'
      /\ EverReacted \subseteq EverReacted'
      /\ ReactsIn(me, 1, Len(log))'
      /\ me \in Reacted(Len(log))' <=> e.add
  <2>1. /\ ReactsIn(e.who, 1, Len(log))'
        /\ e.who \in Reacted(Len(log))' <=> e.add
        /\ EverReacted \subseteq EverReacted'
        /\ Certain' /\ Replayed' /\ ReplayInLog' /\ HandlerKnows' /\ ClosedStays'
    BY <1>1, ReactingKeeps
  <2>2. QED BY <1>1, <2>1 DEF ReactsIn
<1>5. ReactionsTyped'
  <2>1. log \in Seq(Events) /\ covered \in Nat /\ covered <= Len(log)
    BY DEF ReactionsInv, ReactionsTyped
  <2>2. log' \in Seq(Events) /\ covered' <= Len(log)'
    BY <1>1, <2>1
  <2>3. QED BY <1>1, <1>2, <2>2 DEF ReactionsInv, ReactionsTyped
<1>6. NobodyElse'
  BY <1>1, <1>2, <1>4 DEF ReactionsInv, NobodyElse
<1>7. TapIsLast'
  BY <1>1, <1>2, <1>4 DEF TapIsLast
<1>8. QED BY <1>4, <1>5, <1>6, <1>7 DEF ReactionsInv
-----------------------------------------------------------------------------
(* The theorems *)

\* Nobody has reacted yet.
LEMMA ReactionsStart == ReactionsInit => ReactionsInv
<1> SUFFICES ASSUME ReactionsInit
             PROVE  ReactionsInv
  OBVIOUS
<1>1. /\ log = <<>> /\ covered = 0 /\ arrived = <<>> /\ handling = Absent
      /\ stored \in {Absent, {}} /\ display = Absent
      /\ tap = Absent /\ loading = Absent
      /\ replays = [r \in Replays |-> Absent] /\ due = 0
      /\ doubtful = FALSE /\ alone = Absent
  BY DEF ReactionsInit
<1>2. ReactionsTyped
  <2>1. log \in Seq(Events) /\ arrived \in Seq(Arrivals) /\ covered \in Nat /\ covered <= Len(log)
    BY <1>1
  <2>2. stored \in {Absent} \cup Sets
    BY <1>1 DEF Sets
  <2>3. QED BY <1>1, <2>1, <2>2 DEF ReactionsTyped
<1>3. NobodyElse
  BY <1>1 DEF NobodyElse
<1>4. HandlerKnows /\ TapIsLast /\ ReplayInLog /\ Replayed /\ ClosedStays
  BY <1>1 DEF HandlerKnows, TapIsLast, ReplayInLog, Replayed, ClosedStays
<1>5. \A s : ~Done(s)
  BY <1>1 DEF Done, ReactsIn
<1>6. QED BY <1>2, <1>3, <1>4, <1>5 DEF ReactionsInv, Certain

\* A step that changes nothing of the message keeps the invariant.
LEMMA ReactionsStutter == ReactionsInv /\ UNCHANGED reactionsVars => ReactionsInv'
<1> SUFFICES ASSUME ReactionsInv, UNCHANGED reactionsVars
             PROVE  ReactionsInv'
  OBVIOUS
<1>1. UNCHANGED <<log, covered, arrived, handling, stored, display, tap, loading, replays, due,
                  doubtful, alone>>
  BY DEF reactionsVars
<1>2. ReactionsTyped' /\ NobodyElse' /\ HandlerKnows' /\ TapIsLast' /\ ReplayInLog'
  BY <1>1 DEF ReactionsInv, ReactionsTyped, NobodyElse, EverReacted, HandlerKnows, TapIsLast,
              ReplayInLog, Reacted, ReactsIn
<1>3. ClosedStays'
  BY <1>1 DEF ReactionsInv, ClosedStays
<1>4. Certain' /\ Replayed'
  <2>1. ASSUME NEW s \in Senders, NEW n, Kept(s, n)
        PROVE  Kept(s, n)'
    BY <1>1, <2>1 DEF Kept, LastSays, NotIn, InHand, Reacted
  <2>2. Certain'
    BY <1>1, <2>1 DEF ReactionsInv, Certain, Overtaken, Done, ReactsIn
  <2>3. Replayed'
    BY <1>1, <2>1 DEF ReactionsInv, Replayed, ReactsIn
  <2>4. QED BY <2>2, <2>3
<1>5. QED BY <1>2, <1>3, <1>4 DEF ReactionsInv

\* The invariant holds of every run: whoever has no more to come is right in the row, and
\* a replay that is alone with the message is right as far as it has come, whatever
\* handlers fail, replays overlap or stop, and pages go.
THEOREM ReactionsInvariance == ReactionsSpec => []ReactionsInv
<1>1. ReactionsInv /\ [ReactionsNext]_reactionsVars => ReactionsInv'
  <2> SUFFICES ASSUME ReactionsInv, [ReactionsNext]_reactionsVars
               PROVE  ReactionsInv'
    OBVIOUS
  <2>1. CASE \E s \in Senders : PeerReacts(s)
    BY <2>1, PeerReactsKeeps
  <2>2. CASE MessageStored
    BY <2>2, StoringKeeps
  <2>3. CASE FindTarget
    BY <2>3, FindTargetKeeps
  <2>4. CASE SkipEvent \/ HandlerFails
    BY <2>4, LosingKeeps
  <2>5. CASE Write
    BY <2>5, WriteKeeps
  <2>6. CASE Publish
    BY <2>6, PublishKeeps
  <2>7. CASE Tap \/ TapFails \/ LoadReads
    BY <2>7, ReadingKeeps
  <2>8. CASE TapSent
    BY <2>8, TapSentKeeps
  <2>9. CASE TapShown
    BY <2>9, TapShownKeeps
  <2>10. CASE LoadSets
    BY <2>10, LoadSetsKeeps
  <2>11. ASSUME NEW r \in Replays,
                BeginReplay(r) \/ Replay(r) \/ ReplayEnds(r) \/ ReplayStops(r)
         PROVE  ReactionsInv'
    BY <2>11, BeginReplayKeeps, ReplayKeeps, ReplayOverKeeps
  <2>12. CASE Reload
    BY <2>12, ReloadKeeps
  <2>13. CASE UNCHANGED reactionsVars
    BY <2>13, ReactionsStutter
  <2>14. QED BY <2>1, <2>2, <2>3, <2>4, <2>5, <2>6, <2>7, <2>8, <2>9, <2>10, <2>11, <2>12,
               <2>13 DEF ReactionsNext
<1>2. QED BY <1>1, ReactionsStart, PTL DEF ReactionsSpec

\* Type correctness of the reactions of a message.
THEOREM ReactionsTypeCorrect == ReactionsSpec => []ReactionsTypeOK
<1>1. ReactionsInv => ReactionsTypeOK
  BY DEF ReactionsInv, ReactionsTyped, ReactionsTypeOK, Events, Arrivals, Sets
<1>2. QED BY <1>1, ReactionsInvariance, PTL

\* The row settles on the people whose last event adds (handleReaction, reactToMessage,
\* syncHistory, backfillReactionsForConversation), whatever was handled again on the way.
THEOREM RowsSettleOnReactions == ReactionsSpec => []ReactionsSettle
<1>1. ReactionsInv => ReactionsSettle
  <2> SUFFICES ASSUME ReactionsInv, AtRest, stored # Absent, ~doubtful,
                      NEW s \in Senders, ~ReactsIn(s, covered + 1, Len(log))
               PROVE  s \in stored <=> s \in Reacted(Len(log))
    BY DEF ReactionsSettle
  <2>1. arrived = <<>> /\ handling = Absent /\ \A r \in Replays : replays[r] = Absent
    BY DEF AtRest
  <2>2. log \in Seq(Events) /\ Len(log) \in Nat
    BY DEF ReactionsInv, ReactionsTyped
  <2>3. stored \subseteq EverReacted
    BY DEF ReactionsInv, NobodyElse
  <2>4. CASE ReactsIn(s, 1, Len(log))
    <3>1. Done(s) /\ ~Overtaken
      BY <2>1, <2>4 DEF Done, Overtaken
    <3>2. Kept(s, Len(log)) /\ NotIn(arrived, s)
      BY <2>1, <3>1 DEF ReactionsInv, Certain, NotIn
    <3>3. QED BY <2>1, <3>2 DEF Kept, InHand
  <2>5. CASE ~ReactsIn(s, 1, Len(log))
    BY <2>3, <2>5 DEF EverReacted, Reacted, ReactsIn
  <2>6. QED BY <2>4, <2>5
<1>2. QED BY <1>1, ReactionsInvariance, PTL
=============================================================================
