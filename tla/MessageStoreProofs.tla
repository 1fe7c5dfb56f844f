-------------------------- MODULE MessageStoreProofs --------------------------
(***************************************************************************)
(* Theorems about MessageStore for any messages, any mix of its            *)
(* operations, and any number of operations at a time and of faults.       *)
(***************************************************************************)
EXTENDS MessageStore, FiniteSetTheorems, WellFoundedInduction, TLAPS

(* What has a type *)

Attachments == {"none", "metadata", "cached", "failed", "blocked"}
Databases == [rows : [Ids -> Rows], att : [Ids -> Attachments], conv : ConversationRows,
              tomb : BOOLEAN]

\* No optimistic row is ever marked as sent.
LocalsAreOptimistic(rows) == \A m \in Mine : rows[Local(m)] \notin {"sent", "delivered"}

WorldTyped ==
  /\ clock \in Nat /\ cutoff \in 0..clock /\ sentAt \in [Ids -> 0..clock]
  /\ kinds \in Scenarios /\ image \subseteq Messages /\ group \in BOOLEAN
  /\ faults \in 0..MaxFaults /\ dropped \subseteq Ids /\ cut \subseteq Mine /\ lost \in BOOLEAN

ScreenTyped == ram \in [Ids -> Rows] /\ LocalsAreOptimistic(ram) /\ chat \in ConversationRows

\* Every tick of the clock is the stamp of one row.
Stamped == {i \in Ids : sentAt[i] > 0}
StampsAreUnique ==
  /\ clock = Cardinality(Stamped)
  /\ \A i, j \in Stamped : sentAt[i] = sentAt[j] => i = j

\* An operation of kind n runs, and what it has read.
Runs(n) == n \in Operations /\ ops[n].at # "idle"
OpsAreRecords ==
  /\ ops = [n \in Operations |-> ops[n]]
  /\ \A n \in Operations : ops[n] = [at |-> ops[n].at, msg |-> ops[n].msg, val |-> ops[n].val]
OpsTyped ==
  /\ OpsAreRecords
  /\ Runs("send") => Sending \in Mine /\ sentAt[Local(Sending)] > 0
                     /\ ops["send"].val \in {None, Local(Sending)}
  /\ Runs("receive") => Receiving \in Messages /\ ops["receive"].val \in BOOLEAN
  /\ Runs("remove") =>
       ops["remove"].val.ids \subseteq Ids /\ ops["remove"].val.conv \in ConversationRows
  /\ In("sweep", "delete") => ops["sweep"].val \subseteq Ids
  /\ In("sweep", "orphans") \/ In("sweep", "apply") =>
       ops["sweep"].val.ids \subseteq Ids /\ ops["sweep"].val.conv \in ConversationRows
  /\ Runs("load") => ops["load"].val \in [Ids -> Rows] /\ LocalsAreOptimistic(ops["load"].val)
  /\ Runs("sync") => ops["sync"].val \in ConversationRows
  /\ Runs("edit") => ops["edit"].val \in ConversationRows
  /\ Runs("download") => ops["download"].msg \in Theirs
-----------------------------------------------------------------------------
(* The inductive invariant *)

\* i is the newest of the ids, or None when there are none.
IsNewest(ids, i) ==
  \/ ids = {} /\ i = None
  \/ i \in ids /\ \A j \in ids : sentAt[j] <= sentAt[i]

\* What the transactions keep of a database d; l: a preview was lost.
DatabaseOk(d, l) ==
  /\ d \in Databases /\ LocalsAreOptimistic(d.rows) /\ Stored(d) \subseteq Stamped
  /\ ~l /\ d.conv # None => IsNewest(Stored(d), d.conv.last)
  /\ \A m \in Theirs : d.att[m] # "none" => d.rows[m] # "absent"
DatabaseInv == DatabaseOk(db, lost)

\* A message that was stored is stored still, or was removed on purpose.
Kept(m) == db.rows[m] # "absent" \/ m \in dropped

\* So is whatever an operation is about to show.
ScreenInv ==
  /\ ScreenIsBacked
  /\ Runs("load") => \A m \in Theirs : ops["load"].val[m] # "absent" => Kept(m)
  /\ In("receive", "publish") => Kept(Receiving)

\* A message is sent once, and each step of its sending has done its part.
Settled(m) == db.rows[Local(m)] = "absent" /\ (Kept(m) \/ ~Retained(m))
SendInv ==
  /\ \A m \in Mine : sentAt[Local(m)] = 0 => sentAt[m] = 0
  /\ In("send", "delete") \/ In("send", "put") \/ In("send", "reconcile") => sentAt[Sending] > 0
  /\ In("send", "put") => db.rows[Local(Sending)] = "absent"
  /\ In("send", "published") => Settled(Sending) \/ Sending \in cut
  /\ In("send", "mark") \/ In("send", "failed") => Sending \in cut
  /\ \A m \in Mine : sentAt[m] > 0 /\ m \notin cut /\ ~(Runs("send") /\ Sending = m) => Settled(m)

IInv ==
  /\ WorldTyped /\ ScreenTyped /\ StampsAreUnique /\ OpsTyped
  /\ DatabaseInv /\ ScreenInv /\ SendInv
-----------------------------------------------------------------------------
(* The newest message *)

\* A set of natural numbers has a least one.
LEMMA HasLeast ==
  ASSUME NEW S, S \subseteq Nat, S # {}
  PROVE  \E k \in S : \A other \in S : k <= other
<1> DEFINE R == {ij \in Nat \X Nat : ij[1] < ij[2]}
<1>1. IsWellFoundedOn(R, Nat)
  BY NatLessThanWellFounded DEF OpToRel
<1>2. \A i, j \in Nat : i < j => <<i, j>> \in R
  OBVIOUS
<1> HIDE DEF R
<1>3. PICK k \in S : \A other \in S : <<other, k>> \notin R
  BY <1>1, WFMin
<1>4. ASSUME NEW other \in S PROVE k <= other
  <2>1. k \in Nat /\ other \in Nat /\ ~(other < k)
    BY <1>2, <1>3
  <2>2. QED BY <2>1
<1>5. QED BY <1>4

\* Of the messages that were sent one is the newest, and only one.
LEMMA NewestIs ==
  ASSUME WorldTyped, StampsAreUnique, NEW ids, ids \subseteq Stamped
  PROVE  IsNewest(ids, Newest(ids)) /\ \A i : IsNewest(ids, i) => i = Newest(ids)
<1>1. CASE ids = {}
  BY <1>1 DEF IsNewest, Newest
<1>2. CASE ids # {}
  <2>1. \A i \in ids : i \in Ids /\ sentAt[i] \in Nat /\ clock - sentAt[i] \in Nat
    BY DEF Stamped, WorldTyped
  <2>2. \E i \in ids : \A j \in ids : sentAt[j] <= sentAt[i]
    <3> DEFINE ages == {clock - sentAt[i] : i \in ids}
    <3>1. ages \subseteq Nat /\ ages # {}
      BY <1>2, <2>1
    <3>2. PICK k \in ages : \A other \in ages : k <= other
      BY <3>1, HasLeast
    <3>3. PICK i \in ids : k = clock - sentAt[i]
      BY <3>2
    <3>4. \A j \in ids : clock - sentAt[i] <= clock - sentAt[j]
      BY <3>2, <3>3
    <3>5. QED BY <2>1, <3>4 DEF WorldTyped
  <2>3. Newest(ids) \in ids /\ \A j \in ids : sentAt[j] <= sentAt[Newest(ids)]
    BY <1>2, <2>2 DEF Newest
  <2>4. ASSUME NEW i, IsNewest(ids, i) PROVE i = Newest(ids)
    <3>1. i \in ids /\ sentAt[i] <= sentAt[Newest(ids)] /\ sentAt[Newest(ids)] <= sentAt[i]
      BY <1>2, <2>3, <2>4 DEF IsNewest
    <3>2. sentAt[i] = sentAt[Newest(ids)]
      BY <2>1, <2>3, <3>1
    <3>3. QED BY <2>3, <3>1, <3>2 DEF StampsAreUnique
  <2>5. QED BY <1>2, <2>3, <2>4 DEF IsNewest
<1>3. QED BY <1>1, <1>2
-----------------------------------------------------------------------------
(* The transactions *)

\* What putMessage does to each part of the database ...
LEMMA PutPuts ==
  ASSUME NEW d \in Databases, NEW id \in Ids, NEW status \in Rows
  PROVE  LET p == PutMessage(d, id, status)
         IN /\ p \in Databases /\ p.att = d.att /\ p.tomb = d.tomb
            /\ p.conv = IF Retained(id) THEN Follow(d.conv, id) ELSE d.conv
            /\ \A i \in Ids : p.rows[i] = IF Retained(id) /\ i = id THEN status ELSE d.rows[i]
<1>1. Follow(d.conv, id) \in ConversationRows
  BY DEF Follow, ConversationRows, Databases
<1>2. QED BY <1>1 DEF PutMessage, Databases

\* putMessage keeps what the transactions keep, and every row.
LEMMA PutIsOk ==
  ASSUME WorldTyped, StampsAreUnique, NEW d, NEW l \in BOOLEAN, DatabaseOk(d, l),
         NEW id \in Ids, NEW status \in Rows \ {"absent"},
         status \in {"sent", "delivered"} => id \in Messages
  PROVE  DatabaseOk(PutMessage(d, id, status), l)
<1> DEFINE p == PutMessage(d, id, status)
<1>1. /\ p \in Databases /\ p.att = d.att
      /\ p.conv = IF Retained(id) THEN Follow(d.conv, id) ELSE d.conv
      /\ \A i \in Ids : p.rows[i] = IF Retained(id) /\ i = id THEN status ELSE d.rows[i]
  BY PutPuts DEF DatabaseOk
<1>2. CASE ~Retained(id)
  BY <1>2 DEF PutMessage
<1>3. CASE Retained(id)
  <2>1. sentAt[id] > 0 /\ Stored(p) = Stored(d) \cup {id} /\ Stored(d) \subseteq Ids
    BY <1>1, <1>3 DEF Retained, WorldTyped, Stored
  <2>2. LocalsAreOptimistic(p.rows)
    BY <1>1, MessageStoreAssumption DEF DatabaseOk, LocalsAreOptimistic, Ids
  <2>3. Stored(p) \subseteq Stamped
    BY <2>1 DEF DatabaseOk, Stamped
  <2>4. ASSUME ~l, p.conv # None PROVE IsNewest(Stored(p), p.conv.last)
    <3>1. d.conv # None /\ IsNewest(Stored(d), d.conv.last) /\ d.conv \in [last : Ids \cup {None}]
      BY <1>1, <1>3, <2>4 DEF Follow, DatabaseOk, Databases, ConversationRows
    <3>2. \A i \in Stored(p) : sentAt[i] \in Nat
      BY <2>1, <2>3 DEF Stamped, WorldTyped
    <3>3. CASE At(id) >= At(d.conv.last)
      <4>1. p.conv.last = id
        BY <1>1, <1>3, <3>1, <3>3 DEF Follow
      <4>2. \A j \in Stored(d) : sentAt[j] <= sentAt[id]
        BY <2>1, <3>1, <3>2, <3>3, MessageStoreAssumption DEF IsNewest, At
      <4>3. QED BY <2>1, <3>2, <4>1, <4>2 DEF IsNewest
    <3>4. CASE ~(At(id) >= At(d.conv.last))
      <4>1. p.conv.last = d.conv.last
        BY <1>1, <1>3, <3>4 DEF Follow
      <4>2. d.conv.last \in Stored(d) /\ sentAt[id] <= sentAt[d.conv.last]
        BY <2>1, <3>1, <3>2, <3>4, MessageStoreAssumption DEF IsNewest, At
      <4>3. QED BY <2>1, <3>1, <4>1, <4>2 DEF IsNewest
    <3>5. QED BY <3>3, <3>4
  <2>5. \A m \in Theirs : p.att[m] # "none" => p.rows[m] # "absent"
    BY <1>1 DEF DatabaseOk, Ids, Messages
  <2>6. QED BY <1>1, <2>2, <2>3, <2>4, <2>5 DEF DatabaseOk
<1>4. QED BY <1>2, <1>3

\* ... and a deletion to its rows.
LEMMA DeleteDeletes ==
  ASSUME NEW d \in Databases, NEW ids \in SUBSET Ids
  PROVE  LET p == DeleteMessages(d, ids)
         IN \A i \in Ids : p.rows[i] = IF i \in ids THEN "absent" ELSE d.rows[i]
<1>1. CASE ids \cap Stored(d) = {}
  BY <1>1 DEF DeleteMessages, Stored
<1>2. CASE ids \cap Stored(d) # {}
  BY <1>2 DEF DeleteMessages, Databases
<1>3. QED BY <1>1, <1>2

\* deleteMessages repairs the preview and removes what depends on the messages.
LEMMA DeleteIsOk ==
  ASSUME WorldTyped, StampsAreUnique, NEW d, NEW l \in BOOLEAN, DatabaseOk(d, l),
         NEW ids \in SUBSET Ids
  PROVE  DatabaseOk(DeleteMessages(d, ids), l)
<1>1. CASE ids \cap Stored(d) = {}
  BY <1>1 DEF DeleteMessages
<1>2. CASE ids \cap Stored(d) # {}
  <2> DEFINE left == [d EXCEPT !.rows = [i \in Ids |-> IF i \in ids THEN "absent" ELSE @[i]],
                               !.att = [i \in Ids |-> IF i \in ids THEN "none" ELSE @[i]]]
             p == [left EXCEPT !.conv =
                     IF @ = None THEN None ELSE [@ EXCEPT !.last = Newest(Stored(left))]]
  <2>1. DeleteMessages(d, ids) = p
    BY <1>2 DEF DeleteMessages
  <2>2. /\ left \in Databases /\ left.conv = d.conv
        /\ \A i \in Ids : /\ left.rows[i] = IF i \in ids THEN "absent" ELSE d.rows[i]
                          /\ left.att[i] = IF i \in ids THEN "none" ELSE d.att[i]
    <3> DEFINE rows == [i \in Ids |-> IF i \in ids THEN "absent" ELSE d.rows[i]]
               att == [i \in Ids |-> IF i \in ids THEN "none" ELSE d.att[i]]
    <3>1. rows \in [Ids -> Rows] /\ att \in [Ids -> Attachments]
      BY DEF DatabaseOk, Databases, Rows, Attachments
    <3>2. left = [d EXCEPT !.rows = rows, !.att = att]
      OBVIOUS
    <3>3. \A i \in Ids : /\ rows[i] = IF i \in ids THEN "absent" ELSE d.rows[i]
                        /\ att[i] = IF i \in ids THEN "none" ELSE d.att[i]
      OBVIOUS
    <3> HIDE DEF rows, att, left
    <3>4. left \in Databases /\ left.conv = d.conv /\ left.rows = rows /\ left.att = att
      BY <3>1, <3>2 DEF DatabaseOk, Databases
    <3>5. QED BY <3>3, <3>4
  <2> HIDE DEF left
  <2>3. Stored(left) \subseteq Stored(d)
    BY <2>2 DEF Stored
  <2>4. IsNewest(Stored(left), Newest(Stored(left)))
    BY <2>3, NewestIs DEF DatabaseOk
  <2>5. Newest(Stored(left)) \in Ids \cup {None}
    BY <2>4 DEF IsNewest, Stored
  <2>6. /\ p.rows = left.rows /\ p.att = left.att
        /\ p.conv = IF d.conv = None THEN None ELSE [d.conv EXCEPT !.last = Newest(Stored(left))]
    BY <2>2 DEF Databases
  <2>7. p \in Databases
    BY <2>2, <2>5 DEF Databases, ConversationRows
  <2> HIDE DEF p
  <2>8. Stored(p) = Stored(left)
    BY <2>6 DEF Stored
  <2>9. p.conv # None => p.conv.last = Newest(Stored(left))
    BY <2>6 DEF DatabaseOk, Databases, ConversationRows
  <2>10. LocalsAreOptimistic(p.rows)
    BY <2>2, <2>6 DEF DatabaseOk, LocalsAreOptimistic, Ids
  <2>11. \A m \in Theirs : p.att[m] # "none" => p.rows[m] # "absent"
    BY <2>2, <2>6 DEF DatabaseOk, Ids, Messages
  <2>12. QED
    BY <2>1, <2>3, <2>4, <2>7, <2>8, <2>9, <2>10, <2>11 DEF DatabaseOk
<1>3. QED BY <1>1, <1>2

\* putConversation loses the preview, or writes that of the newest message.
LEMMA ConversationIsOk ==
  ASSUME WorldTyped, StampsAreUnique, DatabaseInv, NEW c \in ConversationRows, PutConversation(c)
  PROVE  /\ DatabaseOk(db', lost') /\ lost' \in BOOLEAN /\ db'.rows = db.rows
<1>1. /\ db' \in Databases /\ db'.rows = db.rows /\ db'.att = db.att /\ db'.conv = c
  BY DEF PutConversation, DatabaseInv, DatabaseOk, Databases
<1>2. Stored(db)' = Stored(db)
  BY <1>1 DEF Stored
<1>3. lost' \in BOOLEAN /\ (~lost' => c.last = Newest(Stored(db)))
  BY DEF PutConversation, WorldTyped
<1>4. IsNewest(Stored(db), Newest(Stored(db)))
  BY NewestIs DEF DatabaseInv, DatabaseOk
<1>5. Stored(db') = Stored(db)
  BY <1>1 DEF Stored
<1>6. QED BY <1>1, <1>3, <1>4, <1>5 DEF DatabaseInv, DatabaseOk

\* What leaves the rows and the conversation alone.
LEMMA AttachmentsAreOk ==
  ASSUME NEW d, NEW l \in BOOLEAN, DatabaseOk(d, l), NEW p \in Databases, p.rows = d.rows, p.conv = d.conv,
         \A m \in Theirs : p.att[m] = "none" \/ d.rows[m] # "absent" 
  PROVE  DatabaseOk(p, l)
<1>1. Stored(p) = Stored(d)
  BY DEF Stored
<1>2. QED BY <1>1 DEF DatabaseOk
-----------------------------------------------------------------------------
(* How an operation goes on *)

\* Only that of kind n does: it gets to "at" with message m and value v.
Moves(n, at, m, v) ==
  /\ n \in Operations
  /\ \A k \in Operations : k # n => ops'[k] = ops[k]
  /\ ops'[n].at = at /\ ops'[n].msg = m /\ ops'[n].val = v

\* An operation moves ...
LEMMA OpMoves ==
  ASSUME OpsAreRecords, NEW n \in Operations, NEW at, NEW m, NEW v,
         ops' = [ops EXCEPT ![n] = [at |-> at, msg |-> m, val |-> v]]
  PROVE  OpsAreRecords' /\ Moves(n, at, m, v)
BY DEF OpsAreRecords, Moves

\* ... begins ...
LEMMA BeginMoves ==
  ASSUME WorldTyped, OpsAreRecords, NEW n, NEW at, NEW m, NEW v, Begin(n, at, m, v)
  PROVE  OpsAreRecords' /\ Moves(n, at, m, v) /\ ops[n].at = "idle"
<1>1. n \in Operations /\ ops[n].at = "idle"
  BY MessageStoreAssumption DEF Begin, WorldTyped, Idle
<1>2. ops' = [ops EXCEPT ![n] = [at |-> at, msg |-> m, val |-> v]]
  BY DEF Begin
<1>3. QED BY <1>1, <1>2, OpMoves

\* ... goes to its next step ...
LEMMA GoMoves ==
  ASSUME OpsAreRecords, NEW n \in Operations, NEW at, Go(n, at)
  PROVE  OpsAreRecords' /\ Moves(n, at, ops[n].msg, ops[n].val)
<1> DEFINE r == ops[n]
<1>0. r = [at |-> r.at, msg |-> r.msg, val |-> r.val] /\ ops' = [ops EXCEPT ![n] = [r EXCEPT !.at = at]]
  BY DEF Go, OpsAreRecords
<1> HIDE DEF r
<1>1. ops' = [ops EXCEPT ![n] = [at |-> at, msg |-> ops[n].msg, val |-> ops[n].val]]
  <2>1. [r EXCEPT !.at = at] = [at |-> at, msg |-> r.msg, val |-> r.val]
    BY <1>0
  <2>2. QED BY <1>0, <2>1 DEF r
<1>2. QED BY <1>1, OpMoves

\* ... with what it has read ...
LEMMA FieldsMove ==
  ASSUME OpsAreRecords, NEW n \in Operations, NEW at, NEW v,
         ops' = [ops EXCEPT ![n].at = at, ![n].val = v]
  PROVE  OpsAreRecords' /\ Moves(n, at, ops[n].msg, v)
<1> DEFINE r == ops[n]
<1>1. r = [at |-> r.at, msg |-> r.msg, val |-> r.val] /\ ops' = [ops EXCEPT ![n] = [r EXCEPT !.at = at, !.val = v]]
  BY DEF OpsAreRecords
<1> HIDE DEF r
<1>2. [r EXCEPT !.at = at, !.val = v] = [at |-> at, msg |-> r.msg, val |-> v]
  <2> DEFINE q == [r EXCEPT !.at = at]
  <2>1. q = [at |-> at, msg |-> r.msg, val |-> r.val]
    BY <1>1
  <2>2. [r EXCEPT !.at = at, !.val = v] = [q EXCEPT !.val = v]
    OBVIOUS
  <2> HIDE DEF q
  <2>3. [q EXCEPT !.val = v] = [at |-> at, msg |-> r.msg, val |-> v]
    BY <2>1
  <2>4. QED BY <2>2, <2>3
<1>3. ops' = [ops EXCEPT ![n] = [at |-> at, msg |-> r.msg, val |-> v]]
  BY <1>1, <1>2
<1>4. QED BY <1>3, OpMoves DEF r

\* ... and ends.
LEMMA EndMoves ==
  ASSUME OpsAreRecords, NEW n \in Operations, End(n)
  PROVE  OpsAreRecords' /\ Moves(n, "idle", None, None)
<1>1. ops' = [ops EXCEPT ![n] = [at |-> "idle", msg |-> None, val |-> None]]
  BY DEF End, Idle
<1>2. QED BY <1>1, OpMoves
-----------------------------------------------------------------------------
(* What a step that is not one of a sending has to keep *)

\* A step that sends nothing keeps the clock and its stamps.
LEMMA WorldStays ==
  ASSUME WorldTyped, StampsAreUnique, UNCHANGED world, faults' \in 0..MaxFaults,
         dropped' \subseteq Ids, cut' \subseteq Mine, lost' \in BOOLEAN
  PROVE  WorldTyped' /\ StampsAreUnique'
BY DEF world, WorldTyped, StampsAreUnique, Stamped

\* The database of a step that sends nothing.
LEMMA DatabaseStays ==
  ASSUME sentAt' = sentAt, DatabaseOk(db', lost')
  PROVE  DatabaseInv'
BY DEF DatabaseInv, DatabaseOk, LocalsAreOptimistic, Stored, Stamped, IsNewest

\* The rows that are gone on purpose, or not: what the sendings and the screen rest on.
RowsStay ==
  /\ \A m \in Messages : Kept(m) => Kept(m)'
  /\ \A m \in Mine : db.rows[Local(m)] = "absent" => db'.rows[Local(m)] = "absent"
SendStays == "send" \in Operations => ops'["send"] = ops["send"]

\* A step that is none of the send keeps what is known of sends.
LEMMA SendInvStays ==
  ASSUME WorldTyped, SendInv, OpsTyped, sentAt' = sentAt, cut' = cut, cutoff' \in Nat, cutoff <= cutoff', SendStays, RowsStay
  PROVE  SendInv'
<1>1. \A n : Runs("send")' = Runs("send") /\ (\A at : In("send", at)' = In("send", at))
      /\ (Runs("send") => Sending' = Sending)
  BY DEF SendStays, Runs, In, Sending
<1>2. \A m \in Mine : Settled(m) => Settled(m)'
  BY DEF Settled, RowsStay, Messages, Retained, Ids, WorldTyped
<1>3. \A at : In("send", at) /\ at # "idle" => Runs("send")
  BY DEF In, Runs
<1>4. In("send", "put") => db'.rows[Local(Sending)] = "absent"
  BY <1>3 DEF OpsTyped, SendInv, RowsStay
<1>5. In("send", "published") => Settled(Sending)' \/ Sending \in cut
  BY <1>1, <1>2, <1>3 DEF OpsTyped, SendInv
<1>6. QED BY <1>1, <1>2, <1>3, <1>4, <1>5 DEF SendInv

\* What any operation but the send must show.
LEMMA OthersKeep ==
  ASSUME IInv, UNCHANGED <<world, cut>>, faults' \in 0..MaxFaults, dropped' \subseteq Ids,
         lost' \in BOOLEAN, ScreenTyped', OpsTyped', DatabaseOk(db', lost'), ScreenInv',
         SendStays, RowsStay
  PROVE  IInv'
<1>1. WorldTyped' /\ StampsAreUnique'
  BY WorldStays DEF IInv, WorldTyped
<1>2. DatabaseInv'
  BY DatabaseStays DEF world
<1>3. SendInv'
  BY SendInvStays DEF IInv, world, WorldTyped
<1>4. QED BY <1>1, <1>2, <1>3 DEF IInv

\* An operation only goes on.
LEMMA OpsKeep ==
  ASSUME IInv, UNCHANGED <<world, db, ram, chat, notes>>, faults' \in 0..MaxFaults, OpsTyped',
         SendStays, ScreenInv'
  PROVE  IInv'
<1>1. ScreenTyped' /\ RowsStay
  BY DEF IInv, ScreenTyped, LocalsAreOptimistic, RowsStay, Kept, notes
<1>2. DatabaseOk(db', lost') /\ dropped' \subseteq Ids /\ lost' \in BOOLEAN
  BY DEF IInv, DatabaseInv, WorldTyped, notes
<1>3. QED BY <1>1, <1>2, OthersKeep DEF notes
-----------------------------------------------------------------------------
(* Steps that only read *)

\* A received message reaches the handler.
LEMMA ReceiveBeginsKeeps ==
  ASSUME IInv, NEW m \in Messages, ReceiveBegins(m)
  PROVE  IInv'
<1>1. OpsAreRecords' /\ Moves("receive", "lookup", m, FALSE) /\ ops'["receive"].val \in BOOLEAN
  BY BeginMoves DEF ReceiveBegins, IInv, OpsTyped, Moves
<1>2. UNCHANGED <<world, db, ram, chat, notes>> /\ faults' \in 0..MaxFaults
  BY DEF ReceiveBegins, IInv, WorldTyped
<1>3. OpsTyped'
  BY <1>1, <1>2 DEF IInv, OpsTyped, Runs, In, Sending, Receiving, Moves, world
<1>4. SendStays /\ ScreenInv'
  BY <1>1, <1>2 DEF IInv, ScreenInv, ScreenIsBacked, Kept, SendStays, Moves, Runs, In, Receiving, notes
<1>5. QED BY <1>2, <1>3, <1>4, OpsKeep

\* The download of an attachment begins.
LEMMA DownloadBeginsKeeps ==
  ASSUME IInv, NEW m \in Messages, DownloadBegins(m)
  PROVE  IInv'
<1>1. OpsAreRecords' /\ Moves("download", "fetch", m, None)
  BY BeginMoves DEF DownloadBegins, IInv, OpsTyped
<1>2. UNCHANGED <<world, db, ram, chat, notes>> /\ faults' \in 0..MaxFaults /\ m \in Theirs
  BY DEF DownloadBegins, IInv, WorldTyped
<1>3. OpsTyped'
  BY <1>1, <1>2 DEF IInv, OpsTyped, Runs, In, Sending, Receiving, Moves, world
<1>4. SendStays /\ ScreenInv'
  BY <1>1, <1>2 DEF IInv, ScreenInv, ScreenIsBacked, Kept, SendStays, Moves, Runs, In, Receiving, notes
<1>5. QED BY <1>2, <1>3, <1>4, OpsKeep

\* A conversation is opened: its rows are read.
LEMMA LoadBeginsKeeps ==
  ASSUME IInv, LoadBegins
  PROVE  IInv'
<1>1. OpsAreRecords' /\ Moves("load", "set", None, [i \in Ids |-> IF Retained(i) THEN db.rows[i] ELSE "absent"])
  BY BeginMoves DEF LoadBegins, IInv, OpsTyped
<1>2. UNCHANGED <<world, db, ram, chat, notes>> /\ faults' \in 0..MaxFaults
  BY DEF LoadBegins, IInv, WorldTyped
<1>3. OpsTyped'
  BY <1>1, <1>2 DEF IInv, OpsTyped, Runs, In, Sending, Receiving, Moves, world, DatabaseInv, DatabaseOk, Databases, LocalsAreOptimistic, Rows, Ids
<1>4. SendStays /\ ScreenInv'
  BY <1>1, <1>2 DEF IInv, ScreenInv, ScreenIsBacked, Kept, SendStays, Moves, Runs, In, Receiving, notes, Ids, Messages
<1>5. QED BY <1>2, <1>3, <1>4, OpsKeep

\* Retention reads what is older than the cutoff.
LEMMA SweepBeginsKeeps ==
  ASSUME IInv, SweepBegins
  PROVE  IInv'
<1>1. OpsAreRecords' /\ Moves("sweep", "delete", cutoff, {i \in Stored(db) : ~Retained(i)})
  BY BeginMoves DEF SweepBegins, IInv, OpsTyped
<1>2. UNCHANGED <<world, db, ram, chat, notes>> /\ faults' \in 0..MaxFaults
  BY DEF SweepBegins, IInv, WorldTyped
<1>3. OpsTyped'
  BY <1>1, <1>2 DEF IInv, OpsTyped, Runs, In, Sending, Receiving, Moves, world, Stored
<1>4. SendStays /\ ScreenInv'
  BY <1>1, <1>2 DEF IInv, ScreenInv, ScreenIsBacked, Kept, SendStays, Moves, Runs, In, Receiving, notes
<1>5. QED BY <1>2, <1>3, <1>4, OpsKeep

\* A conversation sync reads the row before it asks the network.
LEMMA SyncBeginsKeeps ==
  ASSUME IInv, SyncBegins
  PROVE  IInv'
<1>1. OpsAreRecords' /\ Moves("sync", "network", None, db.conv)
  BY BeginMoves DEF SyncBegins, IInv, OpsTyped
<1>2. UNCHANGED <<world, db, ram, chat, notes>> /\ faults' \in 0..MaxFaults
  BY DEF SyncBegins, IInv, WorldTyped
<1>3. OpsTyped'
  BY <1>1, <1>2 DEF IInv, OpsTyped, Runs, In, Sending, Receiving, Moves, world, DatabaseInv, DatabaseOk, Databases
<1>4. SendStays /\ ScreenInv'
  BY <1>1, <1>2 DEF IInv, ScreenInv, ScreenIsBacked, Kept, SendStays, Moves, Runs, In, Receiving, notes
<1>5. QED BY <1>2, <1>3, <1>4, OpsKeep

\* An edit of the conversation has read its row.
LEMMA EditBeginsKeeps ==
  ASSUME IInv, EditBegins
  PROVE  IInv'
<1>1. OpsAreRecords' /\ Moves("edit", "write", None, db.conv)
  BY BeginMoves DEF EditBegins, IInv, OpsTyped
<1>2. UNCHANGED <<world, db, ram, chat, notes>> /\ faults' \in 0..MaxFaults
  BY DEF EditBegins, IInv, WorldTyped
<1>3. OpsTyped'
  BY <1>1, <1>2 DEF IInv, OpsTyped, Runs, In, Sending, Receiving, Moves, world, DatabaseInv, DatabaseOk, Databases
<1>4. SendStays /\ ScreenInv'
  BY <1>1, <1>2 DEF IInv, ScreenInv, ScreenIsBacked, Kept, SendStays, Moves, Runs, In, Receiving, notes
<1>5. QED BY <1>2, <1>3, <1>4, OpsKeep

\* A conversation that is not stored is created.
LEMMA CreateBeginsKeeps ==
  ASSUME IInv, CreateBegins
  PROVE  IInv'
<1>1. OpsAreRecords' /\ Moves("create", "network", None, None)
  BY BeginMoves DEF CreateBegins, IInv, OpsTyped
<1>2. UNCHANGED <<world, db, ram, chat, notes>> /\ faults' \in 0..MaxFaults
  BY DEF CreateBegins, IInv, WorldTyped
<1>3. OpsTyped'
  BY <1>1, <1>2 DEF IInv, OpsTyped, Runs, In, Sending, Receiving, Moves, world
<1>4. SendStays /\ ScreenInv'
  BY <1>1, <1>2 DEF IInv, ScreenInv, ScreenIsBacked, Kept, SendStays, Moves, Runs, In, Receiving, notes
<1>5. QED BY <1>2, <1>3, <1>4, OpsKeep

\* The sync reads the conversation it will show.
LEMMA SyncListsKeeps ==
  ASSUME IInv, SyncLists
  PROVE  IInv'
<1>1. OpsAreRecords' /\ Moves("sync", "set", ops["sync"].msg, db.conv)
  <2>1. "sync" \in Operations /\ ops' = [ops EXCEPT !["sync"].at = "set", !["sync"].val = db.conv]
    BY DEF SyncLists, In
  <2>2. QED BY <2>1, FieldsMove DEF IInv, OpsTyped
<1>2. UNCHANGED <<world, db, ram, chat, notes>> /\ faults' \in 0..MaxFaults /\ In("sync", "list")
  BY DEF SyncLists, IInv, WorldTyped
<1>3. OpsTyped'
  BY <1>1, <1>2 DEF IInv, OpsTyped, Runs, In, Sending, Receiving, Moves, world, DatabaseInv, DatabaseOk, Databases
<1>4. SendStays /\ ScreenInv'
  BY <1>1, <1>2 DEF IInv, ScreenInv, ScreenIsBacked, Kept, SendStays, Moves, Runs, In, Receiving, notes
<1>5. QED BY <1>2, <1>3, <1>4, OpsKeep

\* The handler looks for the row in the database.
LEMMA ReceiveLooksUpKeeps ==
  ASSUME IInv, ReceiveLooksUp
  PROVE  IInv'
<1> DEFINE known == db.rows[Receiving] # "absent"
<1>0. "receive" \in Operations /\ known \in BOOLEAN
      /\ ops' = [ops EXCEPT !["receive"].at = "conversation", !["receive"].val = known]
  BY DEF ReceiveLooksUp, ReceiveIn, In
<1> HIDE DEF known
<1>1. OpsAreRecords' /\ Moves("receive", "conversation", Receiving, known)
  BY <1>0, FieldsMove DEF IInv, OpsTyped, Receiving
<1>2. UNCHANGED <<world, db, ram, chat, notes>> /\ faults' \in 0..MaxFaults /\ In("receive", "lookup")
      /\ ops'["receive"].val \in BOOLEAN
  BY <1>0, <1>1 DEF ReceiveLooksUp, IInv, WorldTyped, ReceiveIn, Moves
<1>3. OpsTyped'
  BY <1>1, <1>2 DEF IInv, OpsTyped, Runs, In, Sending, Receiving, Moves, world, ReceiveIn
<1>4. SendStays /\ ScreenInv'
  BY <1>1, <1>2 DEF IInv, ScreenInv, ScreenIsBacked, Kept, SendStays, Moves, Runs, In, Receiving, notes
<1>5. QED BY <1>2, <1>3, <1>4, OpsKeep

\* The handler finds the message stored already.
LEMMA ReceiveFindsDuplicateKeeps ==
  ASSUME IInv, ReceiveFindsDuplicate
  PROVE  IInv'
<1>1. OpsAreRecords' /\ Moves("receive", "idle", None, None)
  BY EndMoves DEF ReceiveFindsDuplicate, IInv, OpsTyped, ReceiveIn, In
<1>2. UNCHANGED <<world, db, ram, chat, notes>> /\ faults' \in 0..MaxFaults
  BY DEF ReceiveFindsDuplicate, IInv, WorldTyped
<1>3. OpsTyped'
  BY <1>1, <1>2 DEF IInv, OpsTyped, Runs, In, Sending, Receiving, Moves, world
<1>4. SendStays /\ ScreenInv'
  BY <1>1, <1>2 DEF IInv, ScreenInv, ScreenIsBacked, Kept, SendStays, Moves, Runs, In, Receiving, notes
<1>5. QED BY <1>2, <1>3, <1>4, OpsKeep

\* The handler fails before it stores.
LEMMA ReceiveFailsKeeps ==
  ASSUME IInv, ReceiveFails
  PROVE  IInv'
<1>1. OpsAreRecords' /\ Moves("receive", "idle", None, None)
  BY EndMoves DEF ReceiveFails, IInv, OpsTyped, ReceiveIn, In
<1>2. UNCHANGED <<world, db, ram, chat, notes>> /\ faults' \in 0..MaxFaults
  BY MessageStoreAssumption DEF ReceiveFails, IInv, WorldTyped, Fault
<1>3. OpsTyped'
  BY <1>1, <1>2 DEF IInv, OpsTyped, Runs, In, Sending, Receiving, Moves, world
<1>4. SendStays /\ ScreenInv'
  BY <1>1, <1>2 DEF IInv, ScreenInv, ScreenIsBacked, Kept, SendStays, Moves, Runs, In, Receiving, notes
<1>5. QED BY <1>2, <1>3, <1>4, OpsKeep
-----------------------------------------------------------------------------
(* Steps that change the screen *)

\* What an operation that writes to the screen alone must show.
LEMMA ScreenKeeps ==
  ASSUME IInv, UNCHANGED <<world, db, faults, notes>>, ScreenTyped', OpsTyped', SendStays, ScreenInv'
  PROVE  IInv'
<1>1. RowsStay
  BY DEF RowsStay, Kept, notes
<1>2. /\ DatabaseOk(db', lost') /\ dropped' \subseteq Ids /\ lost' \in BOOLEAN
      /\ faults' \in 0..MaxFaults
  BY DEF IInv, DatabaseInv, WorldTyped, notes
<1>3. QED BY <1>1, <1>2, OthersKeep DEF notes

\* What the other operations have read is typed as it was.
LEMMA EndKeepsTypes ==
  ASSUME OpsTyped, OpsAreRecords', NEW n \in Operations, Moves(n, "idle", None, None),
         sentAt' = sentAt
  PROVE  OpsTyped'
BY DEF OpsTyped, Runs, In, Sending, Receiving, Moves

\* The preview that follows a message is a row of the conversation.
LEMMA FollowIsTyped ==
  ASSUME NEW c \in ConversationRows, NEW id \in Ids
  PROVE  Follow(c, id) \in ConversationRows
BY DEF Follow, ConversationRows

\* The handler shows what it has stored.
LEMMA ReceivePublishesKeeps ==
  ASSUME IInv, ReceivePublishes
  PROVE  IInv'
<1>1. In("receive", "publish") /\ "receive" \in Operations /\ Receiving \in Messages /\ Kept(Receiving)
  BY DEF ReceivePublishes, ReceiveIn, In, IInv, ScreenInv, OpsTyped, Runs
<1>2. OpsAreRecords' /\ Moves("receive", "idle", None, None)
  BY <1>1, EndMoves DEF ReceivePublishes, IInv, OpsTyped
<1>3. OpsTyped'
  BY <1>1, <1>2, EndKeepsTypes DEF ReceivePublishes, IInv, world
<1>4. UNCHANGED <<world, db, faults, notes>>
  BY DEF ReceivePublishes
<1>5. ScreenTyped'
  <2>1. ram' = [ram EXCEPT ![Receiving] = "delivered"] /\ chat' \in {chat, Follow(chat, Receiving)}
    BY DEF ReceivePublishes
  <2>2. \A m \in Mine : Local(m) # Receiving /\ Local(m) \in Ids
    BY <1>1, MessageStoreAssumption DEF Ids
  <2>3. chat' \in ConversationRows
    BY <1>1, <2>1, FollowIsTyped DEF IInv, ScreenTyped, Ids
  <2>4. QED BY <1>1, <2>1, <2>2, <2>3 DEF IInv, ScreenTyped, LocalsAreOptimistic, Rows
<1>6. SendStays
  BY <1>2 DEF SendStays, Moves
<1>7. ScreenInv'
  <2>1. \A m \in Theirs : ram'[m] # "absent" => ram[m] # "absent" \/ m = Receiving
    BY DEF ReceivePublishes, IInv, ScreenTyped, Ids, Messages
  <2>2. QED
    BY <1>1, <1>2, <1>4, <2>1 DEF IInv, ScreenInv, ScreenIsBacked, Kept, Moves, Runs, In, notes
<1>8. QED BY <1>3, <1>4, <1>5, <1>6, <1>7, ScreenKeeps

\* Rows that leave the screen, and another conversation.
LEMMA ApplyKeeps ==
  ASSUME IInv, UNCHANGED <<world, db, faults, notes>>, NEW n \in {"remove", "sweep"},
         n \in Operations, End(n), NEW ids, NEW c \in ConversationRows, Apply(ids, c)
  PROVE  IInv'
<1>1. OpsAreRecords' /\ Moves(n, "idle", None, None)
  BY EndMoves DEF IInv, OpsTyped
<1>2. OpsTyped'
  BY <1>1, EndKeepsTypes DEF IInv, world
<1>3. ram' \in [Ids -> Rows] /\ \A i \in Ids : ram'[i] \in {"absent", ram[i]}
  BY DEF Apply, IInv, ScreenTyped, Rows
<1>4. ScreenTyped'
  <2>1. chat' \in ConversationRows
    BY DEF Apply, IInv, ScreenTyped
  <2>2. LocalsAreOptimistic(ram)'
    BY <1>3 DEF IInv, ScreenTyped, LocalsAreOptimistic, Ids
  <2>3. QED BY <1>3, <2>1, <2>2 DEF ScreenTyped
<1>5. SendStays
  BY <1>1 DEF SendStays, Moves
<1>6. ScreenInv'
  BY <1>1, <1>3 DEF IInv, ScreenInv, ScreenIsBacked, Kept, Moves, Runs, In, Receiving, notes, Ids, Messages
<1>7. QED BY <1>2, <1>4, <1>5, <1>6, ScreenKeeps

\* A removal reaches the screen.
LEMMA RemoveAppliesKeeps ==
  ASSUME IInv, RemoveApplies
  PROVE  IInv'
<1>1. In("remove", "apply") /\ "remove" \in Operations /\ ops["remove"].val.conv \in ConversationRows
  BY DEF RemoveApplies, In, IInv, OpsTyped, Runs
<1>2. QED BY <1>1, ApplyKeeps DEF RemoveApplies

\* The screen loses what retention has deleted.
LEMMA SweepAppliesKeeps ==
  ASSUME IInv, SweepApplies
  PROVE  IInv'
<1>1. In("sweep", "apply") /\ "sweep" \in Operations /\ ops["sweep"].val.conv \in ConversationRows
  BY DEF SweepApplies, In, IInv, OpsTyped, Runs
<1>2. QED BY <1>1, ApplyKeeps DEF SweepApplies

\* The rows that were read take the place of the screen's.
LEMMA LoadSetsKeeps ==
  ASSUME IInv, LoadSets
  PROVE  IInv'
<1>1. /\ "load" \in Operations /\ ram' = ops["load"].val /\ ram' \in [Ids -> Rows]
      /\ LocalsAreOptimistic(ram') /\ \A m \in Theirs : ram'[m] # "absent" => Kept(m)
  BY DEF LoadSets, In, IInv, OpsTyped, Runs, ScreenInv
<1>2. OpsAreRecords' /\ Moves("load", "idle", None, None)
  BY <1>1, EndMoves DEF LoadSets, IInv, OpsTyped
<1>3. UNCHANGED <<world, db, chat, faults, notes>>
  BY DEF LoadSets
<1>4. OpsTyped'
  BY <1>1, <1>2, <1>3, EndKeepsTypes DEF IInv, world
<1>5. ScreenTyped' /\ SendStays
  BY <1>1, <1>2, <1>3 DEF IInv, ScreenTyped, LocalsAreOptimistic, SendStays, Moves
<1>6. ScreenInv'
  BY <1>1, <1>2, <1>3 DEF IInv, ScreenInv, ScreenIsBacked, Kept, Moves, Runs, In, Receiving, notes
<1>7. QED BY <1>3, <1>4, <1>5, <1>6, ScreenKeeps

\* Only the conversation on the screen changes, at the end of an operation.
LEMMA ChatKeeps ==
  ASSUME IInv, UNCHANGED <<world, db, ram, faults, notes>>, NEW n \in {"sync", "hide"},
         n \in Operations, End(n), chat' \in ConversationRows
  PROVE  IInv'
<1>1. OpsAreRecords' /\ Moves(n, "idle", None, None)
  BY EndMoves DEF IInv, OpsTyped
<1>2. OpsTyped'
  BY <1>1, EndKeepsTypes DEF IInv, world
<1>3. ScreenTyped' /\ SendStays
  BY <1>1 DEF IInv, ScreenTyped, LocalsAreOptimistic, SendStays, Moves
<1>4. ScreenInv'
  BY <1>1 DEF IInv, ScreenInv, ScreenIsBacked, Kept, Moves, Runs, In, Receiving, notes
<1>5. QED BY <1>2, <1>3, <1>4, ScreenKeeps

\* The sync shows the conversation it has read.
LEMMA SyncSetsKeeps ==
  ASSUME IInv, SyncSets
  PROVE  IInv'
BY ChatKeeps DEF SyncSets, In, IInv, OpsTyped, Runs

\* The hidden conversation leaves the screen.
LEMMA HideLeavesKeeps ==
  ASSUME IInv, HideLeaves
  PROVE  IInv'
BY ChatKeeps DEF HideLeaves, In, ConversationRows
-----------------------------------------------------------------------------
(* Steps that change the database *)

\* What is about to be shown stays what it is.
ShowingStays ==
  /\ Runs("load")' => Runs("load") /\ ops'["load"].val = ops["load"].val
  /\ In("receive", "publish")' => In("receive", "publish") /\ Receiving' = Receiving

\* An operation that is about to show something still may.
LEMMA ShowingKeeps ==
  ASSUME IInv, ram' = ram, RowsStay, ShowingStays
  PROVE  ScreenInv'
<1>1. \A m \in Theirs : Kept(m) => Kept(m)'
  BY DEF RowsStay, Messages
<1>2. In("receive", "publish")' => Kept(Receiving)'
  BY DEF IInv, ScreenInv, ShowingStays, RowsStay, OpsTyped, Runs, In, Receiving
<1>3. Runs("load")' => \A m \in Theirs : ops'["load"].val[m] # "absent" => Kept(m)'
  BY <1>1 DEF IInv, ScreenInv, ShowingStays
<1>4. ScreenIsBacked'
  BY <1>1 DEF IInv, ScreenInv, ScreenIsBacked, Kept
<1>5. QED BY <1>2, <1>3, <1>4 DEF ScreenInv

\* A conversation is written, on the screen too, or not.
LEMMA ConversationKeeps ==
  ASSUME IInv, UNCHANGED <<world, ram, faults, dropped, cut>>,
         UNCHANGED <<db, lost>> \/ (\E c \in ConversationRows : PutConversation(c)),
         chat' \in ConversationRows, OpsTyped', SendStays, ShowingStays
  PROVE  IInv'
<1>1. DatabaseOk(db', lost') /\ lost' \in BOOLEAN /\ db'.rows = db.rows
  <2>1. CASE UNCHANGED <<db, lost>>
    BY <2>1 DEF IInv, DatabaseInv, WorldTyped
  <2>2. CASE \E c \in ConversationRows : PutConversation(c)
    BY <2>2, ConversationIsOk DEF IInv
  <2>3. QED BY <2>1, <2>2
<1>2. RowsStay
  BY <1>1 DEF RowsStay, Kept
<1>3. ScreenTyped' /\ ScreenInv'
  BY <1>2, ShowingKeeps DEF IInv, ScreenTyped, LocalsAreOptimistic
<1>4. faults' \in 0..MaxFaults /\ dropped' \subseteq Ids
  BY DEF IInv, WorldTyped
<1>5. QED BY <1>1, <1>2, <1>3, <1>4, OthersKeep

\* The handler finds the conversation, or creates it.
LEMMA ReceiveFindsConversationKeeps ==
  ASSUME IInv, ReceiveFindsConversation
  PROVE  IInv'
<1>1. In("receive", "conversation") /\ "receive" \in Operations /\ Receiving \in Messages
  BY DEF ReceiveFindsConversation, ReceiveIn, In, IInv, OpsTyped, Runs
<1>2. chat \in ConversationRows /\ db.conv \in ConversationRows /\ NewConversation(Receiving) \in ConversationRows
  BY <1>1 DEF IInv, ScreenTyped, DatabaseInv, DatabaseOk, Databases, ConversationRows, NewConversation, Ids
<1>3. /\ chat' \in ConversationRows
      /\ UNCHANGED <<db, lost>> \/ (\E c \in ConversationRows : PutConversation(c))
      /\ End("receive") \/ Go("receive", "persist")
  BY <1>2 DEF ReceiveFindsConversation
<1>4. /\ OpsAreRecords'
      /\ \/ Moves("receive", "idle", None, None)
         \/ Moves("receive", "persist", ops["receive"].msg, ops["receive"].val)
  BY <1>1, <1>3, EndMoves, GoMoves DEF IInv, OpsTyped
<1>5. UNCHANGED <<world, ram, faults, dropped, cut>>
  BY DEF ReceiveFindsConversation
<1>6. OpsTyped'
  BY <1>1, <1>4, <1>5 DEF IInv, OpsTyped, Runs, In, Sending, Receiving, Moves, world
<1>7. SendStays /\ ShowingStays
  BY <1>4 DEF SendStays, ShowingStays, Moves, Runs, In
<1>8. QED BY <1>3, <1>5, <1>6, <1>7, ConversationKeeps

\* The sync writes back a row that may be old.
LEMMA SyncWritesKeeps ==
  ASSUME IInv, SyncWrites
  PROVE  IInv'
<1>1. In("sync", "network") /\ "sync" \in Operations /\ ops["sync"].val \in ConversationRows
  BY DEF SyncWrites, In, IInv, OpsTyped, Runs
<1>2. OpsAreRecords' /\ Moves("sync", "list", ops["sync"].msg, ops["sync"].val)
  BY <1>1, GoMoves DEF SyncWrites, IInv, OpsTyped
<1>3. UNCHANGED <<db, lost>> \/ (\E c \in ConversationRows : PutConversation(c))
  BY <1>1 DEF SyncWrites, NewConversation, ConversationRows
<1>4. UNCHANGED <<world, ram, chat, faults, dropped, cut>> /\ chat' \in ConversationRows
  BY DEF SyncWrites, IInv, ScreenTyped
<1>5. OpsTyped'
  BY <1>1, <1>2, <1>4 DEF IInv, OpsTyped, Runs, In, Sending, Receiving, Moves, world
<1>6. SendStays /\ ShowingStays
  BY <1>2 DEF SendStays, ShowingStays, Moves, Runs, In, Receiving
<1>7. QED BY <1>3, <1>4, <1>5, <1>6, ConversationKeeps

\* So does an edit.
LEMMA EditWritesKeeps ==
  ASSUME IInv, EditWrites
  PROVE  IInv'
<1>1. In("edit", "write") /\ "edit" \in Operations /\ ops["edit"].val \in ConversationRows
  BY DEF EditWrites, In, IInv, OpsTyped, Runs
<1>2. OpsAreRecords' /\ Moves("edit", "idle", None, None)
  BY <1>1, EndMoves DEF EditWrites, IInv, OpsTyped
<1>3. (\E c \in ConversationRows : PutConversation(c)) /\ chat' \in ConversationRows
  BY <1>1 DEF EditWrites, IInv, ScreenTyped
<1>4. UNCHANGED <<world, ram, faults, dropped, cut>>
  BY DEF EditWrites
<1>5. OpsTyped'
  BY <1>1, <1>2, <1>4, EndKeepsTypes DEF IInv, world
<1>6. SendStays /\ ShowingStays
  BY <1>2 DEF SendStays, ShowingStays, Moves, Runs, In, Receiving
<1>7. QED BY <1>3, <1>4, <1>5, <1>6, ConversationKeeps

\* The new conversation is stored.
LEMMA CreateStoresKeeps ==
  ASSUME IInv, CreateStores
  PROVE  IInv'
<1>1. "create" \in Operations
  BY DEF CreateStores, In
<1>2. OpsAreRecords' /\ Moves("create", "idle", None, None)
  BY <1>1, EndMoves DEF CreateStores, IInv, OpsTyped
<1>3. UNCHANGED <<world, ram, faults, dropped, cut>> /\ chat' = NewConversation(None)
  BY DEF CreateStores
<1>4. OpsTyped'
  BY <1>1, <1>2, <1>3, EndKeepsTypes DEF IInv, world
<1>5. SendStays /\ ShowingStays
  BY <1>2 DEF SendStays, ShowingStays, Moves, Runs, In, Receiving
<1>6. /\ db' \in Databases /\ db'.rows = db.rows /\ db'.att = db.att
      /\ db'.conv = [last |-> None]
  BY DEF CreateStores, NewConversation, IInv, DatabaseInv, DatabaseOk, Databases, ConversationRows
<1>7. lost' \in BOOLEAN /\ (~lost' => ~lost /\ Stored(db) = {})
  BY DEF CreateStores, IInv, WorldTyped
<1>8. DatabaseOk(db', lost')
  <2>1. Stored(db') = Stored(db)
    BY <1>6 DEF Stored
  <2>2. ~lost' => IsNewest(Stored(db'), db'.conv.last)
    BY <1>6, <1>7, <2>1 DEF IsNewest
  <2>3. QED BY <1>6, <2>1, <2>2 DEF IInv, DatabaseInv, DatabaseOk
<1>9. RowsStay
  BY <1>3, <1>6 DEF RowsStay, Kept
<1>10. ScreenTyped' /\ ScreenInv'
  BY <1>3, <1>5, <1>9, ShowingKeeps DEF IInv, ScreenTyped, LocalsAreOptimistic, NewConversation, ConversationRows
<1>11. faults' \in 0..MaxFaults /\ dropped' \subseteq Ids
  BY <1>3 DEF IInv, WorldTyped
<1>12. QED BY <1>3, <1>4, <1>5, <1>7, <1>8, <1>9, <1>10, <1>11, OthersKeep

\* A conversation is hidden: its tombstone is stored.
LEMMA HideBeginsKeeps ==
  ASSUME IInv, HideBegins
  PROVE  IInv'
<1>1. OpsAreRecords' /\ Moves("hide", "delete", None, db.conv)
  BY BeginMoves DEF HideBegins, IInv, OpsTyped
<1>2. UNCHANGED <<world, ram, chat, faults, notes>>
  BY DEF HideBegins
<1>3. OpsTyped'
  BY <1>1, <1>2 DEF IInv, OpsTyped, Runs, In, Sending, Receiving, Moves, world
<1>4. SendStays /\ ShowingStays
  BY <1>1 DEF SendStays, ShowingStays, Moves, Runs, In, Receiving
<1>5. db' \in Databases /\ db'.rows = db.rows /\ db'.att = db.att /\ db'.conv = db.conv
  BY DEF HideBegins, IInv, DatabaseInv, DatabaseOk, Databases
<1>6. DatabaseOk(db', lost') /\ lost' \in BOOLEAN
  <2>1. lost' = lost /\ lost \in BOOLEAN
    BY <1>2 DEF notes, IInv, WorldTyped
  <2>2. \A m \in Theirs : db'.att[m] = "none" \/ db.rows[m] # "absent"
    BY <1>5 DEF IInv, DatabaseInv, DatabaseOk
  <2>3. QED BY <1>5, <2>1, <2>2, AttachmentsAreOk DEF IInv, DatabaseInv
<1>7. RowsStay
  BY <1>2, <1>5 DEF RowsStay, Kept, notes
<1>8. ScreenTyped' /\ ScreenInv'
  BY <1>2, <1>4, <1>7, ShowingKeeps DEF IInv, ScreenTyped, LocalsAreOptimistic
<1>9. faults' \in 0..MaxFaults /\ dropped' \subseteq Ids
  BY <1>2 DEF IInv, WorldTyped, notes
<1>10. QED BY <1>2, <1>3, <1>4, <1>6, <1>7, <1>8, <1>9, OthersKeep DEF notes

\* The conversation is deleted with its rows and attachments.
LEMMA HideDeletesKeeps ==
  ASSUME IInv, HideDeletes
  PROVE  IInv'
<1>1. In("hide", "delete") /\ "hide" \in Operations
  BY DEF HideDeletes, In
<1>2. OpsAreRecords' /\ (\/ Moves("hide", "idle", None, None)
                         \/ Moves("hide", "leave", ops["hide"].msg, ops["hide"].val))
  <2>1. End("hide") \/ Go("hide", "leave")
    BY DEF HideDeletes
  <2>2. QED BY <1>1, <2>1, EndMoves, GoMoves DEF IInv, OpsTyped
<1>3. UNCHANGED <<world, ram, chat, faults, cut, lost>>
  BY DEF HideDeletes
<1>4. OpsTyped'
  BY <1>2, <1>3 DEF IInv, OpsTyped, Runs, In, Sending, Receiving, Moves, world
<1>5. SendStays /\ ShowingStays
  BY <1>2 DEF SendStays, ShowingStays, Moves, Runs, In, Receiving
<1>6. /\ DatabaseOk(db', lost') /\ RowsStay /\ dropped' \subseteq Ids
  <2>1. CASE UNCHANGED <<db, dropped>>
    BY <1>3, <2>1 DEF IInv, DatabaseInv, RowsStay, Kept, WorldTyped
  <2>2. CASE /\ db' = [db EXCEPT !.conv = None, !.rows = NoRows, !.att = NoAttachments]
             /\ dropped' = dropped \cup Stored(db)
    <3>1. db.conv \in ConversationRows /\ NoRows \in [Ids -> Rows] /\ NoAttachments \in [Ids -> Attachments]
      BY DEF IInv, DatabaseInv, DatabaseOk, Databases, NoRows, NoAttachments, Rows, Attachments
    <3>2. /\ db' \in Databases /\ db'.conv = None
          /\ \A i \in Ids : db'.rows[i] = "absent" /\ db'.att[i] = "none"
      BY <2>2, <3>1 DEF IInv, DatabaseInv, DatabaseOk, Databases, ConversationRows, NoRows, NoAttachments
    <3>3. DatabaseOk(db', lost')
      BY <3>2 DEF DatabaseOk, LocalsAreOptimistic, Stored, Ids, Messages
    <3>4. RowsStay
      BY <2>2, <3>2 DEF RowsStay, Kept, Stored, Ids
    <3>5. QED BY <2>2, <3>3, <3>4 DEF IInv, WorldTyped, Stored
  <2>3. QED BY <2>1, <2>2 DEF HideDeletes
<1>7. ScreenTyped' /\ ScreenInv'
  BY <1>3, <1>5, <1>6, ShowingKeeps DEF IInv, ScreenTyped, LocalsAreOptimistic
<1>8. faults' \in 0..MaxFaults /\ lost' \in BOOLEAN
  BY <1>3 DEF IInv, WorldTyped
<1>9. QED BY <1>3, <1>4, <1>5, <1>6, <1>7, <1>8, OthersKeep

\* Rows are deleted on purpose.
LEMMA DeletionStays ==
  ASSUME IInv, NEW ids \in SUBSET Ids, db' = DeleteMessages(db, ids),
         dropped \cup (ids \cap Stored(db)) \subseteq dropped', dropped' \subseteq Ids, lost' = lost
  PROVE  DatabaseOk(db', lost') /\ RowsStay
<1>1. lost' \in BOOLEAN /\ DatabaseOk(db', lost')
  BY DeleteIsOk DEF IInv, DatabaseInv, WorldTyped
<1>2. \A i \in Ids : db'.rows[i] = IF i \in ids THEN "absent" ELSE db.rows[i]
  BY DeleteDeletes DEF IInv, DatabaseInv, DatabaseOk
<1>3. RowsStay
  BY <1>2 DEF RowsStay, Kept, Stored, Ids
<1>4. QED BY <1>1, <1>3

\* A message is deleted, in the database first.
LEMMA RemoveBeginsKeeps ==
  ASSUME IInv, NEW i \in Ids, RemoveBegins(i)
  PROVE  IInv'
<1> DEFINE left == DeleteMessages(db, {i})
           result == [ids |-> {i}, conv |-> left.conv]
<1>1. /\ db' = left /\ Begin("remove", "apply", None, result)
      /\ dropped' = dropped \cup {i} /\ UNCHANGED <<world, ram, chat, faults, cut, lost>>
  BY DEF RemoveBegins
<1>2. DatabaseOk(left, lost)
  BY DeleteIsOk DEF IInv, DatabaseInv, WorldTyped
<1>3. result.ids \subseteq Ids /\ result.conv \in ConversationRows
  BY <1>2 DEF DatabaseOk, Databases
<1>4. DatabaseOk(db', lost') /\ RowsStay /\ dropped' \subseteq Ids
  BY <1>1, DeletionStays DEF IInv, WorldTyped
<1> HIDE DEF result
<1>5. OpsAreRecords' /\ Moves("remove", "apply", None, result)
  BY <1>1, BeginMoves DEF IInv, OpsTyped
<1>6. OpsTyped'
  BY <1>1, <1>3, <1>5 DEF IInv, OpsTyped, Runs, In, Sending, Receiving, Moves, world
<1>7. SendStays /\ ShowingStays
  BY <1>5 DEF SendStays, ShowingStays, Moves, Runs, In, Receiving
<1>8. ScreenTyped' /\ ScreenInv'
  BY <1>1, <1>4, <1>7, ShowingKeeps DEF IInv, ScreenTyped, LocalsAreOptimistic
<1>9. faults' \in 0..MaxFaults /\ lost' \in BOOLEAN
  BY <1>1 DEF IInv, WorldTyped
<1>10. QED BY <1>1, <1>4, <1>6, <1>7, <1>8, <1>9, OthersKeep

\* Retention deletes what is older than the cutoff.
LEMMA SweepDeletesKeeps ==
  ASSUME IInv, SweepDeletes
  PROVE  IInv'
<1> DEFINE old == ops["sweep"].val
           gone == old \cap Stored(db)
           left == DeleteMessages(db, old)
           result == [ids |-> gone, conv |-> IF gone = {} THEN None ELSE left.conv]
<1>1. /\ db' = left /\ dropped' = dropped \cup gone /\ UNCHANGED <<world, ram, chat, faults, cut, lost>>
      /\ "sweep" \in Operations /\ old \subseteq Ids
  BY DEF SweepDeletes, In, IInv, OpsTyped
<1>2. DatabaseOk(left, lost)
  BY <1>1, DeleteIsOk DEF IInv, DatabaseInv, WorldTyped
<1>3. result.ids \subseteq Ids /\ result.conv \in ConversationRows
  BY <1>1, <1>2 DEF DatabaseOk, Databases, ConversationRows
<1>4. DatabaseOk(db', lost') /\ RowsStay /\ dropped' \subseteq Ids
  BY <1>1, DeletionStays DEF IInv, WorldTyped
<1>5. ops' = [ops EXCEPT !["sweep"].at = "orphans", !["sweep"].val = result]
  BY DEF SweepDeletes
<1> HIDE DEF result
<1>6. OpsAreRecords' /\ Moves("sweep", "orphans", ops["sweep"].msg, result)
  BY <1>1, <1>5, FieldsMove DEF IInv, OpsTyped
<1>7. OpsTyped'
  BY <1>1, <1>3, <1>6 DEF IInv, OpsTyped, Runs, In, Sending, Receiving, Moves, world
<1>8. SendStays /\ ShowingStays
  BY <1>6 DEF SendStays, ShowingStays, Moves, Runs, In, Receiving
<1>9. ScreenTyped' /\ ScreenInv'
  BY <1>1, <1>4, <1>8, ShowingKeeps DEF IInv, ScreenTyped, LocalsAreOptimistic
<1>10. faults' \in 0..MaxFaults /\ lost' \in BOOLEAN
  BY <1>1 DEF IInv, WorldTyped
<1>11. QED BY <1>1, <1>4, <1>7, <1>8, <1>9, <1>10, OthersKeep

\* Only attachments change, and none is left without its message.
LEMMA AttachmentsKeep ==
  ASSUME IInv, UNCHANGED <<world, ram, chat, faults, notes>>, NEW att \in [Ids -> Attachments],
         db' = [db EXCEPT !.att = att],
         \A m \in Theirs : att[m] = "none" \/ db.rows[m] # "absent",
         OpsTyped', SendStays, ShowingStays
  PROVE  IInv'
<1>1. db' \in Databases /\ db'.rows = db.rows /\ db'.att = att /\ db'.conv = db.conv
  BY DEF IInv, DatabaseInv, DatabaseOk, Databases
<1>2. lost' = lost /\ lost \in BOOLEAN /\ dropped' \subseteq Ids /\ faults' \in 0..MaxFaults
  BY DEF notes, IInv, WorldTyped
<1>3. DatabaseOk(db', lost')
  BY <1>1, <1>2, AttachmentsAreOk DEF IInv, DatabaseInv
<1>4. RowsStay
  BY <1>1 DEF RowsStay, Kept, notes
<1>5. ScreenTyped' /\ ScreenInv'
  BY <1>4, ShowingKeeps DEF IInv, ScreenTyped, LocalsAreOptimistic
<1>6. QED BY <1>2, <1>3, <1>4, <1>5, OthersKeep DEF notes

\* Retention deletes attachments without a message.
LEMMA SweepDropsOrphansKeeps ==
  ASSUME IInv, SweepDropsOrphans
  PROVE  IInv'
<1> DEFINE att == [i \in Ids |-> IF db.rows[i] = "absent" THEN "none" ELSE db.att[i]]
<1>1. In("sweep", "orphans") /\ "sweep" \in Operations /\ UNCHANGED <<world, ram, chat, faults, notes>>
  BY DEF SweepDropsOrphans, In
<1>2. OpsAreRecords' /\ Moves("sweep", "apply", ops["sweep"].msg, ops["sweep"].val)
  BY <1>1, GoMoves DEF SweepDropsOrphans, IInv, OpsTyped
<1>3. att \in [Ids -> Attachments] /\ db' = [db EXCEPT !.att = att]
  BY DEF SweepDropsOrphans, DropOrphans, IInv, DatabaseInv, DatabaseOk, Databases, Attachments
<1>4. \A m \in Theirs : att[m] = "none" \/ db.rows[m] # "absent"
  BY DEF Ids, Messages
<1> HIDE DEF att
<1>5. OpsTyped'
  BY <1>1, <1>2 DEF IInv, OpsTyped, Runs, In, Sending, Receiving, Moves, world
<1>6. SendStays /\ ShowingStays
  BY <1>2 DEF SendStays, ShowingStays, Moves, Runs, In, Receiving
<1>7. QED BY <1>1, <1>3, <1>4, <1>5, <1>6, AttachmentsKeep

\* A download that ends leaves nothing to show.
LEMMA DownloadEnds ==
  ASSUME IInv, "download" \in Operations, End("download"), UNCHANGED world
  PROVE  OpsTyped' /\ SendStays /\ ShowingStays
<1>1. OpsAreRecords' /\ Moves("download", "idle", None, None)
  BY EndMoves DEF IInv, OpsTyped
<1>2. OpsTyped'
  BY <1>1, EndKeepsTypes DEF IInv, world
<1>3. QED BY <1>1, <1>2 DEF SendStays, ShowingStays, Moves, Runs, In, Receiving

\* A download stores its attachment if the message is still there.
LEMMA DownloadStoresKeeps ==
  ASSUME IInv, DownloadStores
  PROVE  IInv'
<1> DEFINE m == ops["download"].msg
<1>1. /\ "download" \in Operations /\ m \in Theirs /\ m \in Ids /\ db.att[m] # "none"
      /\ UNCHANGED <<world, ram, chat, faults, notes>>
  BY DEF DownloadStores, In, IInv, OpsTyped, Runs, Ids, Messages
<1>2. PICK victims \in SUBSET (Downloaded \ {m}) :
        db' = [db EXCEPT !.att = [i \in Ids |->
                 IF i = m THEN "cached" ELSE IF i \in victims THEN "metadata" ELSE @[i]]]
  BY DEF DownloadStores
<1> DEFINE att == [i \in Ids |->
             IF i = m THEN "cached" ELSE IF i \in victims THEN "metadata" ELSE db.att[i]]
<1>3. att \in [Ids -> Attachments] /\ db' = [db EXCEPT !.att = att]
  BY <1>2 DEF IInv, DatabaseInv, DatabaseOk, Databases, Attachments
<1>4. \A k \in Theirs : att[k] = "none" \/ db.rows[k] # "absent"
  BY <1>1 DEF Downloaded, IInv, DatabaseInv, DatabaseOk, Ids, Messages
<1> HIDE DEF att
<1>5. QED BY <1>1, <1>3, <1>4, DownloadEnds, AttachmentsKeep DEF DownloadStores

\* A download fails.
LEMMA DownloadFailsKeeps ==
  ASSUME IInv, DownloadFails
  PROVE  IInv'
<1> DEFINE m == ops["download"].msg
           att == [db.att EXCEPT ![m] = IF @ \in {"none", "blocked"} THEN @ ELSE "failed"]
<1>1. /\ "download" \in Operations /\ m \in Theirs /\ m \in Ids
      /\ UNCHANGED <<world, ram, chat, faults, notes>>
  BY DEF DownloadFails, In, IInv, OpsTyped, Runs, Ids, Messages
<1>2. att \in [Ids -> Attachments] /\ db' = [db EXCEPT !.att = att]
  BY <1>1 DEF DownloadFails, IInv, DatabaseInv, DatabaseOk, Databases, Attachments
<1>3. \A k \in Theirs : att[k] = "none" \/ db.rows[k] # "absent"
  BY <1>1 DEF IInv, DatabaseInv, DatabaseOk, Databases, Ids, Messages
<1> HIDE DEF att
<1>4. QED BY <1>1, <1>2, <1>3, DownloadEnds, AttachmentsKeep DEF DownloadFails

\* A row that another operation has stored stays; its attachment is refreshed only.
LEMMA ReceivePersistsKeeps ==
  ASSUME IInv, ReceivePersists
  PROVE  IInv'
<1> DEFINE m == Receiving
           repair == ops["receive"].val
           known == ~repair /\ (ram[m] # "absent" \/ db.rows[m] # "absent")
           status == IF repair /\ db.rows[m] # "absent" THEN db.rows[m] ELSE "delivered"
           put == PutMessage(db, m, status)
<1>1. /\ In("receive", "persist") /\ "receive" \in Operations /\ m \in Messages /\ m \in Ids
      /\ UNCHANGED <<world, ram, chat, faults, notes>>
  BY DEF ReceivePersists, ReceiveIn, In, IInv, OpsTyped, Runs, Ids
<1>2. PICK descriptor \in {"metadata", "blocked"} :
        LET attached(d) == IF m \notin image \/ m \in Mine \/ d.rows[m] = "absent" THEN d
                           ELSE [d EXCEPT !.att[m] = IF @ = "none" \/ descriptor = "blocked"
                                                     THEN descriptor ELSE @]
        IN /\ db' = IF ~Retained(m) THEN db
                    ELSE IF known THEN attached(db)
                    ELSE IF repair THEN put ELSE attached(put)
           /\ IF known \/ ~Retained(m) THEN End("receive") ELSE Go("receive", "publish")
  BY DEF ReceivePersists
<1> DEFINE attached(d) == IF m \notin image \/ m \in Mine \/ d.rows[m] = "absent" THEN d
                          ELSE [d EXCEPT !.att[m] = IF @ = "none" \/ descriptor = "blocked"
                                                    THEN descriptor ELSE @]
<1>3. \A d : DatabaseOk(d, lost) => DatabaseOk(attached(d), lost) /\ attached(d).rows = d.rows
  <2> TAKE d
  <2> HAVE DatabaseOk(d, lost)
  <2>1. CASE attached(d) = d
    BY <2>1
  <2>2. CASE m \in Theirs /\ d.rows[m] # "absent"
    <3> DEFINE a == [d.att EXCEPT ![m] = IF @ = "none" \/ descriptor = "blocked"
                                         THEN descriptor ELSE @]
               p == [d EXCEPT !.att = a]
    <3>1. a \in [Ids -> Attachments] /\ \A i \in Ids : i # m => a[i] = d.att[i]
      BY <1>1 DEF DatabaseOk, Databases, Attachments
    <3>2. attached(d) = d \/ attached(d) = p
      OBVIOUS
    <3> HIDE DEF a
    <3>3. p \in Databases /\ p.rows = d.rows /\ p.conv = d.conv /\ p.att = a
      BY <3>1 DEF DatabaseOk, Databases
    <3>4. \A k \in Theirs : a[k] = "none" \/ d.rows[k] # "absent"
      BY <2>2, <3>1 DEF DatabaseOk, Ids, Messages
    <3> HIDE DEF p
    <3>5. DatabaseOk(p, lost)
      BY <3>3, <3>4, AttachmentsAreOk DEF IInv, WorldTyped
    <3>6. QED BY <3>2, <3>3, <3>5
  <2>3. QED BY <1>1, <2>1, <2>2 DEF Messages
<1>4. status \in Rows \ {"absent"}
  BY <1>1 DEF IInv, DatabaseInv, DatabaseOk, Databases, Rows
<1> HIDE DEF status
<1>5. /\ DatabaseOk(put, lost)
      /\ \A i \in Ids : put.rows[i] = IF Retained(m) /\ i = m THEN status ELSE db.rows[i]
  <2>1. DatabaseOk(db, lost) /\ lost \in BOOLEAN /\ WorldTyped /\ StampsAreUnique
    BY DEF IInv, DatabaseInv, WorldTyped
  <2>2. DatabaseOk(put, lost)
    BY <1>1, <1>4, <2>1, PutIsOk
  <2>3. db \in Databases /\ status \in Rows
    BY <1>4, <2>1 DEF DatabaseOk
  <2>4. QED BY <1>1, <2>2, <2>3, PutPuts
<1> HIDE DEF attached, put, known, repair
<1>6. /\ db' = db \/ db' = attached(db) \/ (Retained(m) /\ (db' = put \/ db' = attached(put)))
      /\ End("receive") \/ (/\ Go("receive", "publish") /\ Retained(m)
                            /\ db' = put \/ db' = attached(put))
  BY <1>2 DEF attached
<1> HIDE DEF m
<1>7. /\ DatabaseOk(db', lost)
      /\ \A i \in Ids : db'.rows[i] = db.rows[i] \/ (i = m /\ db'.rows[i] # "absent")
      /\ End("receive") \/ (Go("receive", "publish") /\ db'.rows[m] # "absent")
  <2>1. DatabaseOk(db, lost)
    BY DEF IInv, DatabaseInv
  <2>2. attached(db).rows = db.rows /\ attached(put).rows = put.rows
        /\ DatabaseOk(attached(db), lost) /\ DatabaseOk(attached(put), lost)
    BY <1>3, <1>5, <2>1
  <2>3. QED BY <1>1, <1>4, <1>5, <1>6, <2>1, <2>2
<1>8. lost' = lost /\ dropped' = dropped /\ lost' \in BOOLEAN /\ dropped' \subseteq Ids
      /\ faults' \in 0..MaxFaults
  BY <1>1 DEF notes, IInv, WorldTyped
<1>9. RowsStay
  BY <1>1, <1>7, <1>8, MessageStoreAssumption DEF RowsStay, Kept, Ids
<1>10. /\ OpsAreRecords'
       /\ \/ Moves("receive", "idle", None, None)
          \/ Moves("receive", "publish", ops["receive"].msg, ops["receive"].val) /\ db'.rows[m] # "absent"
  BY <1>1, <1>7, EndMoves, GoMoves DEF IInv, OpsTyped
<1>11. OpsTyped'
  BY <1>1, <1>10 DEF IInv, OpsTyped, Runs, In, Sending, Receiving, Moves, world
<1>12. SendStays
  BY <1>10 DEF SendStays, Moves
<1>13. ScreenTyped'
  BY <1>1 DEF IInv, ScreenTyped, LocalsAreOptimistic
<1>14. ScreenInv'
  <2>1. In("receive", "publish")' => Kept(Receiving)'
    BY <1>10 DEF Moves, In, Receiving, Kept, m
  <2>2. \A k \in Theirs : Kept(k) => Kept(k)'
    BY <1>9 DEF RowsStay, Messages
  <2>3. Runs("load")' => Runs("load") /\ ops'["load"].val = ops["load"].val
    BY <1>10 DEF Moves, Runs
  <2>4. QED BY <1>1, <2>1, <2>2, <2>3 DEF IInv, ScreenInv, ScreenIsBacked, Kept
<1>15. QED BY <1>1, <1>7, <1>8, <1>9, <1>11, <1>12, <1>13, <1>14, OthersKeep DEF notes
-----------------------------------------------------------------------------
(* Time and reloads *)

\* What expired stays expired.
LEMMA TimePassesKeeps ==
  ASSUME IInv, TimePasses
  PROVE  IInv'
<1>1. /\ UNCHANGED <<clock, sentAt, kinds, image, group, db, ram, chat, ops, faults, notes>>
      /\ cutoff < clock /\ cutoff' = cutoff + 1
  BY DEF TimePasses
<1>2. WorldTyped' /\ StampsAreUnique'
  BY <1>1 DEF IInv, WorldTyped, StampsAreUnique, Stamped, notes
<1>3. ScreenTyped' /\ OpsTyped' /\ ScreenInv'
  <2>1. ScreenTyped'
    BY <1>1 DEF IInv, ScreenTyped, LocalsAreOptimistic
  <2>2. \A n : Runs(n)' = Runs(n) /\ \A at : In(n, at)' = In(n, at)
    BY <1>1 DEF Runs, In
  <2>3. OpsTyped'
    BY <1>1, <2>2 DEF IInv, OpsTyped, OpsAreRecords, Sending, Receiving
  <2>4. ScreenInv'
    BY <1>1, <2>2 DEF IInv, ScreenInv, ScreenIsBacked, Kept, Receiving, notes
  <2>5. QED BY <2>1, <2>3, <2>4
<1>4. DatabaseInv'
  BY <1>1, DatabaseStays DEF IInv, DatabaseInv, notes
<1>5. SendInv'
  <2>1. cutoff' \in Nat /\ cutoff <= cutoff' /\ cut' = cut /\ SendStays /\ RowsStay
    BY <1>1 DEF IInv, WorldTyped, SendStays, RowsStay, Kept, notes
  <2>2. QED BY <1>1, <2>1, SendInvStays DEF IInv
<1>6. QED BY <1>2, <1>3, <1>4, <1>5 DEF IInv

\* A reload forgets the screen and every operation.
LEMMA ReloadKeeps ==
  ASSUME IInv, Reload
  PROVE  IInv'
<1>1. /\ UNCHANGED <<world, db, dropped, lost>> /\ ram' = NoRows /\ chat' = db.conv
      /\ ops' = [n \in Operations |-> Idle] /\ faults' \in 0..MaxFaults
  BY MessageStoreAssumption DEF Reload, Fault, IInv, WorldTyped
<1>2. cut' \subseteq Mine /\ cut \subseteq cut' /\ (Runs("send") => Sending \in cut')
  BY DEF Reload, Running, Runs, IInv, OpsTyped, WorldTyped
<1>3. OpsAreRecords' /\ \A n : ~Runs(n)' /\ (\A at : In(n, at)' => at = "idle")
  BY <1>1 DEF OpsAreRecords, Runs, In, Idle
<1>4. WorldTyped' /\ StampsAreUnique'
  BY <1>1, <1>2, WorldStays DEF IInv, WorldTyped
<1>5. ScreenTyped'
  BY <1>1 DEF ScreenTyped, LocalsAreOptimistic, NoRows, Rows, Ids, IInv, DatabaseInv, DatabaseOk,
     Databases
<1>6. OpsTyped' /\ ScreenInv'
  BY <1>1, <1>3 DEF OpsTyped, ScreenInv, ScreenIsBacked, NoRows, Ids, Messages
<1>7. DatabaseInv'
  BY <1>1, DatabaseStays DEF IInv, DatabaseInv, world
<1>8. SendInv'
  BY <1>1, <1>2, <1>3 DEF IInv, SendInv, Settled, Kept, Retained, world
<1>9. QED BY <1>4, <1>5, <1>6, <1>7, <1>8 DEF IInv
-----------------------------------------------------------------------------
(* Messages come into being *)

\* There are finitely many rows.
LEMMA IdsAreFinite == IsFiniteSet(Ids)
<1> DEFINE locals == {Local(m) : m \in Mine}
           f == [m \in Mine |-> Local(m)]
<1>1. IsFiniteSet(Mine) /\ IsFiniteSet(Messages)
  BY FS_Subset, MessageStoreAssumption DEF Messages
<1>2. f \in Surjection(Mine, locals)
  BY DEF Surjection
<1>3. IsFiniteSet(locals)
  BY <1>1, <1>2, FS_Surjection
<1>4. QED BY <1>1, <1>3, FS_Union DEF Ids

\* A tick gives one row its stamp, the newest.
LEMMA TickStamps ==
  ASSUME WorldTyped, StampsAreUnique, NEW id \in Ids, sentAt[id] = 0, Tick(id),
         UNCHANGED <<faults, notes>>
  PROVE  /\ WorldTyped' /\ StampsAreUnique' /\ Stamped' = Stamped \cup {id} /\ id \notin Stamped
         /\ sentAt'[id] > 0 /\ \A i \in Ids : i # id => sentAt'[i] = sentAt[i]
<1>1. /\ clock \in Nat /\ clock' = clock + 1 /\ sentAt' \in [Ids -> 0..clock'] /\ sentAt'[id] = clock'
      /\ \A i \in Ids : i # id => sentAt'[i] = sentAt[i]
  BY DEF Tick, WorldTyped
<1>2. WorldTyped'
  BY <1>1 DEF Tick, WorldTyped, notes
<1>3. Stamped' = Stamped \cup {id} /\ id \notin Stamped
  BY <1>1 DEF Stamped, WorldTyped
<1>4. Cardinality(Stamped') = Cardinality(Stamped) + 1
  <2>1. IsFiniteSet(Stamped)
    BY IdsAreFinite, FS_Subset DEF Stamped
  <2>2. QED BY <1>3, <2>1, FS_AddElement
<1>5. ASSUME NEW i \in Stamped', NEW j \in Stamped', sentAt'[i] = sentAt'[j] PROVE i = j
  <2>1. \A k \in Stamped : k \in Ids /\ k # id /\ sentAt'[k] = sentAt[k] /\ sentAt[k] <= clock
                           /\ sentAt[k] \in Nat
    BY <1>1, <1>3 DEF Stamped, WorldTyped
  <2>2. CASE i \in Stamped /\ j \in Stamped
    BY <1>5, <2>1, <2>2 DEF StampsAreUnique
  <2>3. CASE i = id /\ j \in Stamped
    BY <1>1, <1>5, <2>1, <2>3
  <2>4. CASE i \in Stamped /\ j = id
    BY <1>1, <1>5, <2>1, <2>4
  <2>5. QED BY <1>3, <2>2, <2>3, <2>4
<1>6. StampsAreUnique'
  BY <1>1, <1>4, <1>5 DEF StampsAreUnique
<1>7. QED BY <1>1, <1>2, <1>3, <1>6

\* ... and no stored message has it.
LEMMA TickKeepsDatabase ==
  ASSUME WorldTyped, DatabaseInv, NEW id \in Ids, id \notin Stamped, Stamped' = Stamped \cup {id},
         \A i \in Ids : i # id => sentAt'[i] = sentAt[i], UNCHANGED <<db, lost>>
  PROVE  DatabaseInv'
<1>1. Stored(db') = Stored(db) /\ \A i \in Stored(db) : i \in Ids /\ i # id
  BY DEF DatabaseInv, DatabaseOk, Stored
<1>2. \A i \in Stored(db) : sentAt'[i] = sentAt[i]
  BY <1>1
<1>3. \A i : IsNewest(Stored(db), i) => IsNewest(Stored(db), i)'
  BY <1>1, <1>2 DEF IsNewest, Stored
<1>4. QED BY <1>1, <1>3 DEF DatabaseInv, DatabaseOk, LocalsAreOptimistic, Stored

\* Somebody sends a message: it gets a stamp of its own.
LEMMA TheySendKeeps ==
  ASSUME IInv, NEW m \in Messages, TheySend(m)
  PROVE  IInv'
<1>1. /\ m \in Theirs /\ m \in Ids /\ sentAt[m] = 0 /\ Tick(m)
      /\ UNCHANGED <<db, ram, chat, ops, faults, notes>>
  BY DEF TheySend, Ids, Messages
<1>2. /\ WorldTyped' /\ StampsAreUnique' /\ Stamped' = Stamped \cup {m} /\ m \notin Stamped
      /\ \A i \in Ids : i # m => sentAt'[i] = sentAt[i]
  BY <1>1, TickStamps DEF IInv
<1>3. \A k \in Mine : Local(k) # m /\ Local(k) \in Ids /\ k # m /\ k \in Ids
  BY <1>1, MessageStoreAssumption DEF Ids, Messages
<1>4. DatabaseInv'
  BY <1>1, <1>2, TickKeepsDatabase DEF IInv, notes
<1>5. OpsTyped'
  BY <1>1, <1>2, <1>3 DEF IInv, OpsTyped, OpsAreRecords, Runs, In, Sending, Receiving
<1>6. ScreenTyped' /\ ScreenInv'
  BY <1>1 DEF IInv, ScreenTyped, LocalsAreOptimistic, ScreenInv, ScreenIsBacked, Kept, Runs, In,
     Receiving, notes
<1>7. SendInv'
  <2>1. \A k \in Mine : Settled(k)' = Settled(k)
    BY <1>1, <1>2, <1>3 DEF Settled, Kept, Retained, Tick, notes
  <2>2. Runs("send") => Sending \in Mine
    BY DEF IInv, OpsTyped
  <2>3. \A at : In("send", at) /\ at # "idle" => Runs("send")
    BY DEF In, Runs
  <2>4. QED BY <1>1, <1>2, <1>3, <2>1, <2>2, <2>3 DEF IInv, SendInv, Runs, In, Sending, notes
<1>8. QED BY <1>2, <1>4, <1>5, <1>6, <1>7 DEF IInv
-----------------------------------------------------------------------------
(* Sending *)

\* A step of a sending that lets messages be: it adds no received row and drops nothing.
LEMMA SendKeeps ==
  ASSUME IInv, UNCHANGED world, faults' \in 0..MaxFaults, cut' \subseteq Mine, lost' \in BOOLEAN,
         dropped' = dropped, DatabaseOk(db', lost'), ScreenTyped', OpsTyped', SendInv',
         \A m \in Theirs : ram'[m] = ram[m], \A m \in Messages : Kept(m) => Kept(m)',
         NEW to, NEW m, NEW v, Moves("send", to, m, v)
  PROVE  IInv'
<1>1. WorldTyped' /\ StampsAreUnique'
  BY WorldStays DEF IInv, WorldTyped
<1>2. DatabaseInv'
  BY DatabaseStays DEF world
<1>3. ScreenInv'
  <2>1. \A k \in Theirs : ram'[k] # "absent" => Kept(k)'
    BY DEF IInv, ScreenInv, ScreenIsBacked, Kept, Messages
  <2>2. /\ In("receive", "publish")' = In("receive", "publish")
        /\ In("receive", "publish") => Receiving' = Receiving /\ Receiving \in Messages
    BY DEF Moves, Runs, In, Receiving, IInv, OpsTyped
  <2>3. Runs("load")' => Runs("load") /\ ops'["load"].val = ops["load"].val
    BY DEF Moves, Runs
  <2>4. QED BY <2>1, <2>2, <2>3 DEF IInv, ScreenInv, ScreenIsBacked, Kept, Messages
<1>4. QED BY <1>1, <1>2, <1>3 DEF IInv

\* What the other operations have read is typed as it was.
LEMMA SendTypes ==
  ASSUME IInv, UNCHANGED world, OpsAreRecords', NEW to, NEW v, v \in {None, Local(Sending)},
         Runs("send"), Moves("send", to, Sending, v) \/ Moves("send", "idle", None, None)
  PROVE  OpsTyped'
<1>1. Sending \in Mine /\ sentAt'[Local(Sending)] > 0 /\ sentAt' = sentAt
  BY DEF IInv, OpsTyped, world
<1>2. CASE Moves("send", to, Sending, v)
  <2>1. Sending' = Sending /\ ops'["send"].val = v
    BY <1>2 DEF Moves, Sending
  <2>2. QED BY <1>1, <1>2, <2>1 DEF IInv, OpsTyped, Runs, In, Receiving, Moves
<1>3. CASE Moves("send", "idle", None, None)
  BY <1>1, <1>3 DEF IInv, OpsTyped, Runs, In, Receiving, Moves
<1>4. QED BY <1>2, <1>3

\* The rows of what this step does not send stay as they are.
OthersStay ==
  \A m \in Mine : m # Sending => (Settled(m) => Settled(m)')

\* A sending goes on to "to".
LEMMA SendGoesOn ==
  ASSUME IInv, UNCHANGED world, Runs("send"), NEW to, to # "idle", NEW v, Moves("send", to, Sending, v),
         cut \subseteq cut', OthersStay,
         to \in {"delete", "put", "reconcile"} => sentAt[Sending] > 0,
         to = "put" => db'.rows[Local(Sending)] = "absent",
         to = "published" => Settled(Sending)' \/ Sending \in cut',
         to \in {"mark", "failed"} => Sending \in cut'
  PROVE  SendInv'
<1>1. /\ "send" \in Operations /\ Sending' = Sending /\ Sending \in Mine /\ sentAt' = sentAt
      /\ Runs("send")' /\ \A at : In("send", at)' => at = to
  BY DEF Moves, Runs, In, Sending, IInv, OpsTyped, world
<1>2. \A m \in Mine : sentAt'[m] > 0 /\ m \notin cut' /\ m # Sending => Settled(m)'
  BY <1>1 DEF OthersStay, IInv, SendInv
<1>3. QED BY <1>1, <1>2 DEF SendInv, IInv

\* A sending stops.
LEMMA SendStops ==
  ASSUME IInv, UNCHANGED world, Runs("send"), Moves("send", "idle", None, None),
         cut \subseteq cut', OthersStay, NEW m, m = Sending, Settled(m)' \/ m \in cut'
  PROVE  SendInv'
<1>1. /\ "send" \in Operations /\ Sending \in Mine /\ sentAt' = sentAt
      /\ ~Runs("send")' /\ \A at : In("send", at)' => at = "idle"
  BY DEF Moves, Runs, In, IInv, OpsTyped, world
<1>2. \A k \in Mine : sentAt'[k] > 0 /\ k \notin cut' => Settled(k)'
  BY <1>1 DEF OthersStay, IInv, SendInv
<1>3. QED BY <1>1, <1>2 DEF SendInv, IInv

\* What every step of a sending finds.
Sends ==
  /\ "send" \in Operations /\ Runs("send") /\ OpsAreRecords
  /\ Sending \in Mine /\ Sending \in Ids /\ Local(Sending) \in Ids /\ Sending # Local(Sending)
  /\ ops["send"].val \in {None, Local(Sending)}
  /\ DatabaseOk(db, lost) /\ db \in Databases /\ lost \in BOOLEAN /\ faults \in 0..MaxFaults
  /\ cut \subseteq Mine /\ WorldTyped /\ StampsAreUnique

\* A step of the send finds the send running.
LEMMA SendFinds ==
  ASSUME IInv, NEW at, at # "idle", SendIn(at)
  PROVE  Sends /\ In("send", at)
<1>1. "send" \in Operations /\ Runs("send") /\ In("send", at)
  BY DEF SendIn, In, Runs
<1>2. Sending \in Mine /\ ops["send"].val \in {None, Local(Sending)}
  BY <1>1 DEF IInv, OpsTyped
<1>3. Sending \in Ids /\ Local(Sending) \in Ids /\ Sending # Local(Sending)
  BY <1>2, MessageStoreAssumption DEF Ids, Messages
<1>4. QED BY <1>1, <1>2, <1>3 DEF Sends, IInv, OpsTyped, DatabaseInv, DatabaseOk, WorldTyped

\* Rows that change for the message that is sent only.
LEMMA OthersStayIf ==
  ASSUME IInv, UNCHANGED world, Sending \in Mine, dropped' = dropped,
         \A i \in Ids : i # Sending /\ i # Local(Sending) => db'.rows[i] = db.rows[i]
  PROVE  OthersStay
<1>1. ASSUME NEW m \in Mine, m # Sending
      PROVE  m \in Ids /\ Local(m) \in Ids /\ Local(m) # Sending /\ Local(m) # Local(Sending) /\ m # Local(Sending)
  BY <1>1, MessageStoreAssumption DEF Ids, Messages, Local
<1>2. ASSUME NEW m \in Mine, m # Sending, Settled(m) PROVE Settled(m)'
  <2>1. db'.rows[m] = db.rows[m] /\ db'.rows[Local(m)] = db.rows[Local(m)]
    BY <1>1, <1>2
  <2>2. QED BY <1>2, <2>1 DEF Settled, Kept, Retained, world
<1>3. QED BY <1>2 DEF OthersStay

OnlySent ==
  /\ \A i \in Ids : i # Sending /\ i # Local(Sending) => db'.rows[i] = db.rows[i] /\ ram'[i] = ram[i]
  /\ db'.rows[Sending] # "absent" \/ db'.rows[Sending] = db.rows[Sending]

\* A step that changes the rows of what is sent only, on the screen and in the
\* database, and removes no message.
LEMMA SendRowsKeep ==
  ASSUME IInv, UNCHANGED <<world, dropped>>, Runs("send"), Sending \in Mine,
         faults' \in 0..MaxFaults, cut' \subseteq Mine, lost' \in BOOLEAN,
         DatabaseOk(db', lost'), ScreenTyped',
         OnlySent,
         OpsTyped', SendInv', NEW to, NEW m, NEW v, Moves("send", to, m, v)
  PROVE  IInv'
<1>1. \A k \in Theirs : k \in Ids /\ k # Sending /\ k # Local(Sending)
  BY MessageStoreAssumption DEF Ids, Messages
<1>2. \A k \in Messages : k \in Ids /\ k # Local(Sending)
  BY MessageStoreAssumption DEF Ids, Messages
<1>3. \A k \in Messages : Kept(k) => Kept(k)'
  BY <1>2 DEF Kept, OnlySent
<1>4. QED BY <1>1, <1>3, SendKeeps DEF OnlySent

\* What a step within the send must show ...
LEMMA SendGoes ==
  ASSUME IInv, UNCHANGED <<world, dropped>>, Runs("send"), Sending \in Mine,
         faults' \in 0..MaxFaults, cut' \subseteq Mine, cut \subseteq cut', lost' \in BOOLEAN,
         DatabaseOk(db', lost'), ScreenTyped',
         OnlySent,
         NEW to, to # "idle", NEW v, v \in {None, Local(Sending)},
         OpsAreRecords', Moves("send", to, Sending, v),
         to \in {"delete", "put", "reconcile"} => sentAt[Sending] > 0,
         to = "put" => db'.rows[Local(Sending)] = "absent",
         to = "published" => Settled(Sending)' \/ Sending \in cut',
         to \in {"mark", "failed"} => Sending \in cut'
  PROVE  IInv'
<1>1. OpsTyped'
  BY SendTypes
<1>2. OthersStay
  BY OthersStayIf DEF OnlySent
<1>3. SendInv'
  BY <1>2, SendGoesOn
<1>4. QED BY <1>1, <1>3, SendRowsKeep

\* ... and one that ends it: the message has settled or was cut.
LEMMA SendEndsWell ==
  ASSUME IInv, UNCHANGED <<world, dropped>>, Runs("send"), Sending \in Mine,
         faults' \in 0..MaxFaults, cut' \subseteq Mine, cut \subseteq cut', lost' \in BOOLEAN,
         DatabaseOk(db', lost'), ScreenTyped',
         OnlySent,
         OpsAreRecords', Moves("send", "idle", None, None),
         NEW m, m = Sending, Settled(m)' \/ m \in cut'
  PROVE  IInv'
<1>1. OpsTyped'
  BY SendTypes
<1>2. OthersStay
  BY OthersStayIf DEF OnlySent
<1>3. SendInv'
  BY <1>2, SendStops
<1>4. QED BY <1>1, <1>3, SendRowsKeep

\* The optimistic row is stored and shown.
LEMMA SendStoresKeeps ==
  ASSUME IInv, SendStores
  PROVE  IInv'
<1> DEFINE v == ops["send"].val
<1>1. Sends
  BY SendFinds DEF SendStores
<1>2. /\ db' = PutMessage(db, Local(Sending), "pending")
      /\ UNCHANGED <<world, dropped, ram, chat, faults, cut, lost>>
  BY DEF SendStores, notes
<1>3. PICK to \in {"attach", "network"} : OpsAreRecords' /\ Moves("send", to, Sending, v)
  <2>1. \E to \in {"attach", "network"} : Go("send", to)
    BY DEF SendStores
  <2>2. QED BY <1>1, <2>1, GoMoves DEF Sends, Sending
<1> HIDE DEF v
<1>4. "pending" \in Rows \ {"absent", "sent", "delivered"}
  BY DEF Rows
<1>5. DatabaseOk(db', lost)
  BY <1>1, <1>2, <1>4, PutIsOk DEF Sends
<1>6. OnlySent
  BY <1>1, <1>2, <1>4, PutPuts DEF Sends, OnlySent
<1>7. ScreenTyped'
  BY <1>2 DEF IInv, ScreenTyped, LocalsAreOptimistic
<1>8. QED BY <1>1, <1>2, <1>3, <1>5, <1>6, <1>7, SendGoes DEF Sends, v

\* Its attachment is stored.
LEMMA SendAttachesKeeps ==
  ASSUME IInv, SendAttaches
  PROVE  IInv'
<1> DEFINE v == ops["send"].val
<1>1. Sends
  BY SendFinds DEF SendAttaches
<1>2. /\ db' = [db EXCEPT !.att[Local(Sending)] = "cached"] /\ Go("send", "network")
      /\ UNCHANGED <<world, dropped, ram, chat, faults, cut, lost>>
  BY DEF SendAttaches, notes
<1>3. OpsAreRecords' /\ Moves("send", "network", Sending, v)
  BY <1>1, <1>2, GoMoves DEF Sends, Sending
<1> HIDE DEF v
<1>4. DatabaseOk(db', lost) /\ db'.rows = db.rows
  <2> DEFINE a == [db.att EXCEPT ![Local(Sending)] = "cached"]
  <2>1. a \in [Ids -> Attachments] /\ \A i \in Ids : i # Local(Sending) => a[i] = db.att[i]
    BY <1>1 DEF Sends, Databases, Attachments
  <2>2. db' = [db EXCEPT !.att = a]
    BY <1>2
  <2> HIDE DEF a
  <2>3. db' \in Databases /\ db'.rows = db.rows /\ db'.conv = db.conv /\ db'.att = a
    BY <1>1, <2>1, <2>2 DEF Sends, Databases
  <2>4. \A m \in Theirs : m \in Ids /\ m # Local(Sending)
    BY <1>1, MessageStoreAssumption DEF Sends, Ids, Messages
  <2>5. \A m \in Theirs : db'.att[m] = "none" \/ db.rows[m] # "absent"
    BY <1>1, <2>1, <2>3, <2>4 DEF Sends, DatabaseOk
  <2>6. QED BY <1>1, <2>3, <2>5, AttachmentsAreOk DEF Sends
<1>5. ScreenTyped' /\ OnlySent
  BY <1>2, <1>4 DEF IInv, ScreenTyped, LocalsAreOptimistic, OnlySent
<1>6. QED BY <1>1, <1>2, <1>3, <1>4, <1>5, SendGoes DEF Sends, v

\* A fault is counted within its bound.
LEMMA FaultCounts ==
  ASSUME faults \in 0..MaxFaults, Fault
  PROVE  faults' \in 0..MaxFaults
BY MessageStoreAssumption DEF Fault

\* A write of the send fails: it ends and the rows stay.
LEMMA SendStoreFailsKeeps ==
  ASSUME IInv, SendStoreFails
  PROVE  IInv'
<1>1. Sends
  BY SendFinds DEF SendStoreFails
<1>2. End("send") /\ Fault /\ UNCHANGED <<world, dropped, db, ram, chat, lost>>
  BY DEF SendStoreFails
<1>3. cut' \subseteq Mine /\ cut \subseteq cut' /\ Sending \in cut'
  BY <1>1 DEF SendStoreFails, Interrupt, Sends
<1>4. OpsAreRecords' /\ Moves("send", "idle", None, None)
  BY <1>1, <1>2, EndMoves DEF Sends
<1>5. ScreenTyped' /\ OnlySent
  BY <1>2 DEF IInv, ScreenTyped, LocalsAreOptimistic, OnlySent
<1>6. faults' \in 0..MaxFaults
  BY <1>1, <1>2, FaultCounts DEF Sends
<1>7. QED BY <1>1, <1>2, <1>3, <1>4, <1>5, <1>6, SendEndsWell DEF Sends

\* The message takes its stamp from the network.
LEMMA PublishedKeeps ==
  ASSUME IInv, Published
  PROVE  IInv'
<1> DEFINE m == Sending
<1>1. Sends /\ In("send", "network") /\ m \in Mine /\ m \in Ids /\ m \in Messages
  BY SendFinds DEF Published, Sends, Messages
<1>2. sentAt[m] = 0 /\ Tick(m) /\ UNCHANGED <<db, ram, chat, ops, faults, notes>>
  BY DEF Published
<1>3. /\ WorldTyped' /\ StampsAreUnique' /\ Stamped' = Stamped \cup {m} /\ m \notin Stamped
      /\ \A i \in Ids : i # m => sentAt'[i] = sentAt[i]
  BY <1>1, <1>2, TickStamps DEF IInv
<1>4. \A k \in Mine : Local(k) # m /\ Local(k) \in Ids
  BY <1>1, MessageStoreAssumption DEF Ids
<1>5. DatabaseInv'
  BY <1>1, <1>2, <1>3, TickKeepsDatabase DEF IInv, notes
<1>6. Sending' = m /\ \A n : Runs(n)' = Runs(n) /\ \A at : In(n, at)' = In(n, at)
  BY <1>2 DEF Runs, In, Sending
<1>7. OpsTyped'
  BY <1>2, <1>3, <1>4, <1>6 DEF IInv, OpsTyped, OpsAreRecords, Receiving
<1>8. ScreenTyped' /\ ScreenInv'
  BY <1>2, <1>6 DEF IInv, ScreenTyped, LocalsAreOptimistic, ScreenInv, ScreenIsBacked, Kept,
     Receiving, notes
<1>9. SendInv'
  <2>1. \A k \in Mine : k # m => sentAt'[k] = sentAt[k] /\ Settled(k)' = Settled(k)
    BY <1>2, <1>3, <1>4 DEF Settled, Kept, Retained, Tick, notes, Ids, Messages
  <2>2. sentAt'[Local(m)] # 0
    BY <1>1, <1>3, <1>4 DEF IInv, OpsTyped, Sends
  <2>3. ~In("send", "delete") /\ ~In("send", "put") /\ ~In("send", "reconcile")
        /\ ~In("send", "published") /\ ~In("send", "mark") /\ ~In("send", "failed")
    BY <1>1 DEF In
  <2> HIDE DEF m
  <2>4. \A k \in Mine : sentAt'[Local(k)] = 0 => sentAt'[k] = 0
    BY <1>3, <1>4, <2>1, <2>2 DEF IInv, SendInv
  <2>5. \A k \in Mine : sentAt'[k] > 0 /\ k \notin cut /\ ~(Runs("send") /\ m = k) => Settled(k)'
    BY <1>1, <2>1 DEF IInv, SendInv, Sends, m
  <2>6. QED BY <1>2, <1>6, <2>3, <2>4, <2>5 DEF SendInv, notes
<1>10. QED BY <1>3, <1>5, <1>7, <1>8, <1>9 DEF IInv

\* A send begins with an optimistic row.
LEMMA SendBeginsKeeps ==
  ASSUME IInv, NEW m \in Mine, SendBegins(m)
  PROVE  IInv'
<1>1. /\ m \in Ids /\ Local(m) \in Ids /\ Local(m) # m
      /\ \A k \in Messages : k \in Ids /\ k # Local(m)
  BY MessageStoreAssumption DEF Ids, Messages
<1>2. /\ sentAt[Local(m)] = 0 /\ Begin("send", "store", m, None) /\ Tick(Local(m))
      /\ ram' = [ram EXCEPT ![Local(m)] = "pending"]
      /\ UNCHANGED <<db, chat, faults, notes>>
  BY DEF SendBegins
<1>3. /\ WorldTyped' /\ StampsAreUnique' /\ Stamped' = Stamped \cup {Local(m)} /\ Local(m) \notin Stamped
      /\ sentAt'[Local(m)] > 0 /\ \A i \in Ids : i # Local(m) => sentAt'[i] = sentAt[i]
  BY <1>1, <1>2, TickStamps DEF IInv
<1>4. OpsAreRecords' /\ Moves("send", "store", m, None) /\ ~Runs("send")
  BY <1>2, BeginMoves DEF IInv, OpsTyped, Runs
<1>5. DatabaseInv'
  BY <1>1, <1>2, <1>3, TickKeepsDatabase DEF IInv, notes
<1>6. Sending' = m /\ ops'["send"].val = None /\ Runs("send")' /\ \A at : In("send", at)' => at = "store"
  BY <1>4 DEF Moves, Runs, In, Sending
<1>7. OpsTyped'
  BY <1>3, <1>4, <1>6 DEF IInv, OpsTyped, Runs, In, Receiving, Moves
<1>8. ScreenTyped'
  BY <1>1, <1>2 DEF IInv, ScreenTyped, LocalsAreOptimistic, Rows
<1>9. ScreenInv'
  <2>1. \A k \in Theirs : ram'[k] = ram[k]
    BY <1>1, <1>2 DEF IInv, ScreenTyped, Messages
  <2>2. QED BY <1>2, <1>4, <2>1 DEF IInv, ScreenInv, ScreenIsBacked, Kept, Moves, Runs, In, Receiving, notes
<1>10. SendInv'
  <2>1. \A k \in Mine : k \in Ids /\ k # Local(m) /\ sentAt'[k] = sentAt[k]
    BY <1>1, <1>3 DEF Messages
  <2>2. \A k \in Mine : Settled(k) => Settled(k)'
    BY <1>2, <2>1 DEF Settled, Kept, Retained, Tick, notes
  <2>3. sentAt'[m] = 0
    BY <1>2, <2>1 DEF IInv, SendInv
  <2>4. \A k \in Mine : Local(k) \in Ids /\ (sentAt'[Local(k)] = 0 => sentAt[Local(k)] = 0)
    BY <1>2, <1>3 DEF Ids, IInv, WorldTyped
  <2>5. QED BY <1>2, <1>4, <1>6, <2>1, <2>2, <2>3, <2>4 DEF IInv, SendInv, notes
<1>11. QED BY <1>3, <1>5, <1>7, <1>8, <1>9, <1>10 DEF IInv

\* The rows on the screen that the sending changes.
LEMMA SentRowsAreTyped ==
  ASSUME IInv, Sends, NEW a \in Rows \ {"sent", "delivered"}, NEW b \in Rows,
         NEW r, r = [ram EXCEPT ![Local(Sending)] = a, ![Sending] = b]
  PROVE  /\ r \in [Ids -> Rows] /\ LocalsAreOptimistic(r)
         /\ \A i \in Ids : i # Sending /\ i # Local(Sending) => r[i] = ram[i]
<1>1. \A m \in Mine : Local(m) # Sending /\ Local(m) \in Ids
  BY MessageStoreAssumption DEF Sends, Ids, Messages
<1>2. QED BY <1>1 DEF IInv, ScreenTyped, LocalsAreOptimistic, Sends

\* The answer arrives: the message was published.
LEMMA SendSucceedsKeeps ==
  ASSUME IInv, SendSucceeds
  PROVE  IInv'
<1> DEFINE v == ops["send"].val
           b == IF Sending \in image THEN "sent" ELSE ram[Sending]
<1>1. Sends
  BY SendFinds DEF SendSucceeds
<1>2. /\ UNCHANGED <<world, dropped, db, chat, faults, cut, lost>> /\ sentAt[Sending] > 0
      /\ ram' = [ram EXCEPT ![Local(Sending)] = "absent", ![Sending] = b]
  <2>1. ram' = [ram EXCEPT ![Local(Sending)] = "absent",
                           ![Sending] = IF Sending \in image THEN "sent" ELSE @]
    BY DEF SendSucceeds
  <2>2. QED BY <1>1, <2>1 DEF SendSucceeds, Sends, notes
<1>3. b \in Rows /\ "absent" \in Rows \ {"sent", "delivered"}
  BY <1>1 DEF IInv, ScreenTyped, Sends, Rows
<1>4. PICK to \in {"reconcile", "delete"} : OpsAreRecords' /\ Moves("send", to, Sending, v)
  <2>1. \E to \in {"reconcile", "delete"} : Go("send", to)
    BY DEF SendSucceeds
  <2>2. QED BY <1>1, <2>1, GoMoves DEF Sends, Sending
<1> HIDE DEF b, v
<1>5. ScreenTyped' /\ OnlySent
  BY <1>1, <1>2, <1>3, SentRowsAreTyped DEF IInv, ScreenTyped, OnlySent
<1>6. QED BY <1>1, <1>2, <1>4, <1>5, SendGoes DEF Sends, v

\* The optimistic row is gone before the published one is written.
LEMMA SendDeletesLocalKeeps ==
  ASSUME IInv, SendDeletesLocal
  PROVE  IInv'
<1> DEFINE v == ops["send"].val
<1>1. Sends /\ In("send", "delete")
  BY SendFinds DEF SendDeletesLocal
<1>2. /\ UNCHANGED <<world, dropped, chat, faults, cut, lost>> /\ Go("send", "put")
      /\ db' = DeleteMessages(db, {Local(Sending)}) /\ ram' = [ram EXCEPT ![Sending] = "sent"]
      /\ sentAt[Sending] > 0
  BY <1>1 DEF SendDeletesLocal, notes, KeepRow, IInv, SendInv
<1>3. OpsAreRecords' /\ Moves("send", "put", Sending, v)
  BY <1>1, <1>2, GoMoves DEF Sends, Sending
<1> HIDE DEF v
<1>4. ScreenTyped' /\ \A i \in Ids : i # Sending => ram'[i] = ram[i]
  <2>1. \A m \in Mine : Local(m) # Sending /\ Local(m) \in Ids
    BY <1>1, MessageStoreAssumption DEF Sends, Ids, Messages
  <2>2. QED BY <1>1, <1>2, <2>1 DEF IInv, ScreenTyped, LocalsAreOptimistic, Sends, Rows
<1>5. {Local(Sending)} \in SUBSET Ids
  BY <1>1 DEF Sends
<1>6. \A i \in Ids : db'.rows[i] = IF i = Local(Sending) THEN "absent" ELSE db.rows[i]
  BY <1>1, <1>2, <1>5, DeleteDeletes DEF Sends
<1>7. DatabaseOk(db', lost)
  BY <1>1, <1>2, <1>5, DeleteIsOk DEF Sends
<1>8. OnlySent /\ db'.rows[Local(Sending)] = "absent"
  BY <1>1, <1>4, <1>6 DEF OnlySent, Sends
<1>9. QED BY <1>1, <1>2, <1>3, <1>4, <1>7, <1>8, SendGoes DEF Sends, v

\* The final row takes the place of the optimistic one.
LEMMA SendPutsFinalKeeps ==
  ASSUME IInv, SendPutsFinal
  PROVE  IInv'
<1> DEFINE v == ops["send"].val
<1>1. Sends /\ In("send", "put")
  BY SendFinds DEF SendPutsFinal
<1>2. /\ UNCHANGED <<world, dropped, ram, chat, faults, cut, lost>> /\ Go("send", "published")
      /\ db' = PutMessage(db, Sending, "sent") /\ db.rows[Local(Sending)] = "absent"
  BY <1>1 DEF SendPutsFinal, notes, IInv, SendInv
<1>3. OpsAreRecords' /\ Moves("send", "published", Sending, v)
  BY <1>1, <1>2, GoMoves DEF Sends, Sending
<1> HIDE DEF v
<1>4. "sent" \in Rows \ {"absent"} /\ Sending \in Messages
  BY <1>1 DEF Rows, Sends, Messages
<1>5. \A i \in Ids : db'.rows[i] = IF Retained(Sending) /\ i = Sending THEN "sent" ELSE db.rows[i]
  BY <1>1, <1>2, <1>4, PutPuts DEF Sends
<1>6. DatabaseOk(db', lost)
  BY <1>1, <1>2, <1>4, PutIsOk DEF Sends
<1>7. ScreenTyped' /\ OnlySent
  BY <1>1, <1>2, <1>5 DEF IInv, ScreenTyped, LocalsAreOptimistic, OnlySent, Sends
<1>8. Settled(Sending)'
  <2>1. Sending' = Sending /\ db'.rows[Local(Sending)] = "absent"
    BY <1>1, <1>2, <1>3, <1>5 DEF Moves, Sending, Sends
  <2>2. db'.rows[Sending] # "absent" \/ ~Retained(Sending)
    BY <1>1, <1>5 DEF Sends
  <2>3. QED BY <1>2, <2>1, <2>2 DEF Settled, Kept, Retained, world
<1>9. QED BY <1>1, <1>2, <1>3, <1>6, <1>7, <1>8, SendGoes DEF Sends, v

\* A reconciled image is the newest message, or the preview is lost.
LEMMA SendReconcilesKeeps ==
  ASSUME IInv, SendReconciles
  PROVE  IInv'
<1> DEFINE v == ops["send"].val
           rows == [db.rows EXCEPT ![Local(Sending)] = "absent", ![Sending] = "sent"]
           att == [db.att EXCEPT ![Local(Sending)] = "none", ![Sending] = "cached"]
           conv == IF db.conv = None THEN None ELSE [db.conv EXCEPT !.last = Sending]
<1>1. Sends /\ In("send", "reconcile") /\ sentAt[Sending] > 0
  BY SendFinds DEF SendReconciles, IInv, SendInv
<1>2. /\ UNCHANGED <<world, dropped, ram, chat, faults, cut>> /\ Go("send", "published")
      /\ lost' = (lost \/ (db.conv # None /\ At(db.conv.last) > At(Sending)))
  BY DEF SendReconciles
<1>3. OpsAreRecords' /\ Moves("send", "published", Sending, v)
  BY <1>1, <1>2, GoMoves DEF Sends, Sending
<1> HIDE DEF v
<1>4. /\ rows \in [Ids -> Rows] /\ att \in [Ids -> Attachments] /\ conv \in ConversationRows
      /\ \A i \in Ids : i # Sending /\ i # Local(Sending) => rows[i] = db.rows[i] /\ att[i] = db.att[i]
      /\ rows[Local(Sending)] = "absent" /\ rows[Sending] = "sent"
  BY <1>1 DEF Sends, Databases, Rows, Attachments, ConversationRows
<1>5. conv # None => db.conv # None /\ conv.last = Sending
  BY <1>1 DEF Sends, Databases, ConversationRows
<1>6. db' = [db EXCEPT !.rows = rows, !.att = att, !.conv = conv]
  <2>1. db' = [db EXCEPT !.rows[Local(Sending)] = "absent", !.rows[Sending] = "sent",
                 !.att[Local(Sending)] = "none", !.att[Sending] = "cached",
                 !.conv = IF @ = None THEN None ELSE [@ EXCEPT !.last = Sending]]
    BY DEF SendReconciles
  <2>2. QED BY <1>1, <2>1 DEF Sends, Databases
<1> HIDE DEF rows, att, conv
<1>7. db' \in Databases /\ db'.rows = rows /\ db'.att = att /\ db'.conv = conv
  BY <1>1, <1>4, <1>6 DEF Sends, Databases
<1>8. lost' \in BOOLEAN /\ (~lost' => ~lost)
  BY <1>1, <1>2 DEF Sends
<1>9. DatabaseOk(db', lost')
  <2>1. \A m \in Mine : Local(m) # Sending /\ Local(m) \in Ids
    BY <1>1, MessageStoreAssumption DEF Sends, Ids, Messages
  <2>2. LocalsAreOptimistic(db'.rows)
    BY <1>1, <1>4, <1>7, <2>1 DEF LocalsAreOptimistic, Sends, DatabaseOk
  <2>3. Stored(db') \subseteq Stored(db) \cup {Sending} /\ Sending \in Stored(db')
    BY <1>1, <1>4, <1>7 DEF Stored, Sends
  <2>4. Stored(db') \subseteq Stamped
    BY <1>1, <2>3 DEF Sends, DatabaseOk, Stamped
  <2>5. ASSUME ~lost', conv # None PROVE IsNewest(Stored(db'), Sending)
    <3>1. IsNewest(Stored(db), db.conv.last) /\ ~(At(db.conv.last) > At(Sending))
      BY <1>1, <1>2, <1>5, <1>8, <2>5 DEF Sends, DatabaseOk
    <3>2. \A j \in Stored(db') : sentAt[j] \in Nat
      BY <2>4 DEF Stamped, IInv, WorldTyped
    <3>3. \A j \in Stored(db) : j \in Ids /\ j # None /\ sentAt[j] \in Nat
      BY <1>1, MessageStoreAssumption DEF Stored, IInv, WorldTyped
    <3>4. \A j \in Stored(db) : sentAt[j] <= sentAt[Sending]
      BY <1>1, <2>3, <3>1, <3>2, <3>3, MessageStoreAssumption DEF IsNewest, At, Sends
    <3>5. QED BY <2>3, <3>2, <3>4 DEF IsNewest
  <2>6. \A m \in Theirs : m \in Ids /\ m # Sending /\ m # Local(Sending)
    BY <1>1, MessageStoreAssumption DEF Sends, Ids, Messages
  <2>7. \A m \in Theirs : att[m] # "none" => rows[m] # "absent"
    BY <1>1, <1>4, <2>6 DEF Sends, DatabaseOk
  <2>8. QED BY <1>5, <1>7, <2>2, <2>4, <2>5, <2>7 DEF DatabaseOk
<1>10. ScreenTyped' /\ OnlySent
  BY <1>1, <1>2, <1>4, <1>7 DEF IInv, ScreenTyped, LocalsAreOptimistic, OnlySent
<1>11. Settled(Sending)'
  <2>1. Sending' = Sending
    BY <1>3 DEF Moves, Sending
  <2>2. QED BY <1>4, <1>7, <2>1 DEF Settled, Kept
<1>12. QED BY <1>1, <1>2, <1>3, <1>8, <1>9, <1>10, <1>11, SendGoes DEF Sends, v

\* A fault after the publication, or before the rows are written.
LEMMA InterruptCuts ==
  ASSUME Sends, Interrupt
  PROVE  cut' \subseteq Mine /\ cut \subseteq cut' /\ Sending \in cut'
BY DEF Interrupt, Sends

\* The reconciliation fails: both rows may be there.
LEMMA SendReconcileFailsKeeps ==
  ASSUME IInv, SendReconcileFails
  PROVE  IInv'
<1> DEFINE v == ops["send"].val
<1>1. Sends
  BY SendFinds DEF SendReconcileFails
<1>2. /\ UNCHANGED <<world, dropped, db, ram, chat, lost>> /\ Go("send", "published") /\ Fault
  BY DEF SendReconcileFails
<1>3. cut' \subseteq Mine /\ cut \subseteq cut' /\ Sending \in cut'
  BY <1>1, InterruptCuts DEF SendReconcileFails
<1>4. OpsAreRecords' /\ Moves("send", "published", Sending, v)
  BY <1>1, <1>2, GoMoves DEF Sends, Sending
<1> HIDE DEF v
<1>5. ScreenTyped' /\ OnlySent /\ faults' \in 0..MaxFaults
  BY <1>1, <1>2, FaultCounts DEF IInv, ScreenTyped, LocalsAreOptimistic, OnlySent, Sends
<1>6. QED BY <1>1, <1>2, <1>3, <1>4, <1>5, SendGoes DEF Sends, v

\* A failed sending marks its optimistic row, on the screen first.
LEMMA FailedRowIsTyped ==
  ASSUME IInv, Sends, NEW r, r = [ram EXCEPT ![Local(Sending)] = IF @ = "absent" THEN @ ELSE "failed"]
  PROVE  /\ r \in [Ids -> Rows] /\ LocalsAreOptimistic(r)
         /\ \A i \in Ids : i # Local(Sending) => r[i] = ram[i]
<1>1. \A m \in Mine : Local(m) \in Ids
  BY DEF Ids
<1>2. QED BY <1>1 DEF IInv, ScreenTyped, LocalsAreOptimistic, Sends, Rows

\* The send fails, whether or not the network has the message.
LEMMA SendFailsKeeps ==
  ASSUME IInv, SendFails
  PROVE  IInv'
<1>1. Sends
  BY SendFinds DEF SendFails
<1>2. /\ UNCHANGED <<world, dropped, db, chat, faults, lost>>
      /\ ram' = [ram EXCEPT ![Local(Sending)] = IF @ = "absent" THEN @ ELSE "failed"]
      /\ ops' = [ops EXCEPT !["send"].at = "mark", !["send"].val = Local(Sending)]
  BY DEF SendFails
<1>3. cut' \subseteq Mine /\ cut \subseteq cut' /\ Sending \in cut'
  BY <1>1, InterruptCuts DEF SendFails
<1>4. OpsAreRecords' /\ Moves("send", "mark", Sending, Local(Sending))
  <2> DEFINE v == Local(Sending)
  <2>1. ops' = [ops EXCEPT !["send"].at = "mark", !["send"].val = v]
    BY <1>2
  <2> HIDE DEF v
  <2>2. OpsAreRecords' /\ Moves("send", "mark", ops["send"].msg, v)
    BY <1>1, <2>1, FieldsMove DEF Sends
  <2>3. QED BY <2>2 DEF v, Sending
<1>5. ScreenTyped' /\ OnlySent
  BY <1>1, <1>2, FailedRowIsTyped DEF IInv, ScreenTyped, OnlySent
<1>6. QED BY <1>1, <1>2, <1>3, <1>4, <1>5, SendGoes DEF Sends

\* The bookkeeping after a send fails.
LEMMA SendBookkeepingFailsKeeps ==
  ASSUME IInv, SendBookkeepingFails
  PROVE  IInv'
<1> DEFINE v == ops["send"].val
<1>1. Sends
  BY SendFinds DEF SendBookkeepingFails
<1>2. /\ UNCHANGED <<world, dropped, db, chat, lost>> /\ Go("send", "mark") /\ Fault
      /\ ram' = [ram EXCEPT ![Local(Sending)] = IF @ = "absent" THEN @ ELSE "failed"]
  BY DEF SendBookkeepingFails
<1>3. cut' \subseteq Mine /\ cut \subseteq cut' /\ Sending \in cut'
  BY <1>1, InterruptCuts DEF SendBookkeepingFails
<1>4. OpsAreRecords' /\ Moves("send", "mark", Sending, v)
  BY <1>1, <1>2, GoMoves DEF Sends, Sending
<1> HIDE DEF v
<1>5. ScreenTyped' /\ OnlySent
  BY <1>1, <1>2, FailedRowIsTyped DEF IInv, ScreenTyped, OnlySent
<1>6. faults' \in 0..MaxFaults
  BY <1>1, <1>2, FaultCounts DEF Sends
<1>7. QED BY <1>1, <1>2, <1>3, <1>4, <1>5, <1>6, SendGoes DEF Sends, v

\* The optimistic row is marked as failed.
LEMMA SendMarksFailedKeeps ==
  ASSUME IInv, SendMarksFailed
  PROVE  IInv'
<1> DEFINE v == ops["send"].val
           rows == [db.rows EXCEPT ![Local(Sending)] = IF @ = "absent" THEN @ ELSE "failed"]
<1>1. Sends /\ In("send", "mark") /\ Sending \in cut
  BY SendFinds DEF SendMarksFailed, IInv, SendInv
<1>2. /\ UNCHANGED <<world, dropped, ram, chat, faults, cut, lost>>
      /\ db' = [db EXCEPT !.rows = rows]
      /\ End("send") \/ Go("send", "failed")
  BY DEF SendMarksFailed, notes
<1>3. OpsAreRecords' /\ (Moves("send", "idle", None, None) \/ Moves("send", "failed", Sending, v))
  BY <1>1, <1>2, GoMoves, EndMoves DEF Sends, Sending
<1> HIDE DEF v
<1>4. /\ rows \in [Ids -> Rows] /\ \A i \in Ids : rows[i] = "absent" <=> db.rows[i] = "absent"
      /\ \A i \in Ids : i # Local(Sending) => rows[i] = db.rows[i]
      /\ rows[Local(Sending)] \in {db.rows[Local(Sending)], "failed"}
  BY <1>1 DEF Sends, Databases, Rows
<1> HIDE DEF rows
<1>5. db' \in Databases /\ db'.rows = rows /\ db'.att = db.att /\ db'.conv = db.conv
  BY <1>1, <1>2, <1>4 DEF Sends, Databases
<1>6. DatabaseOk(db', lost)
  <2>1. Stored(db') = Stored(db)
    BY <1>4, <1>5 DEF Stored
  <2>2. LocalsAreOptimistic(db'.rows)
    <3>1. \A m \in Mine : Local(m) \in Ids
      BY DEF Ids
    <3>2. QED BY <1>1, <1>4, <1>5, <3>1 DEF LocalsAreOptimistic, Sends, DatabaseOk
  <2>3. \A m \in Theirs : db'.att[m] # "none" => db'.rows[m] # "absent"
    BY <1>1, <1>4, <1>5 DEF Sends, DatabaseOk, Ids, Messages
  <2>4. QED BY <1>1, <1>5, <2>1, <2>2, <2>3 DEF Sends, DatabaseOk
<1>7. ScreenTyped' /\ OnlySent
  BY <1>1, <1>2, <1>4, <1>5 DEF IInv, ScreenTyped, LocalsAreOptimistic, OnlySent, Sends
<1>8. CASE Moves("send", "idle", None, None)
  <2>1. PICK m : m = Sending
    OBVIOUS
  <2>2. m \in cut'
    BY <1>1, <1>2, <2>1
  <2>3. QED BY <1>1, <1>2, <1>3, <1>6, <1>7, <1>8, <2>1, <2>2, SendEndsWell DEF Sends
<1>9. CASE Moves("send", "failed", Sending, v)
  BY <1>1, <1>2, <1>3, <1>6, <1>7, <1>9, SendGoes DEF Sends, v
<1>10. QED BY <1>3, <1>8, <1>9

\* A published message is stored by now, or was removed.
LEMMA SendEndsKeeps ==
  ASSUME IInv, SendEnds
  PROVE  IInv'
<1>1. Sends /\ (Settled(Sending) \/ Sending \in cut)
  <2>1. CASE SendIn("published")
    BY <2>1, SendFinds DEF IInv, SendInv
  <2>2. CASE SendIn("failed")
    BY <2>2, SendFinds DEF IInv, SendInv
  <2>3. QED BY <2>1, <2>2 DEF SendEnds
<1>2. /\ UNCHANGED <<world, dropped, db, ram, faults, cut, lost>> /\ End("send")
  BY DEF SendEnds, notes
<1>3. OpsAreRecords' /\ Moves("send", "idle", None, None)
  BY <1>1, <1>2, EndMoves DEF Sends
<1>4. ScreenTyped' /\ OnlySent
  <2>1. chat' \in ConversationRows
    <3>1. PICK to \in Ids \cup {None} : chat' = IF chat = None THEN None ELSE [chat EXCEPT !.last = to]
      BY <1>1 DEF SendEnds, Sends
    <3>2. QED BY <3>1 DEF ConversationRows, IInv, ScreenTyped
  <2>2. QED BY <1>2, <2>1 DEF IInv, ScreenTyped, LocalsAreOptimistic, OnlySent
<1>5. PICK m : m = Sending
  OBVIOUS
<1>6. Settled(m)' \/ m \in cut'
  BY <1>1, <1>2, <1>5 DEF Settled, Kept, Retained, world
<1>7. QED BY <1>1, <1>2, <1>3, <1>4, <1>5, <1>6, SendEndsWell DEF Sends
-----------------------------------------------------------------------------
(* Theorems *)

\* The invariant holds at the start ...
LEMMA InitIInv == Init => IInv
<1> SUFFICES ASSUME Init PROVE IInv
  OBVIOUS
<1>1. \A i \in Ids : sentAt[i] = 0 /\ db.rows[i] = "absent" /\ ram[i] = "absent"
  BY DEF Init, NoRows
<1>2. WorldTyped
  <2>1. image \subseteq Messages /\ group \in BOOLEAN
    BY MessageStoreAssumption DEF Init
  <2>2. clock = 0 /\ cutoff = 0 /\ faults = 0 /\ sentAt \in [Ids -> 0..clock]
    BY DEF Init
  <2>3. kinds \in Scenarios /\ dropped = {} /\ cut = {} /\ lost \in BOOLEAN
    BY DEF Init
  <2>4. QED BY <2>1, <2>2, <2>3, MessageStoreAssumption DEF WorldTyped
<1>3. Stamped = {} /\ Stored(db) = {} /\ StampsAreUnique
  BY <1>1, FS_EmptySet DEF Stamped, Stored, StampsAreUnique, Init
<1>4. ScreenTyped
  BY DEF Init, ScreenTyped, LocalsAreOptimistic, NoRows, Rows, Ids, ConversationRows, NewConversation
<1>5. OpsAreRecords /\ \A n : ~Runs(n) /\ \A at : In(n, at) => at = "idle"
  BY DEF Init, OpsAreRecords, Runs, In, Idle
<1>6. OpsTyped
  BY <1>5 DEF OpsTyped
<1>7. DatabaseInv
  <2>1. db \in Databases /\ db.conv.last = None
    BY DEF Init, Databases, NoRows, NoAttachments, Attachments, Rows, ConversationRows, NewConversation
  <2>2. LocalsAreOptimistic(db.rows) /\ \A m \in Theirs : db.att[m] = "none"
    BY DEF Init, LocalsAreOptimistic, NoRows, NoAttachments, Ids, Messages
  <2>3. QED BY <1>3, <2>1, <2>2 DEF DatabaseInv, DatabaseOk, IsNewest
<1>8. ScreenInv
  BY <1>1, <1>5 DEF ScreenInv, ScreenIsBacked, Ids, Messages
<1>9. SendInv
  <2>1. \A m \in Mine : sentAt[m] = 0
    BY <1>1 DEF Ids, Messages
  <2>2. /\ ~In("send", "delete") /\ ~In("send", "put") /\ ~In("send", "reconcile")
        /\ ~In("send", "published") /\ ~In("send", "mark") /\ ~In("send", "failed")
    BY <1>5
  <2>3. QED BY <2>1, <2>2 DEF SendInv
<1>10. QED BY <1>2, <1>3, <1>4, <1>6, <1>7, <1>8, <1>9 DEF IInv

\* ... and in every step.
LEMMA NextIInv == IInv /\ [Next]_vars => IInv'
<1> SUFFICES ASSUME IInv, [Next]_vars PROVE IInv'
  OBVIOUS
<1>1. CASE UNCHANGED vars
  <2>1. Stamped' = Stamped /\ Stored(db)' = Stored(db) /\ \A n : Runs(n)' = Runs(n) /\ \A at : In(n, at)' = In(n, at)
    BY <1>1 DEF vars, Stamped, Stored, Runs, In
  <2>2. WorldTyped' /\ ScreenTyped' /\ StampsAreUnique'
    BY <1>1, <2>1 DEF vars, IInv, WorldTyped, ScreenTyped, LocalsAreOptimistic, StampsAreUnique
  <2>3. OpsTyped'
    BY <1>1, <2>1 DEF vars, IInv, OpsTyped, OpsAreRecords, Sending, Receiving
  <2>4. DatabaseInv' /\ ScreenInv'
    BY <1>1, <2>1 DEF vars, IInv, DatabaseInv, DatabaseOk, LocalsAreOptimistic, IsNewest, Stored,
       Stamped, ScreenInv, ScreenIsBacked, Kept, Receiving
  <2>5. SendInv'
    BY <1>1, <2>1 DEF vars, IInv, SendInv, Settled, Kept, Retained, Sending
  <2>6. QED BY <2>2, <2>3, <2>4, <2>5 DEF IInv
<1>2. ASSUME NEW m \in Mine, SendBegins(m) PROVE IInv'
  BY <1>2, SendBeginsKeeps
<1>3. ASSUME NEW m \in Messages, TheySend(m) \/ ReceiveBegins(m) \/ DownloadBegins(m) PROVE IInv'
  BY <1>3, TheySendKeeps, ReceiveBeginsKeeps, DownloadBeginsKeeps
<1>4. ASSUME NEW i \in Ids, RemoveBegins(i) PROVE IInv'
  BY <1>4, RemoveBeginsKeeps
<1>5. CASE TimePasses \/ SweepBegins \/ LoadBegins \/ SyncBegins \/ HideBegins
  BY <1>5, TimePassesKeeps, SweepBeginsKeeps, LoadBeginsKeeps, SyncBeginsKeeps, HideBeginsKeeps
<1>6. CASE CreateBegins \/ EditBegins \/ Reload
  BY <1>6, CreateBeginsKeeps, EditBeginsKeeps, ReloadKeeps
<1>7. CASE SendStep
  BY <1>7, SendStoresKeeps, SendAttachesKeeps, SendStoreFailsKeeps, PublishedKeeps,
     SendSucceedsKeeps, SendDeletesLocalKeeps, SendPutsFinalKeeps, SendReconcilesKeeps,
     SendReconcileFailsKeeps, SendFailsKeeps, SendBookkeepingFailsKeeps, SendMarksFailedKeeps,
     SendEndsKeeps DEF SendStep
<1>8. CASE ReceiveStep
  BY <1>8, ReceiveFindsDuplicateKeeps, ReceiveLooksUpKeeps, ReceiveFindsConversationKeeps,
     ReceivePersistsKeeps, ReceiveFailsKeeps, ReceivePublishesKeeps DEF ReceiveStep
<1>9. CASE SweepStep
  BY <1>9, SweepDeletesKeeps, SweepDropsOrphansKeeps, SweepAppliesKeeps DEF SweepStep
<1>10. CASE OtherStep
  BY <1>10, RemoveAppliesKeeps, LoadSetsKeeps, SyncWritesKeeps, SyncListsKeeps, SyncSetsKeeps,
     HideDeletesKeeps, HideLeavesKeeps, CreateStoresKeeps, EditWritesKeeps, DownloadStoresKeeps,
     DownloadFailsKeeps DEF OtherStep
<1>11. QED BY <1>1, <1>2, <1>3, <1>4, <1>5, <1>6, <1>7, <1>8, <1>9, <1>10 DEF Next

\* The inductive invariant holds in every state.
THEOREM Invariance == Spec => []IInv
<1>1. Init => IInv
  BY InitIInv
<1>2. IInv /\ [Next]_vars => IInv'
  BY NextIInv
<1>3. QED BY <1>1, <1>2, PTL DEF Spec

\* Every copy of the conversation holds rows of the types the code writes: an
\* optimistic row is never marked as sent, no row is stored before its message
\* exists, and the clock has a tick for each id at most.
THEOREM TypeCorrect == Spec => []TypeOK
<1>1. IInv => TypeOK
  <2> SUFFICES ASSUME IInv PROVE TypeOK
    OBVIOUS
  <2>1. clock \in 0..MaxClock
    <3>1. Stamped \subseteq Ids /\ IsFiniteSet(Ids)
      BY IdsAreFinite DEF Stamped
    <3>2. Cardinality(Stamped) <= Cardinality(Ids) /\ Cardinality(Ids) \in Nat
      BY <3>1, FS_Subset, FS_CardinalityType
    <3>3. QED BY <3>2 DEF IInv, StampsAreUnique, WorldTyped, MaxClock
  <2>2. \A m \in Mine : {ram[Local(m)], db.rows[Local(m)]} \cap {"sent", "delivered"} = {}
    BY DEF IInv, ScreenTyped, LocalsAreOptimistic, DatabaseInv, DatabaseOk
  <2>3. \A i \in Stored(db) : sentAt[i] > 0
    BY DEF IInv, DatabaseInv, DatabaseOk, Stamped
  <2>4. db.rows \in [Ids -> Rows] /\ db.conv \in ConversationRows /\ db.tomb \in BOOLEAN
        /\ db.att \in [Ids -> {"none", "metadata", "cached", "failed", "blocked"}]
    BY DEF IInv, DatabaseInv, DatabaseOk, Databases, Attachments
  <2>5. QED BY <2>1, <2>2, <2>3, <2>4 DEF IInv, WorldTyped, ScreenTyped, TypeOK
<1>2. QED BY <1>1, Invariance, PTL

\* "Persist before publishing to memory", whatever is removed, reloaded or
\* fails between the two: a received message on the screen is in the database
\* or was removed from it on purpose.
THEOREM ScreenRestsOnDatabase == Spec => []ScreenIsBacked
<1>1. IInv => ScreenIsBacked
  BY DEF IInv, ScreenInv
<1>2. QED BY <1>1, Invariance, PTL

\* A send that went through leaves one row, for any number of operations that
\* run beside it.
THEOREM SendsSettle == Spec => []SettledSendHasOneRow
<1>1. IInv => SettledSendHasOneRow
  <2> SUFFICES ASSUME IInv, NEW m \in Mine, sentAt[m] > 0, m \notin cut,
                      ~("send" \in Running /\ Sending = m)
               PROVE  Settled(m)
    BY DEF SettledSendHasOneRow, Settled, Kept
  <2>1. Runs("send") => "send" \in Running
    BY DEF Runs, Running
  <2>2. QED BY <2>1 DEF IInv, SendInv
<1>2. QED BY <1>1, Invariance, PTL

\* The stored preview is that of the newest stored message, as long as no write
\* of a whole conversation put back what it had read before.
THEOREM PreviewFollows == Spec => []PreviewIsNewest
<1>1. IInv => PreviewIsNewest
  BY NewestIs DEF IInv, DatabaseInv, DatabaseOk, PreviewIsNewest
<1>2. QED BY <1>1, Invariance, PTL

\* No download, however late, leaves an attachment whose message is gone.
THEOREM AttachmentsFollow == Spec => []AttachmentsHaveMessages
<1>1. IInv => AttachmentsHaveMessages
  BY DEF IInv, DatabaseInv, DatabaseOk, AttachmentsHaveMessages
<1>2. QED BY <1>1, Invariance, PTL
=============================================================================
