---------------------------- MODULE MessageStore ----------------------------
(***************************************************************************)
(* One conversation of one inbox in its two copies: the Dexie database     *)
(* (src/src/lib/storage/dexie-driver.ts) and the Zustand stores the        *)
(* screen shows, and the operations of one tab that write both, one copy   *)
(* after the other: sending, receiving, deleting, the retention sweep,     *)
(* loading, conversation sync, hiding, edits and downloads.                *)
(*                                                                         *)
(* An operation is a sequence of steps between awaits; ops[n] is where the *)
(* operation of kind n is and the value it read.  A Dexie transaction is   *)
(* one step.  A message this tab sends has two ids: Local(m) for its       *)
(* optimistic row, m once published.  A conversation's lastMessageAt,      *)
(* preview and sender are those of the message `last` names.               *)
(***************************************************************************)
EXTENDS Naturals, FiniteSets

CONSTANTS
  Mine,           \* messages this tab sends
  Theirs,         \* messages of other installations and people
  Operations,     \* the kinds of operation
  Scenarios,      \* bound: the sets of kinds that one behaviour mixes
  Worlds,         \* the messages with an image, and whether it is a group
  MaxConcurrent,  \* bound: operations that run at a time
  MaxFaults,      \* bound: Dexie writes that fail, and reloads
  CacheLimit,     \* downloaded images the cache holds
  None

Messages == Mine \cup Theirs
Local(m) == <<"local", m>>
Ids == Messages \cup {Local(m) : m \in Mine}
MaxClock == Cardinality(Ids)

ASSUME MessageStoreAssumption ==
  /\ IsFiniteSet(Messages) /\ Mine \cap Theirs = {} /\ \A m \in Mine : Local(m) \notin Messages
  /\ MaxConcurrent \in Nat /\ MaxFaults \in Nat /\ CacheLimit \in Nat
  /\ None \notin Ids /\ Scenarios \subseteq SUBSET Operations
  /\ Worlds \subseteq [image : SUBSET Messages, group : BOOLEAN]

VARIABLES
  clock, sentAt,  \* when each row was created or published; 0: not yet
  cutoff,         \* getMessageRetentionCutoff(now)
  kinds,          \* the kinds of operation this tab performs
  image, group,   \* the messages that carry an image; the conversation is a group
  db,             \* the database: rows, att(achments), conv and the tomb(stone)
  ram, chat,      \* the message store and the conversation store
  ops, faults

VARIABLES         \* history
  dropped,  \* ids removed on purpose: deleted, expired or hidden
  cut,      \* sends ended by a failure or a reload before they were settled
  lost      \* a write of a whole conversation left a preview that is not the newest

vars == <<clock, sentAt, cutoff, kinds, image, group, db, ram, chat, ops, faults,
          dropped, cut, lost>>
world == <<clock, sentAt, cutoff, kinds, image, group>>
notes == <<dropped, cut, lost>>

Idle == [at |-> "idle", msg |-> None, val |-> None]
At(id) == IF id = None THEN 0 ELSE sentAt[id]
Retained(id) == sentAt[id] > cutoff
Stored(d) == {i \in Ids : d.rows[i] # "absent"}
NewConversation(m) == [last |-> m]
NoRows == [i \in Ids |-> "absent"]
NoAttachments == [i \in Ids |-> "none"]

Init ==
  /\ clock = 0 /\ sentAt = [i \in Ids |-> 0] /\ cutoff = 0
  /\ kinds \in Scenarios
  /\ \E w \in Worlds : image = w.image /\ group = w.group
  /\ db = [rows |-> NoRows, att |-> NoAttachments,
           conv |-> NewConversation(None), tomb |-> FALSE]
  /\ ram = NoRows /\ chat = NewConversation(None)
  /\ ops = [n \in Operations |-> Idle] /\ faults = 0
  /\ dropped = {} /\ cut = {} /\ lost = FALSE
-----------------------------------------------------------------------------
(* Steps and the driver's transactions *)

Running == {n \in Operations : ops[n].at # "idle"}
Begin(n, at, m, v) ==
  /\ n \in kinds /\ ops[n] = Idle /\ Cardinality(Running) < MaxConcurrent
  /\ ops' = [ops EXCEPT ![n] = [at |-> at, msg |-> m, val |-> v]]
In(n, at) == n \in Operations /\ ops[n].at = at
Go(n, at) == ops' = [ops EXCEPT ![n].at = at]
End(n) == ops' = [ops EXCEPT ![n] = Idle]
Fault == faults < MaxFaults /\ faults' = faults + 1

Tick(id) == /\ clock' = clock + 1
            /\ sentAt' = [sentAt EXCEPT ![id] = clock + 1]
            /\ UNCHANGED <<cutoff, kinds, image, group>>

\* Mutant: the preview follows every write, older messages too.
FollowAnyWrite(c, id) == IF c = None THEN None ELSE [c EXCEPT !.last = id]

\* The preview follows a message that is not older.
Follow(c, id) == IF c # None /\ At(id) >= At(c.last) THEN [c EXCEPT !.last = id] ELSE c

\* putMessage: nothing for a message past its retention.
PutMessage(d, id, status) ==
  IF ~Retained(id) THEN d
  ELSE [d EXCEPT !.rows[id] = status, !.conv = Follow(d.conv, id)]

Newest(ids) == IF ids = {} THEN None
               ELSE CHOOSE i \in ids : \A j \in ids : sentAt[j] <= sentAt[i]

\* deleteMessages: the rows, what depends on them, and the conversation.
DeleteMessages(d, ids) ==
  LET left == [d EXCEPT
        !.rows = [i \in Ids |-> IF i \in ids THEN "absent" ELSE @[i]],
        !.att = [i \in Ids |-> IF i \in ids THEN "none" ELSE @[i]]]
  IN IF ids \cap Stored(d) = {} THEN d
     ELSE [left EXCEPT !.conv =
             IF @ = None THEN None ELSE [@ EXCEPT !.last = Newest(Stored(left))]]

\* deleteOrphanedAttachmentRows
DropOrphans(d) ==
  [d EXCEPT !.att = [i \in Ids |-> IF d.rows[i] = "absent" THEN "none" ELSE @[i]]]

\* applyMessageDeletionResult: the conversation is replaced by the one the
\* transaction returned.
Apply(ids, conversation) ==
  /\ ram' = [i \in Ids |-> IF i \in ids THEN "absent" ELSE ram[i]]
  /\ chat' = IF chat = None \/ conversation = None THEN chat ELSE conversation

\* putConversation of a row made or read before: it undoes what changed meanwhile.
PutConversation(c) ==
  /\ db' = [db EXCEPT !.conv = c]
  /\ lost' = (lost \/ c.last # Newest(Stored(db)))
-----------------------------------------------------------------------------
(* sendMessage and sendAttachment *)

Sending == ops["send"].msg
SendIn(at) == In("send", at)
Interrupt == cut' = cut \cup {Sending}
KeepRow(id) == [ram EXCEPT ![id] = "sent"]

\* The optimistic row is on the screen first.
SendBegins(m) ==
  /\ m \in Mine /\ sentAt[Local(m)] = 0 /\ chat # None
  /\ Begin("send", "store", m, None)
  /\ Tick(Local(m))
  /\ ram' = [ram EXCEPT ![Local(m)] = "pending"]
  /\ UNCHANGED <<db, chat, faults, notes>>

SendStores ==
  /\ SendIn("store")
  /\ db' = PutMessage(db, Local(Sending), "pending")
  /\ Go("send", IF Sending \in image THEN "attach" ELSE "network")
  /\ UNCHANGED <<world, ram, chat, faults, notes>>

\* putAttachment is a transaction of its own.
SendAttaches ==
  /\ SendIn("attach")
  /\ db' = [db EXCEPT !.att[Local(Sending)] = "cached"]
  /\ Go("send", "network")
  /\ UNCHANGED <<world, ram, chat, faults, notes>>

\* A write failed that belongs to no other failure: the rows stay as they are.
SendStoreFails ==
  /\ Fault
  /\ SendIn("store") \/ SendIn("attach") \/ SendIn("mark")
  /\ End("send") /\ Interrupt
  /\ UNCHANGED <<world, db, ram, chat, dropped, lost>>

\* The network takes the message; the answer may still not arrive.
Published ==
  /\ SendIn("network") /\ sentAt[Sending] = 0
  /\ Tick(Sending)
  /\ UNCHANGED <<db, ram, chat, ops, faults, notes>>

\* Mutant: the optimistic row is left to the echo.
SendSucceedsKeepingRow ==
  /\ SendIn("network") /\ sentAt[Sending] > 0 /\ Sending \notin image
  /\ ram' = [ram EXCEPT ![Local(Sending)] = "absent"]
  /\ Go("send", "put")
  /\ UNCHANGED <<world, db, chat, faults, notes>>

\* Mutant: the optimistic row is marked sent and kept.
SendSucceedsRelabelling ==
  /\ SendIn("network") /\ sentAt[Sending] > 0
  /\ ram' = [ram EXCEPT ![Local(Sending)] = "sent"]
  /\ Go("send", IF Sending \in image THEN "reconcile" ELSE "delete")
  /\ UNCHANGED <<world, db, chat, faults, notes>>

\* A text goes on to delete its optimistic row; an image swaps both on the
\* screen and reconciles the database in one transaction.
SendSucceeds ==
  /\ SendIn("network") /\ sentAt[Sending] > 0
  /\ ram' = [ram EXCEPT ![Local(Sending)] = "absent",
                        ![Sending] = IF Sending \in image THEN "sent" ELSE @]
  /\ Go("send", IF Sending \in image THEN "reconcile" ELSE "delete")
  /\ UNCHANGED <<world, db, chat, faults, notes>>

SendDeletesLocal ==
  /\ SendIn("delete")
  /\ db' = DeleteMessages(db, {Local(Sending)})
  /\ ram' = KeepRow(Sending)
  /\ Go("send", "put")
  /\ UNCHANGED <<world, chat, faults, notes>>

SendPutsFinal ==
  /\ SendIn("put")
  /\ db' = PutMessage(db, Sending, "sent")
  /\ Go("send", "published")
  /\ UNCHANGED <<world, ram, chat, faults, notes>>

\* reconcilePublishedAttachment: the preview follows without a comparison.
SendReconciles ==
  /\ SendIn("reconcile")
  /\ db' = [db EXCEPT !.rows[Local(Sending)] = "absent", !.rows[Sending] = "sent",
                      !.att[Local(Sending)] = "none", !.att[Sending] = "cached",
                      !.conv = IF @ = None THEN None ELSE [@ EXCEPT !.last = Sending]]
  /\ lost' = (lost \/ (db.conv # None /\ At(db.conv.last) > At(Sending)))
  /\ Go("send", "published")
  /\ UNCHANGED <<world, ram, chat, faults, dropped, cut>>

\* The image stays sent on the screen and pending in the database.
SendReconcileFails ==
  /\ Fault
  /\ SendIn("reconcile")
  /\ Go("send", "published") /\ Interrupt
  /\ UNCHANGED <<world, db, ram, chat, dropped, lost>>

\* Disconnected, rejected or past its deadline, whether published or not.
SendFails ==
  /\ SendIn("network")
  /\ ram' = [ram EXCEPT ![Local(Sending)] = IF @ = "absent" THEN @ ELSE "failed"]
  /\ ops' = [ops EXCEPT !["send"].at = "mark", !["send"].val = Local(Sending)]
  /\ Interrupt
  /\ UNCHANGED <<world, db, chat, faults, dropped, lost>>

\* A text's bookkeeping after its publication is handled like a failed send.
SendBookkeepingFails ==
  /\ Fault
  /\ SendIn("delete") \/ SendIn("put")
  /\ ram' = [ram EXCEPT ![Local(Sending)] = IF @ = "absent" THEN @ ELSE "failed"]
  /\ Go("send", "mark") /\ Interrupt
  /\ UNCHANGED <<world, db, chat, dropped, lost>>

\* updateMessageStatus does nothing for a row that is gone.  A failed image
\* leaves the conversation alone.
SendMarksFailed ==
  /\ SendIn("mark")
  /\ db' = [db EXCEPT !.rows[Local(Sending)] = IF @ = "absent" THEN @ ELSE "failed"]
  /\ IF Sending \in image THEN End("send") ELSE Go("send", "failed")
  /\ UNCHANGED <<world, ram, chat, faults, notes>>

\* The conversation on the screen follows, newer messages or not.
SendEnds ==
  /\ SendIn("published") \/ SendIn("failed")
  /\ chat' = IF chat = None THEN None
             ELSE [chat EXCEPT !.last = IF ops["send"].val = None THEN Sending
                                        ELSE ops["send"].val]
  /\ End("send")
  /\ UNCHANGED <<world, db, ram, faults, notes>>
-----------------------------------------------------------------------------
(* handleIncomingMessage and receiveMessage, one message at a time *)

Receiving == ops["receive"].msg
ReceiveIn(at) == In("receive", at)

TheySend(m) ==
  /\ m \in Theirs /\ sentAt[m] = 0
  /\ Tick(m)
  /\ UNCHANGED <<db, ram, chat, ops, faults, notes>>

\* A live or replayed message, ours included; none of a hidden conversation.
ReceiveBegins(m) ==
  /\ sentAt[m] > 0 /\ Retained(m) /\ ~db.tomb
  /\ Begin("receive", "lookup", m, FALSE)
  /\ UNCHANGED <<world, db, ram, chat, faults, notes>>

ReceiveFindsDuplicate ==
  /\ ReceiveIn("lookup") /\ ram[Receiving] # "absent"
  /\ End("receive")
  /\ UNCHANGED <<world, db, ram, chat, faults, notes>>

\* A stored row that is not on the screen is repaired instead of received.
ReceiveLooksUp ==
  /\ ReceiveIn("lookup") /\ ram[Receiving] = "absent"
  /\ ops' = [ops EXCEPT !["receive"].at = "conversation",
                        !["receive"].val = db.rows[Receiving] # "absent"]
  /\ UNCHANGED <<world, db, ram, chat, faults, notes>>

\* The conversation is looked up, or created; a contact that changed is written
\* with the row the screen has.  The peer's tombstone stops a known DM.
ReceiveFindsConversation ==
  /\ ReceiveIn("conversation")
  /\ \/ /\ chat = None /\ db.conv = None
        /\ chat' = NewConversation(Receiving)
        /\ PutConversation(NewConversation(Receiving))
        /\ Go("receive", "persist")
     \/ /\ chat # None \/ db.conv # None
        /\ chat' = IF chat = None THEN db.conv ELSE chat
        /\ IF ~group /\ db.tomb
           THEN End("receive") /\ UNCHANGED <<db, lost>>
           ELSE /\ Go("receive", "persist")
                /\ UNCHANGED <<db, lost>> \/ PutConversation(chat')
  /\ UNCHANGED <<world, ram, faults, dropped, cut>>

\* Mutant: on the screen first.
ReceivePublishesFirst ==
  /\ ReceiveIn("persist")
  /\ ram' = [ram EXCEPT ![Receiving] = "delivered"]
  /\ db' = PutMessage(db, Receiving, "delivered")
  /\ Go("receive", "publish")
  /\ UNCHANGED <<world, chat, faults, notes>>

\* The row and its attachment in one transaction that rechecks the retention;
\* a row that another operation stored meanwhile stays, its descriptor is
\* refreshed.  A descriptor against the download policy is blocked.
ReceivePersists ==
  /\ ReceiveIn("persist")
  /\ \E descriptor \in {"metadata", "blocked"} :
     LET m == Receiving  repair == ops["receive"].val
         known == ~repair /\ (ram[m] # "absent" \/ db.rows[m] # "absent")
         put == PutMessage(db, m, IF repair /\ db.rows[m] # "absent" THEN db.rows[m]
                                  ELSE "delivered")
         attached(d) == IF m \notin image \/ m \in Mine \/ d.rows[m] = "absent" THEN d
                        ELSE [d EXCEPT !.att[m] = IF @ = "none" \/ descriptor = "blocked"
                                                  THEN descriptor ELSE @]
     IN /\ db' = IF ~Retained(m) THEN db
                 ELSE IF known THEN attached(db)
                 ELSE IF repair THEN put ELSE attached(put)
        /\ IF known \/ ~Retained(m) THEN End("receive") ELSE Go("receive", "publish")
  /\ UNCHANGED <<world, ram, chat, faults, notes>>

\* The failure is reported to the queue; a replay tries again.
ReceiveFails ==
  /\ Fault
  /\ ReceiveIn("persist")
  /\ End("receive")
  /\ UNCHANGED <<world, db, ram, chat, notes>>

\* A repaired row does not count for the preview.
ReceivePublishes ==
  /\ ReceiveIn("publish")
  /\ ram' = [ram EXCEPT ![Receiving] = "delivered"]
  /\ chat' = IF ops["receive"].val THEN chat ELSE Follow(chat, Receiving)
  /\ End("receive")
  /\ UNCHANGED <<world, db, faults, notes>>
-----------------------------------------------------------------------------
(* Deletion and retention *)

\* deleteLocalMessage: the user, or XMTP's deletion stream.
RemoveBegins(m) ==
  /\ m \in Stored(db)
  /\ LET left == DeleteMessages(db, {m}) IN
     /\ db' = left
     /\ Begin("remove", "apply", None, [ids |-> {m}, conv |-> left.conv])
  /\ dropped' = dropped \cup {m}
  /\ UNCHANGED <<world, ram, chat, faults, cut, lost>>

RemoveApplies ==
  /\ In("remove", "apply")
  /\ Apply(ops["remove"].val.ids, ops["remove"].val.conv)
  /\ End("remove")
  /\ UNCHANGED <<world, db, faults, notes>>

\* Time that matters: the retention passes a message.
TimePasses ==
  /\ "sweep" \in kinds /\ cutoff < clock
  /\ cutoff' = cutoff + 1
  /\ UNCHANGED <<clock, sentAt, kinds, image, group, db, ram, chat, ops, faults, notes>>

\* pruneMessages reads what is older than the cutoff of the moment ...
SweepBegins ==
  /\ Begin("sweep", "delete", cutoff, {i \in Stored(db) : ~Retained(i)})
  /\ UNCHANGED <<world, db, ram, chat, faults, notes>>

\* ... deletes it in one transaction ...
SweepDeletes ==
  /\ In("sweep", "delete")
  /\ LET old == ops["sweep"].val  gone == old \cap Stored(db)
         left == DeleteMessages(db, old) IN
     /\ db' = left
     /\ ops' = [ops EXCEPT !["sweep"].at = "orphans",
          !["sweep"].val = [ids |-> gone, conv |-> IF gone = {} THEN None ELSE left.conv]]
     /\ dropped' = dropped \cup gone
  /\ UNCHANGED <<world, ram, chat, faults, cut, lost>>

SweepDropsOrphans ==
  /\ In("sweep", "orphans")
  /\ db' = DropOrphans(db)
  /\ Go("sweep", "apply")
  /\ UNCHANGED <<world, ram, chat, faults, notes>>

\* Mutant: only what the database had is taken off the screen.
SweepAppliesResult ==
  /\ In("sweep", "apply")
  /\ Apply(ops["sweep"].val.ids, ops["sweep"].val.conv)
  /\ End("sweep")
  /\ UNCHANGED <<world, db, faults, notes>>

\* ... and takes the rows, and whatever else is too old, off the screen.
SweepApplies ==
  /\ In("sweep", "apply")
  /\ Apply(ops["sweep"].val.ids \cup {i \in Ids : sentAt[i] <= ops["sweep"].msg},
           ops["sweep"].val.conv)
  /\ End("sweep")
  /\ UNCHANGED <<world, db, faults, notes>>
-----------------------------------------------------------------------------
(* Loading, conversation sync, hiding, creating, edits *)

LoadBegins ==
  /\ Begin("load", "set", None, [i \in Ids |-> IF Retained(i) THEN db.rows[i] ELSE "absent"])
  /\ UNCHANGED <<world, db, ram, chat, faults, notes>>

\* setMessages replaces what the screen had.
LoadSets ==
  /\ In("load", "set")
  /\ ram' = ops["load"].val
  /\ End("load")
  /\ UNCHANGED <<world, db, chat, faults, notes>>

\* syncConversationsInternal: the row is read before the network is asked.
SyncBegins ==
  /\ Begin("sync", "network", None, db.conv)
  /\ UNCHANGED <<world, db, ram, chat, faults, notes>>

\* A missing row is created, a group's is rewritten, a known DM's is left.
SyncWrites ==
  /\ In("sync", "network")
  /\ IF ops["sync"].val = None THEN PutConversation(NewConversation(None))
     ELSE IF group THEN PutConversation(ops["sync"].val)
     ELSE UNCHANGED <<db, lost>>
  /\ Go("sync", "list")
  /\ UNCHANGED <<world, ram, chat, faults, dropped, cut>>

SyncLists ==
  /\ In("sync", "list")
  /\ ops' = [ops EXCEPT !["sync"].at = "set", !["sync"].val = db.conv]
  /\ UNCHANGED <<world, db, ram, chat, faults, notes>>

SyncSets ==
  /\ In("sync", "set")
  /\ chat' = ops["sync"].val
  /\ End("sync")
  /\ UNCHANGED <<world, db, ram, faults, notes>>

\* hideConversation: the tombstone is written before anything is deleted.
HideBegins ==
  /\ Begin("hide", "delete", None, db.conv)
  /\ db' = [db EXCEPT !.tomb = TRUE]
  /\ UNCHANGED <<world, ram, chat, faults, notes>>

\* deleteConversation, then vacuum.
HideDeletes ==
  /\ In("hide", "delete")
  /\ IF ops["hide"].val = None THEN End("hide") /\ UNCHANGED <<db, dropped>>
     ELSE /\ db' = [db EXCEPT !.conv = None, !.rows = NoRows, !.att = NoAttachments]
          /\ dropped' = dropped \cup Stored(db)
          /\ Go("hide", "leave")
  /\ UNCHANGED <<world, ram, chat, faults, cut, lost>>

\* The messages stay in the message store.
HideLeaves ==
  /\ In("hide", "leave")
  /\ chat' = None
  /\ End("hide")
  /\ UNCHANGED <<world, db, ram, faults, notes>>

\* createConversation of one that is not stored.
CreateBegins ==
  /\ db.conv = None
  /\ Begin("create", "network", None, None)
  /\ UNCHANGED <<world, db, ram, chat, faults, notes>>

CreateStores ==
  /\ In("create", "network")
  /\ db' = [db EXCEPT !.conv = NewConversation(None), !.tomb = FALSE]
  /\ lost' = (lost \/ Stored(db) # {})
  /\ chat' = NewConversation(None)
  /\ End("create")
  /\ UNCHANGED <<world, ram, faults, dropped, cut>>

\* Pin, archive, mute, profile and group details: read, change, write back.
EditBegins ==
  /\ db.conv # None
  /\ Begin("edit", "write", None, db.conv)
  /\ UNCHANGED <<world, db, ram, chat, faults, notes>>

\* updateConversationAndPersist puts the whole row on the screen as well.
EditWrites ==
  /\ In("edit", "write")
  /\ PutConversation(ops["edit"].val)
  /\ chat' \in {chat} \cup (IF chat = None THEN {} ELSE {ops["edit"].val})
  /\ End("edit")
  /\ UNCHANGED <<world, ram, faults, dropped, cut>>
-----------------------------------------------------------------------------
(* Downloads of received images *)

Downloaded == {i \in Messages : db.att[i] = "cached"}

DownloadBegins(m) ==
  /\ m \in Theirs /\ db.att[m] \in {"metadata", "failed"}
  /\ Begin("download", "fetch", m, None)
  /\ UNCHANGED <<world, db, ram, chat, faults, notes>>

\* Mutant: the bytes are stored without another look at the metadata.
DownloadStoresBlindly ==
  /\ In("download", "fetch")
  /\ db' = [db EXCEPT !.att[ops["download"].msg] = "cached"]
  /\ End("download")
  /\ UNCHANGED <<world, ram, chat, faults, notes>>

\* cacheRemoteAttachment: the attachment must still be there and not blocked;
\* others are evicted, the least recently used first, until it fits.
DownloadStores ==
  /\ In("download", "fetch")
  /\ LET m == ops["download"].msg IN
     /\ db.att[m] \notin {"none", "blocked"}
     /\ \E victims \in SUBSET (Downloaded \ {m}) :
          /\ Cardinality(Downloaded \ (victims \cup {m})) < CacheLimit
          /\ \A fewer \in SUBSET victims \ {victims} :
               Cardinality(Downloaded \ (fewer \cup {m})) >= CacheLimit
          /\ db' = [db EXCEPT !.att = [i \in Ids |->
               IF i = m THEN "cached" ELSE IF i \in victims THEN "metadata" ELSE @[i]]]
  /\ End("download")
  /\ UNCHANGED <<world, ram, chat, faults, notes>>

\* The fetch or the store failed; markAttachmentFailed looks again too.
DownloadFails ==
  /\ In("download", "fetch")
  /\ db' = [db EXCEPT !.att[ops["download"].msg] =
              IF @ \in {"none", "blocked"} THEN @ ELSE "failed"]
  /\ End("download")
  /\ UNCHANGED <<world, ram, chat, faults, notes>>

\* The page reloads: the screen starts from the database.
Reload ==
  /\ Running # {} /\ Fault
  /\ ram' = NoRows /\ chat' = db.conv
  /\ ops' = [n \in Operations |-> Idle]
  /\ cut' = IF "send" \in Running THEN cut \cup {Sending} ELSE cut
  /\ UNCHANGED <<world, db, dropped, lost>>
-----------------------------------------------------------------------------
SendStep ==
  \/ SendStores \/ SendAttaches \/ SendStoreFails \/ Published \/ SendSucceeds
  \/ SendDeletesLocal \/ SendPutsFinal \/ SendReconciles \/ SendReconcileFails
  \/ SendFails \/ SendBookkeepingFails \/ SendMarksFailed \/ SendEnds
ReceiveStep ==
  \/ ReceiveFindsDuplicate \/ ReceiveLooksUp \/ ReceiveFindsConversation
  \/ ReceivePersists \/ ReceiveFails \/ ReceivePublishes
SweepStep == SweepDeletes \/ SweepDropsOrphans \/ SweepApplies
OtherStep ==
  \/ RemoveApplies \/ LoadSets \/ SyncWrites \/ SyncLists \/ SyncSets
  \/ HideDeletes \/ HideLeaves \/ CreateStores \/ EditWrites
  \/ DownloadStores \/ DownloadFails

Next ==
  \/ \E m \in Mine : SendBegins(m)
  \/ \E m \in Messages : TheySend(m) \/ ReceiveBegins(m) \/ DownloadBegins(m)
  \/ \E i \in Ids : RemoveBegins(i)
  \/ TimePasses \/ SweepBegins \/ LoadBegins \/ SyncBegins \/ HideBegins
  \/ CreateBegins \/ EditBegins \/ Reload
  \/ SendStep \/ ReceiveStep \/ SweepStep \/ OtherStep

Spec == Init /\ [][Next]_vars

\* Operations go on, their awaits have deadlines; a sweep runs every hour and
\* when a tab becomes visible, and the tab is not reloaded for ever.
FairSpec ==
  /\ Spec
  /\ WF_vars(SendStep) /\ WF_vars(ReceiveStep) /\ WF_vars(OtherStep)
  /\ SF_vars(SweepBegins) /\ SF_vars(SweepDeletes) /\ SF_vars(SweepDropsOrphans)
  /\ SF_vars(SweepApplies)
-----------------------------------------------------------------------------
(* Properties *)

Rows == {"absent", "pending", "failed", "sent", "delivered"}
ConversationRows == [last : Ids \cup {None}] \cup {None}

TypeOK ==
  /\ clock \in 0..MaxClock /\ cutoff \in 0..clock
  /\ sentAt \in [Ids -> 0..clock]
  /\ kinds \in Scenarios /\ image \subseteq Messages /\ group \in BOOLEAN
  /\ ram \in [Ids -> Rows] /\ db.rows \in [Ids -> Rows] /\ db.conv \in ConversationRows /\ db.tomb \in BOOLEAN
  /\ db.att \in [Ids -> {"none", "metadata", "cached", "failed", "blocked"}]
  /\ chat \in ConversationRows
  /\ \A m \in Mine : {ram[Local(m)], db.rows[Local(m)]} \cap {"sent", "delivered"} = {}
  /\ \A i \in Stored(db) : sentAt[i] > 0  \* no row before its message exists
  /\ faults \in 0..MaxFaults
  /\ dropped \subseteq Ids /\ cut \subseteq Mine /\ lost \in BOOLEAN

\* "Persist before publishing to memory": a received message on the screen is
\* in the database, or was removed from it on purpose; a failed write never
\* leaves a copy that would suppress every later replay.
ScreenIsBacked ==
  \A m \in Theirs : ram[m] # "absent" => db.rows[m] # "absent" \/ m \in dropped

\* A send that went through leaves one row, whatever its echo, a replay, a
\* sweep or a deletion did meanwhile: no optimistic twin stays and, unless it
\* was removed on purpose, the message is not lost.
SettledSendHasOneRow ==
  \A m \in Mine :
    sentAt[m] > 0 /\ m \notin cut /\ ~("send" \in Running /\ Sending = m) =>
      /\ db.rows[Local(m)] = "absent"
      /\ db.rows[m] # "absent" \/ m \in dropped \/ ~Retained(m)

\* "Keep the message row and its conversation preview atomic"; a deletion
\* repairs the preview "so deleted plaintext cannot survive in chat-list
\* metadata": the stored preview is the newest stored message, as long as no
\* whole-row write put back what it had read before (pin, sync, profiles).
PreviewIsNewest == ~lost /\ db.conv # None => db.conv.last = Newest(Stored(db))

\* "preventing in-flight downloads from resurrecting deleted or newly blocked
\* attachment rows": attachment rows of received messages have their message.
AttachmentsHaveMessages ==
  \A m \in Theirs : db.att[m] # "none" => db.rows[m] # "absent"

\* Every expired row leaves the database and the screen for good.
RetentionCatchesUp ==
  \A i \in Ids : (i \in Stored(db) \/ ram[i] # "absent") /\ ~Retained(i)
                   ~> db.rows[i] = "absent" /\ ram[i] = "absent"
=============================================================================
