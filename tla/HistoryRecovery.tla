-------------------------- MODULE HistoryRecovery ---------------------------
(***************************************************************************)
(* How retained XMTP history is replayed into the app's own database, and  *)
(* when a conversation's checkpoint may move (src/src/lib/xmtp/client.ts:  *)
(* scheduleInboxRecovery, syncHistory, syncInbox, activation's replay and  *)
(* the legacy-repair marker), on top of the bridge of MessageIngestion.    *)
(*                                                                         *)
(* One inbox is connected throughout.  A recovery runs in the lifecycle    *)
(* queue, so there is one at a time; live delivery, Layouts coming and     *)
(* going, reloads and the clock run beside it.  An awaited ingestion is    *)
(* the number of works on the tail up to the one waited for.               *)
(***************************************************************************)
EXTENDS MessageIngestion, FiniteSets

CONSTANTS
  Conversations, ConvOf,  \* the conversations, and each message's
  NoConversation,
  Lookback,      \* lookbackMs: how far before its checkpoint a replay reads
  MaxClock,      \* bound on the clock
  PageFreezes    \* may a page sleep for Lookback or more inside a recovery

ASSUME RecoveryAssumption ==
  /\ IsFiniteSet(Messages)
  /\ ConvOf \in [Messages -> Conversations] /\ NoConversation \notin Conversations
  /\ Lookback \in Nat \ {0} /\ MaxClock \in Nat /\ Lookback < MaxClock
  /\ PageFreezes \in BOOLEAN

VARIABLES
  clock,
  sentAt,         \* when the network accepted a message, 0 before
  device,         \* the messages in the inbox's XMTP database
  checkpoint,     \* lastSyncedAt of the stored conversations, 0 for none
  marker,         \* localStorage: the retained-history repair is complete
  repairPending,  \* legacyHistoryRepairPending
  recovery        \* the recovery in progress

Phases == {"idle", "next", "sync", "fetch", "replay", "stamp", "finish"}
Modes  == {"full", "recent", "repair"}

\* At rest.  behind: the works awaited.  The last four fields are what a
\* recovery remembers from its beginning, and when it synced a conversation.
Idle == [phase |-> "idle", mode |-> "full", conv |-> NoConversation, todo |-> {},
         queue |-> <<>>, synced |-> FALSE, behind |-> 0, failed |-> FALSE,
         generation |-> 0, failures |-> 0, begunAt |-> 0, syncedAt |-> 0]

history == <<clock, sentAt, device, checkpoint, marker, repairPending>>
allVars == <<vars, history, recovery>>

Present == stored[namespace]
Sent(m) == sentAt[m] > 0
Minus(a, b) == IF a > b THEN a - b ELSE 0

\* An installation of an older build: any checkpoints, messages not stored.
RecoveryInit ==
  /\ Init
  /\ clock = Lookback + 1
  /\ sentAt \in [Messages -> {0, 1}]
  /\ device = {}
  /\ checkpoint \in [Conversations -> {0, clock}]
  /\ marker = FALSE /\ repairPending = TRUE
  /\ recovery = Idle
-----------------------------------------------------------------------------
(* The network, the clock and the page around a recovery *)

NetworkAccepts(m) ==
  /\ ~Sent(m)
  /\ sentAt' = [sentAt EXCEPT ![m] = clock]
  /\ UNCHANGED <<vars, clock, device, checkpoint, marker, repairPending, recovery>>

\* The recovery has synced its conversation and not yet stamped it.
Syncing == recovery.phase \in {"fetch", "replay", "stamp"}

Tick ==
  /\ clock < MaxClock
  /\ ~PageFreezes /\ Syncing => clock + 1 < recovery.syncedAt + Lookback
  /\ clock' = clock + 1
  /\ UNCHANGED <<vars, sentAt, device, checkpoint, marker, repairPending, recovery>>

\* The live stream stores a message in the XMTP database and dispatches it.
LiveDelivery(m) ==
  /\ Sent(m)
  /\ Decode(m)
  /\ device' = device \cup {m}
  /\ UNCHANGED <<clock, sentAt, checkpoint, marker, repairPending, recovery>>

LayoutComesOrGoes(l) ==
  /\ Mount(l) \/ Unmount(l)
  /\ UNCHANGED <<history, recovery>>

HandlerStarts ==
  /\ StartHandling
  /\ UNCHANGED <<history, recovery>>

\* The end of the loop body: r goes on to the next conversation.
Leave(r) == [r EXCEPT !.phase = "next", !.conv = NoConversation, !.queue = <<>>,
                      !.synced = FALSE, !.syncedAt = 0]

\* ingestDecodedMessage turns the rejection of its own work into an error
\* that abandons the conversation; awaitXmtpMessageIngestion rejects never.
Settles(ok) ==
  LET own     == recovery.phase = "replay" /\ recovery.behind = 1
      settled == [recovery EXCEPT !.behind = Minus(@, 1)]
  IN  recovery' = IF own /\ ~ok THEN [Leave(settled) EXCEPT !.failed = TRUE]
                  ELSE settled

HandlerEnds ==
  /\ \/ HandlerStores /\ Settles(TRUE)
     \/ HandlerFails /\ Settles(FALSE)
  /\ UNCHANGED history

PageReloads ==
  /\ Reload
  /\ repairPending' = ~marker
  /\ recovery' = Idle
  /\ UNCHANGED <<clock, sentAt, device, checkpoint, marker>>
-----------------------------------------------------------------------------
(* A recovery *)

\* Activation and syncInbox replay in full, activation in recent mode when no
\* repair is pending; scheduleInboxRecovery repairs, replays recent history,
\* or returns when a repair is pending and nobody can persist it.  Recent
\* replays may be aimed at the conversations a stream announced.
Begin(mode) ==
  /\ recovery.phase = "idle"
  /\ mode = "recent" => ~repairPending
  /\ mode = "repair" => repairPending /\ consumer # NoLayout
  /\ \E targets \in {Conversations} \cup
                    (IF mode = "recent" THEN SUBSET Conversations \ {{}} ELSE {}) :
       recovery' = [Idle EXCEPT !.phase = "next", !.mode = mode, !.todo = targets,
                                !.generation = generation,
                                !.failures = failures, !.begunAt = clock]
  /\ UNCHANGED <<vars, history>>

NextConversation(c) ==
  /\ recovery.phase = "next" /\ c \in recovery.todo
  /\ recovery' = [recovery EXCEPT !.phase = "sync", !.conv = c,
                                  !.todo = @ \ {c}]
  /\ UNCHANGED <<vars, history>>

SyncSucceeds ==
  /\ recovery.phase = "sync"
  /\ device' = device \cup {m \in Messages : Sent(m) /\ ConvOf[m] = recovery.conv}
  /\ recovery' = [recovery EXCEPT !.phase = "fetch", !.synced = TRUE,
                                  !.syncedAt = clock]
  /\ UNCHANGED <<vars, clock, sentAt, checkpoint, marker, repairPending>>

\* Cooldown, timeout, partial success: what the database holds by then is
\* replayed without a checkpoint, and a strict recovery has failed.
SyncFails ==
  /\ recovery.phase = "sync"
  /\ \E got \in SUBSET {m \in Messages : Sent(m) /\ ConvOf[m] = recovery.conv} :
       device' = device \cup got
  /\ recovery' = [recovery EXCEPT !.phase = "fetch", !.synced = FALSE,
                                  !.syncedAt = clock, !.failed = TRUE]
  /\ UNCHANGED <<vars, clock, sentAt, checkpoint, marker, repairPending>>

\* Mutant: a recent replay reads from the checkpoint on, without overlap.
InWindowWithoutOverlap(m) ==
  LET baseline == checkpoint[recovery.conv] IN
  recovery.mode = "recent" => sentAt[m] > baseline

\* sentAfterNs: in recent mode a conversation with a checkpoint is read from
\* Lookback before it.
InWindow(m) ==
  LET baseline == checkpoint[recovery.conv] IN
  recovery.mode = "recent" /\ baseline > 0 =>
    sentAt[m] > Minus(baseline, Lookback)

\* Oldest first; the sort compares sentAtNs alone.
FetchMessages ==
  LET window == {m \in device : ConvOf[m] = recovery.conv /\ InWindow(m)} IN
  /\ recovery.phase = "fetch"
  /\ \E q \in [1 .. Cardinality(window) -> window] :
       /\ ToSet(q) = window
       /\ \A i, j \in DOMAIN q : i < j => sentAt[q[i]] <= sentAt[q[j]]
       /\ recovery' = [recovery EXCEPT !.phase = "replay", !.queue = q]
  /\ UNCHANGED <<vars, history>>

\* messages() timed out or a read of the app's database failed; a strict
\* recovery also gives up a conversation whose sync failed.
FetchFails ==
  /\ recovery.phase = "fetch"
  /\ recovery' = [Leave(recovery) EXCEPT !.failed = TRUE]
  /\ UNCHANGED <<vars, history>>

\* With a consumer the replay awaits the message's own work; without one the
\* dispatch resolves as soon as the message is buffered.
ReplayMessage ==
  /\ recovery.phase = "replay" /\ recovery.queue # <<>> /\ recovery.behind = 0
  /\ PendingCount < MaxPending
  /\ Dispatch(Head(recovery.queue))
  /\ recovery' = [recovery EXCEPT
                    !.queue = Tail(@),
                    !.behind = IF consumer # NoLayout THEN Len(tail') ELSE 0]
  /\ UNCHANGED <<consumer, mounted, handling, failures, generation, session,
                 stored, handled, history>>

\* Mutant: a checkpoint after a failed sync.
ReplayEndsUnsynced ==
  /\ recovery.phase = "replay" /\ recovery.queue = <<>> /\ recovery.behind = 0
  /\ recovery' = IF consumer # NoLayout
                 THEN [recovery EXCEPT !.phase = "stamp", !.behind = Len(tail)]
                 ELSE Leave(recovery)
  /\ UNCHANGED <<vars, history>>

\* The window is replayed.  A checkpoint needs a sync that succeeded and
\* consumers that are registered now; it waits for the whole tail.
ReplayEnds ==
  /\ recovery.phase = "replay" /\ recovery.queue = <<>> /\ recovery.behind = 0
  /\ recovery' = IF recovery.synced /\ consumer # NoLayout
                 THEN [recovery EXCEPT !.phase = "stamp", !.behind = Len(tail)]
                 ELSE Leave(recovery)
  /\ UNCHANGED <<vars, history>>

\* updateConversationSyncState(id, Date.now())
StampCheckpoint ==
  /\ recovery.phase = "stamp" /\ recovery.behind = 0
  /\ checkpoint' = [checkpoint EXCEPT ![recovery.conv] = clock]
  /\ recovery' = Leave(recovery)
  /\ UNCHANGED <<vars, clock, sentAt, device, marker, repairPending>>

\* Listing the conversations failed: the rest are not visited.
ListingFails ==
  /\ recovery.phase = "next" /\ recovery.todo # {}
  /\ recovery' = [recovery EXCEPT !.phase = "finish", !.todo = {},
                                  !.failed = TRUE, !.behind = Len(tail)]
  /\ UNCHANGED <<vars, history>>

AllVisited ==
  /\ recovery.phase = "next" /\ recovery.todo = {}
  /\ recovery' = [recovery EXCEPT !.phase = "finish", !.behind = Len(tail)]
  /\ UNCHANGED <<vars, history>>

\* Mutant: only the network work decides.
RepairHeldByNetwork == ~recovery.failed

\* What a repair checks before it is complete.
RepairHeld ==
  /\ ~recovery.failed
  /\ consumer # NoLayout
  /\ generation = recovery.generation
  /\ failures = recovery.failures

\* Mutant: the repair stays pending in memory.
FinishStillPending ==
  /\ recovery.phase = "finish" /\ recovery.behind = 0
  /\ marker' = (marker \/ (recovery.mode = "repair" /\ RepairHeld))
  /\ recovery' = Idle
  /\ UNCHANGED <<vars, clock, sentAt, device, checkpoint, repairPending>>

Finish ==
  /\ recovery.phase = "finish" /\ recovery.behind = 0
  /\ IF recovery.mode = "repair" /\ RepairHeld
     THEN marker' = TRUE /\ repairPending' = FALSE
     ELSE UNCHANGED <<marker, repairPending>>
  /\ recovery' = Idle
  /\ UNCHANGED <<vars, clock, sentAt, device, checkpoint>>
-----------------------------------------------------------------------------
RecoveryStep ==
  \/ \E c \in Conversations : NextConversation(c)
  \/ SyncFails \/ FetchMessages \/ ReplayMessage \/ ReplayEnds
  \/ StampCheckpoint \/ AllVisited \/ Finish

RecoveryNext ==
  \/ \E m \in Messages : NetworkAccepts(m) \/ LiveDelivery(m)
  \/ Tick
  \/ \E l \in Layouts : LayoutComesOrGoes(l)
  \/ HandlerStarts \/ HandlerEnds \/ PageReloads
  \/ \E mode \in Modes : Begin(mode)
  \/ RecoveryStep \/ SyncSucceeds \/ FetchFails \/ ListingFails

RecoverySpec == RecoveryInit /\ [][RecoveryNext]_allVars

\* The discovery timer asks for a recovery again and again, its awaits have
\* deadlines, handlers end, and a network and an SDK database that are asked
\* again and again list, sync and read a conversation in the end.
FairRecoverySpec ==
  /\ RecoverySpec
  /\ WF_allVars(HandlerStarts \/ HandlerEnds)
  /\ WF_allVars(RecoveryStep \/ SyncSucceeds)
  /\ WF_allVars(Begin("recent") \/ Begin("repair"))
  /\ \A c \in Conversations :
       /\ SF_allVars(NextConversation(c))
       /\ SF_allVars(recovery.conv = c /\ SyncSucceeds)
       /\ SF_allVars(recovery.conv = c /\ FetchMessages)
-----------------------------------------------------------------------------
(* Properties *)

RecoveryTypeOK ==
  /\ TypeOK
  /\ clock \in 0..MaxClock /\ sentAt \in [Messages -> 0..clock]
  /\ device \subseteq {m \in Messages : Sent(m)}
  /\ checkpoint \in [Conversations -> 0..clock]
  /\ marker \in BOOLEAN /\ repairPending = ~marker
  /\ recovery.phase \in Phases /\ recovery.mode \in Modes
  /\ recovery.behind \in 0..Len(tail)
  /\ recovery.phase \in {"idle", "next"} => recovery.behind = 0

Reread(m) ==
  \/ checkpoint[ConvOf[m]] = 0
  \/ sentAt[m] > Minus(checkpoint[ConvOf[m]], Lookback)

\* client.ts: a replay window "cannot strand a gap".  Once the retained
\* history was repaired, a message that is not in the app's database is still
\* inside the window the next recent replay of its conversation reads.
NoStrandedGap ==
  marker => \A m \in Messages : Sent(m) /\ m \notin Present => Reread(m)

\* The same of every message that no handler has had in hand: with buffering,
\* reloads, failed syncs and failing handlers, a gap nobody knows of is never
\* left behind a checkpoint.
NoUnseenGap ==
  marker => \A m \in Messages : Sent(m) /\ m \notin Present \cup handled => Reread(m)

\* The repair marker is written only if everything sent before the repair
\* began is in the app's database, whatever Layouts, handlers and the network
\* did meanwhile.
MarkerIsHonest ==
  [][marker' /\ ~marker =>
       \A m \in Messages : sentAt[m] \in 1..(recovery.begunAt - 1) => m \in Present]_allVars

\* With a Layout that stays, every message the network accepted comes to its
\* handler, even if the live stream never delivers it and handlers fail.
CatchesUp ==
  <>[](consumer # NoLayout) =>
    \A m \in Messages : Sent(m) ~> m \in Present \cup handled
=============================================================================
