# Converge: TLA+ verification

TLA+ models, TLC runs and TLAPS proofs for the Converge messenger (the
TypeScript app under `src/src`, with its service worker in `src/public`).
Converge is a browser app: it keeps one XMTP installation per inbox in an OPFS
database owned by an SDK worker, mirrors decoded history into its own
per-inbox IndexedDB ("namespace"), and renders from there. What is hard about
it is not computation but ownership and order: several tabs, workers that may
never close, a React tree that mounts and unmounts while streams deliver, an
identity that changes under running handlers, calls that outlive the caller
who gave up on them, rows read before an await and written back after it, and
two copies of everything (IndexedDB and the stores the screen shows).

## Contents

| File | Role |
| --- | --- |
| `InboxDatabase.tla` | Who has an inbox's OPFS database open: connect, disconnect, repair, provisioning and migration in several tabs |
| `InboxDatabaseProofs.tla` | Its inductive invariant and five theorems |
| `EventQueue.tla` | Abstract: what the ingestion bridge promises, one queue |
| `MessageIngestion.tla` | The ingestion bridge, its consumer, and the session and namespace that handlers consult |
| `HistoryRecovery.tla` | History replay, checkpoints and the retained-history repair, on top of `MessageIngestion` |
| `HistoryRecoveryProofs.tla` | The bridge: its inductive invariant, the order of side effects, the refinement of `EventQueue`; and on top of it recovery: unseen gaps, the honest marker |
| `ClientSession.tla` | One tab's client: its three streams, recovery passes and history requests |
| `ClientSessionProofs.tla` | Its inductive invariant: consumer loops and spaced history requests |
| `MessageStore.tla` | One conversation in IndexedDB and in the stores: send, receive, delete, sweep, load, sync, hide, edit, download |
| `MessageStoreProofs.tla` | Its inductive invariant: database and screen, sends, previews, attachments |
| `InstallationRepair.tla` | Registration, repair, provisioning and removal of installations, with the journal and a lagging ledger |
| `InboxLifecycle.tla` | Create, restore, boot, switch, burn and clear the inboxes of one browser |
| `InboxesProofs.tla` | The inductive invariants of these two: one candidate, a predecessor that outlives it, durable success; no stranded inbox, truthful burns |
| `PushSubscription.tla` | Web Push registrations: subscription, rows, relay routes and the mutation queue |
| `ConvosGroups.tla` | One group: published names, invite tags, join requests, members and admins |
| `ConvosGroupsProofs.tla` | Its inductive invariant: claims about names, tags of invites |
| `Contacts.tla` | The address book and the calls that write it |
| `AttachmentDownloads.tla` | Loading received images: slots, consent, preference syncs |
| `SharedCalls.tla` | Single-flight syncs with deadlines and retries, and the profile shared before a send |
| `Reactions.tla` | The reactions of one message: tap, handler, loads and overlapping replays |
| `MessageBubblesProofs.tla` | The inductive invariants of the two things a message bubble shows, images (`AttachmentDownloads`) and reactions (`Reactions`) |
| `IdentityLookups.tla` | One key of `KeyedAsyncCache` with expiry, cooldown and `clear()` |
| `ClientFlights.tla` | The two kinds of call that callers of one client share, side by side: `SingleFlights` |
| `SharedCallsProofs.tla` | Their inductive invariants: one sync per client, live lookups, and flags that only say what was sent |
| `MCInboxes.tla`, `MCConversations.tla` | Compose independent parts for one run each |
| other `MC*.tla`, `*.cfg` | Small instances for TLC |
| `PROJECT.json` | Components, runs, mutants, source map, findings, hazards, theorems |

To check: `tlc -config InboxDatabase_all.cfg MCInboxDatabase` (one line per run
below), and `tlapm M.tla` for each module `M` named `*Proofs`.

## Inventory

Each entry: state, operations, interactions, what is hard, what makes it correct.

1. **XMTP client lifecycle and database ownership** (`lib/xmtp/client.ts`
   525-660, 4406-5430, 5437-5800, 5898-6100).
   State: `client`, `retainedInstallationRepairClient`, `databaseLockRelease`,
   `databaseClosePending`, `lifecycleTail`.
   Operations: `connect`, `disconnect`, `repairInstallation`,
   `provisionExternalWalletDevice`, `migrateDeviceJoinIdentity`, all through
   `enqueueLifecycle`.
   Interacts with the SDK worker (create, build, close), the browser's Web
   Locks and other tabs.
   Hard: a close that passes its five second deadline and settles later; a
   database probed, closed and swapped for another; failures at every await.
   Correct: two tabs never use a database that both opened under the lock; no
   open worker is forgotten; a tab uses one worker; operations end.
2. **Installation registration, repair journal, provisioning**
   (`client-registration.ts`, `installation-repair.ts`,
   `installation-recovery.ts`, `device-provisioning.ts`).
   State: the journal in `localStorage`, the network's list of installations.
   Operations: journal, revoke, register, prove durable, resume.
   Hard: a crash between any two of these. Correct: a resumed repair never
   revokes an installation it did not plan to, and never registers a second one.
3. **Ingestion bridge** (`message-events.ts`).
   State: two registered consumers with tokens, two buffers, the promise chain
   `ingestionTail`, a failure count, a consumer generation.
   Operations: dispatch, register (and drain), unregister, await.
   Called by the client's streams and replays; calls Layout's handlers.
   Hard: cleanup of an old Layout after a new one registered; rejected handlers.
   Correct: first in, first out across both buffers; nothing lost; no handler
   blocks the ones behind it.
4. **Application shell and handlers** (`app/Layout.tsx`,
   `features/messages/useMessages.ts`). State: none of its own beyond refs.
   Operations: one handler per event kind. Hard: the owner of an event is
   checked once, several awaits before the write. Correct: an event lands in
   its owner's namespace.
5. **Session and storage namespace** (`features/auth/useAuth.ts`,
   `features/identity/InboxSwitcher.tsx`, `lib/storage/index.ts`). State: the
   identity, the namespace, the cached driver. Operations: add an inbox, fail
   and go back, reload into an inbox, log out. Hard: each is a chain of awaits
   during which the streams and handlers keep running.
6. **History recovery** (`client.ts` 809-1190, 6474-7371). State:
   `lastSyncedAt` per conversation, `legacyHistoryRepairPending`, the
   completion marker in `localStorage`, the SDK's message database. Operations:
   full, recent and repair replays, the discovery timer. Hard: checkpoints are
   written from state read after the fact (who is registered *now*, what time
   it is *now*). Correct: a checkpoint never passes a message that is not
   stored; the marker is only written for a repair that stored everything; a
   message the stream missed arrives in the end.
7. **Streams** (`client.ts`): start-up, generation checks, restart of three SDK
   streams; a stale stream must not deliver into a new session.
8. **Stateful-call single flight and caches** (`client.ts` 1700,
   `lib/utils/keyed-async-cache.ts`): a call that outlived its caller is joined
   by the next; `clear()` during a fetch.
9. **Dexie storage, retention, deletion** (`lib/storage/dexie-driver.ts`):
   tombstones of deleted conversations against late replays; message limits.
10. **Push** (`lib/push`, `public/sw.js`): browser subscription, server record
    and saved state can disagree; enable, disable and inbox switches race.
11. **Burn Inbox and data clearing, inbox registry** (`lib/identity`,
    `lib/stores/inbox-registry-store.ts`): several stores, failures half way.
12. **Convos profiles** (`convos-profile-state.ts`): snapshots and updates in
    any order; the newest wins.
13. **Conversations, groups, sending** (`features/conversations`,
    `features/messages`): optimistic rows and retries of failed sends; hiding
    and deleting; membership changes. Correct: an optimistic row is replaced by
    exactly one stored message.
14. **Convos invites** (`lib/utils/convos-invite.ts`, `InviteClaimPage.tsx`): a
    join request is answered at most once by each approver.
15. **Attachments** (`incoming-attachment.ts`, `remote-attachment.ts`):
    download limits and cache.
16. **Onboarding, wallet connection, keyfiles** (`features/auth`, `lib/wagmi`,
    `lib/keyfile.ts`): a wizard driven by one user with resumable steps.
17. **Contacts and Farcaster, UI stores, vault cryptography, edge worker,
    routing, debug tooling, build scripts**: request/response, rendering or
    pure transformations.

`PROJECT.json` lists the status of each, and under `hazards` what can go wrong
where, with the properties that watch it.

## Modules and how they correspond to the code

Common conventions. One action is the stretch of code between two awaits that
matter; what a call has read before an await is kept in its record (`copy`,
`held`, `val`) and written after it. A Dexie transaction is one step. A failed
call is a choice of its own, capped by `MaxFaults`. A counter of the code that
is only ever compared with a captured value is modelled by the answer (`fresh`,
`stale`). Variables under "history" are not in the code: they record what
happened, so that a property can say which behaviours it leaves out, and each
is explained where it is declared.

### InboxDatabase

`op[t]` is the lifecycle operation a tab is executing and the await at which it
is suspended; `enqueueLifecycle` makes it at most one per tab. The other
variables are fields of `XmtpClient` of the same meaning: `client`, `retained`
(`retainedInstallationRepairClient`), `closePending` (`databaseClosePending`,
identified by the worker whose close it is), `lock` (`databaseLockRelease`).
`candidate` is the local variable of the running operation that holds a fresh
worker. `abandoned` are the workers whose `close()` is still outstanding after
its deadline; `db` is external: which inbox each SDK worker has open, for which
tab, and whether it was opened under the Web Lock (`guarded`).

Each `...Settles`/`...TimesOut` pair is one bounded close, `AcquireLock` and
`ConnectFailsWithoutClient` are the lock request and the catch block,
`TryOtherDatabase`/`SwapCloseSettles` the loop over the reconnect plan. A
legacy-address identity without a saved inbox ID never asks for the lock
(`SkipLock`). Late closes and reloads happen at any time. `Reload` is enabled
whenever the tab has a worker open: a reload without one changes nothing that
matters to another tab. Identical consecutive failures are one action.

### EventQueue and MessageIngestion

`EventQueue` is one queue, open while somebody listens; a side effect arrives
behind its target, while nobody listens a message may pass side effects, and
what was taken is handled to the end. Only reactions have a target; system
notes and group updates travel the same way and are left out.

In `MessageIngestion` `tail` is the work chained on `ingestionTail`, the
running one first; `messageBuffer` and `effectBuffer` are the two buffers,
`consumer` is the Layout whose token is registered. Layout registers both
consumers in one synchronous effect, so `Mount` is one action, and so is its
cleanup (`Unmount`), which unregisters only by its own token. A handler is
`StartHandling` (the owner check) followed by `HandlerStores` or
`HandlerFails`, or it is `SkipSuperseded`. `namespace` is the one that
`getStorage()` opens when the write is reached. The actions `BeginAddInbox` to
`RestoreSession` are the awaits of `createIdentity` in order.

The refinement (`BridgeIsAQueue`): `waiting` is `tail` followed by the two
buffers, `open` is "a consumer is registered". Registration, draining, tokens,
cleanup and failures are stutters or single steps of the queue.

An event is a model value with an owner and, for a reaction, a target.

### HistoryRecovery

Extends `MessageIngestion` with one connected inbox (its session actions do not
occur; the reload does), a network (`sentAt`), the SDK's database (`device`),
and one recovery at a time (the lifecycle queue). `recovery.behind` counts the
works on the tail up to the one the replay awaits: a dispatch with a consumer
registered awaits its own work and turns its rejection into an error, a
dispatch into the buffer resolves at once, and
`awaitXmtpMessageIngestion` awaits the whole tail and never rejects. The clock
is compared with `Lookback` (ten minutes in the code) and nothing else, so a
tick is a fraction of it. `SyncFails` is any cooldown, timeout or partial
success; what the database holds by then is replayed all the same.

### ClientSession

`op` is the lifecycle operation at work (connect, reuse, disconnect, recovery)
and its await. For each kind of stream, `promise`, `field` and `task` are the
three members of `XmtpClient` (`messageStreamStartPromise`, `messageStream`,
`messageStreamTask` and their siblings) and `sdk` the streams of the SDK with
their consumer loops: "starting" while the SDK call is out, then waiting,
handling, or ended. A caller gives up after its deadline, the start goes on and
attaches late or is closed as stale. `requests` and `publishing` are the
history request's cooldown map and the `sendSyncRequest()` calls still out.
`gap` is one message that a stream delivers or misses.

### MessageStore

`db` is IndexedDB (rows, attachments, the conversation row, the tombstone),
`ram` and `chat` the message and conversation stores. `ops[n]` is where the one
operation of kind `n` is: `sendMessage`/`sendAttachment` with the optimistic
row and the durable one, `receiveMessage`, `deleteMessage`, the retention
sweep, `loadMessages`, conversation sync, hiding, whole-row edits (pin, mute,
details) and the download of an image into a bounded cache. The clock orders
messages; `cutoff` is the retention cutoff and only grows.

### InstallationRepair

An installation is its key. A key that is not registered exists only in the
worker that drew it. `journal` is the `Identity` in Dexie, `tab[t]` a tab's
copy and phase, `ledger` the network's list, with `landing` and `leaving` the
accepted publications and revocations that have not appeared yet. Actions are
the stages of `repairCurrentInstallation` and `repairInstallation` (stage,
predecessor, capacity, register, prove durable, complete, cleanup), of
`connect` with a saved installation, of provisioning by a wallet, and the two
flows that free a slot.

### InboxLifecycle

An inbox stands for its account key; `key[i]` is its row in IndexedDB: none, a
draft without ids, staged (ids stored, not yet published) or ready. `file` is
its OPFS database, `entries`, `current` and `force` the three localStorage
keys, and together they are what the pages of the `browser` share; every
`page[t]` has its own copy of the registry and rewrites the list from it
(`Upserted`, `Removed`, `Updated`). Two connects may be under way in a page: the
one boot started and the one the user started. A key that a create generates is
in nobody's hands (`Generated`); an attempt it resumes is written back as it was
read (`Planned`, `StoreDraft`). A burn blanks the file only if its page has the
database open (`BurnDisconnect`).

### PushSubscription

`rows` and `prefs` are the IndexedDB stores, `sub` the browser's subscription,
`relay` the routes at vapid.party, `queue`/`run` the mutation queue. An enable
takes the subscription before it joins the queue; disable and removal
supersede what is under way or waiting. `Leave` may fall right after the relay
did what it was asked.

### ConvosGroups

`sentName` and `publisher` are the two maps that make a publication
single-flight per conversation; `groupRow.rev` is the revision the conversation
row records; `appTag`/`descTag` are the two places an invite tag can be,
`invites` the tags handed out, `joinRequest` the one request to join. Every call
is a task of two slots; the copy of the conversation row it holds across an
await is `copy`. `misled` says that the row's revision is not the name published
last: a write of an old copy makes it so, and the next revision recorded
(`RecordRevision`) mends it.

### Contacts

`rows` is IndexedDB, `screen` the store's list (a sequence: duplicates are
possible), one person known by an inbox id and by an address. Calls: load with
normalisation, add, block, unblock, remove, profile merges from messages,
lookups, conversations and the card. A merge that moves a row from the address
to the inbox id deletes the one and puts the other in two transactions; a load
that reads between them (`Moving`), or before a write that lands while it is
under way, has been `overtaken`. A call decides by the list on screen whether a
contact exists. `early` records that a stored contact was entered anew while the
page had completed no load, `doubled` that an entry was appended beside another
one made since the call had looked.

### AttachmentDownloads

`count` and `queue` are the slot semaphore, `request` the shared promise per
attachment, `pending`/`running` the preference sync that a caller may share or
outlive, `bubble` what a message bubble shows and whether it still needs
consent. A client that was closed may answer, fail or never answer.

### SharedCalls

`shareFlight` is the entry of `statefulOperationFlights` for the conversations'
sync, `shareRunning` the operations the workers have been sent (external). A
caller waits, gives up at its deadline (`Deadline`), or retries after a delay
(`Retry`), also after a reconnect (`DisconnectShared`, `ConnectShared`).
`ensureProfileSent` is `ReadFlags`, `Scan`, `Share`, `Record`; `saveProfile` is
`StartSave` and `Broadcast`.

### Reactions

`log` is the order of the network, `arrived` the part of the durable queue that
is about this message, `display` what the screen has. The tap reads the screen,
sends the opposite and then shows it; it writes no row, that is left to the
handler when the event comes back. The handler starts from the screen's value if
the chat is loaded and from the row otherwise, writes the row and then shows it.

Reactions reach the handler from replays only: the backfill that each load of a
chat starts (`due`, at most `MaxOpens`) and the history syncs (at most
`MaxSyncs`). The live stream stores a reaction as a "system" row
(`client.ts:7857`). A replay (`replays`) goes through a window of the log, first
event to last; both kinds may be under way at once, start anywhere (the last 300
messages, a checkpoint) and bring the same event again. It waits for the handler
if a Layout listens, and not if the bridge only buffers. `HandlerFails` is an
exception of the handler, which ends a history sync of the conversation but not a
backfill; `ReplayStops` is a client that changed under a backfill; `SkipEvent` a
target that is not stored or an inbox that is not the active one. `covered` is
the last event any replay has handed over. `doubtful` records what the code
repairs by a later replay at best; it is cleared only when a replay of everything
handed over so far has had the message to itself (`alone`).

### IdentityLookups

`cached` is the entry with its age, `lookFlight` the in-flight map's entry,
`lookRunning` the fetches that are out and the client each one asked. `Landed`
is the `finally` of `get`, which removes the in-flight entry whosever it is.

### MCInboxes and MCConversations

Parts that touch none of each other's state are checked in one run: in each
behaviour the variable `part` says which part takes all steps, the others keep
their initial state. That is the union of separate runs, not their product, and
loses nothing: no action of one part reads a variable of another. `MCInboxes`
extends `InstallationRepair` and `InboxLifecycle`, `MCConversations` extends
`AttachmentDownloads`, `ConvosGroups`, `ClientFlights` and `Reactions`, so that
the properties the runs check are the very definitions the theorems speak of;
their variables have names of their own for that reason. `PushSubscription` and
`Contacts`, about which nothing is proved, are instances.

## Runs

Bounds are in the `.cfg` files and the `MC` modules; each is the smallest at
which the cases named here happen.

| Run | Result | Question and bounds |
| --- | --- | --- |
| `inboxdb_all` | pass | Every lifecycle operation of two tabs on one inbox with three workers, plans of one and of four databases: `LockedUseIsExclusive`, `NoWorkerLeaks`, `OneWorkerInUse`, `OperationsEnd`. |
| `ingestion_bridge` | pass | Two Layouts (an old cleanup after a new mount needs two), two inboxes, a message of each and a reaction to one, one handler failure, two events waiting, three changes of the consumers of a page (an old cleanup after a new mount, a remount without reload; no inbox is being added after the third, `MCNext`): `EffectsFollowTargets`, the refinement `BridgeIsAQueue`, `QueueDrains`. 917,711 states. |
| `recovery_replay` | pass | One conversation with one message, a clock of 3 with a lookback of 1 (a message falls before, inside and after the overlap), one failing handler, failing syncs, a Layout that comes and goes, reloads: `NoUnseenGap`, `MarkerIsHonest`, `CatchesUp`. 137,046 states. |
| `session_streams` | pass | Two clients, two SDK streams of each of three kinds, one fault: `LoopsAreOwned`, `HistoryRequestsPaced`, `StreamsComeBack`, `GapsAreClosed`. 197,433 states. |
| `storage_all` | pass | One message sent and one received, two operations at a time, one failure or reload, a cache of one image: `ScreenIsBacked`, `SettledSendHasOneRow`, `PreviewIsNewest`, `AttachmentsHaveMessages`, `RetentionCatchesUp`. 114,840 states. |
| `inboxes_all` | pass | Repair in two tabs (four keys, a limit of two installations, two faults), the lifecycle of three inboxes in two tabs (three acts and faults together), push with two calls and one fault: `OneCandidate`, `PredecessorOutlivesReplacement`, `SuccessIsDurable`, `NoInboxIsStranded`, `BurnReportsTruth`, `PushReportsAreTrue`. 442,205 states. |
| `conversations_all` | pass | Two group calls, three contact calls, five clients/loads/decisions of three images, three shared calls of two clients, three reaction events (four events, loads and syncs together) under two replays, three fetches: `NameClaimsAreTrue`, `InviteTagsHold`, `ContactsAreKept`, `SlotsAreCounted`, `HostsAreAuthorized`, `SingleFlights`, `SentFlagsAreTrue`, `ReactionsSettle`. 1,165,710 states. |
| `inboxdb_pendingclose` | violation | `PendingCloseIsGuarded`, finding 1. |
| `ingestion_stalework` | violation | `StaleWorkStaysOut`, finding 2. |
| `recovery_swallowed` | violation | `NoStrandedGap`, finding 3. |
| `push_forgotten` | violation | `RoutesAreRemembered`, finding 4. |
| `contacts_unblocked` | violation | `BlockOutlivesMerges`, finding 5. |

Larger instances have been run by hand and passed: the lifecycle with three acts
beside one fault (914k states), push with three calls (325k), groups with three
calls (500k), reactions with three
events and two replays under way together (2.06 million), contacts with four starts (882k), recovery of two
conversations with failures (3.5 million) and of one with lookback 2 and clock 5
(510k), and a send, a receipt and a removal together in `MessageStore` (453k).
The four starts of contacts are what found the load between the two writes of a
merge, named below.

Between them the passing runs take every action. Each property of a passing
run has a mutant of the code (`PROJECT.json`, marked "Mutant" in the modules)
that breaks it.

Deadlock is checked in the runs of `InboxDatabase`, `MessageIngestion` and
`HistoryRecovery`; the others end when their bounded supply of calls is used
up. Symmetry is used where no liveness is checked and no action names the
values (tabs, fresh inboxes, the two slots).

### Fairness

* `InboxDatabase`: a weakly fair step of each running operation, without the
  closes. Timers fire and SDK calls other than `close()` return or are timed
  out; `client-stream-lifecycle.test.ts` shows a close that never settles, so
  neither the unbounded closes nor late closes are fair, nor are requests and
  reloads. `OperationsEnd` hence has exactly the unbounded closes as exceptions.
* `MessageIngestion`: handlers come back; their awaits are IndexedDB
  transactions. Nothing else is fair, so `QueueDrains` is conditional on a
  Layout that stays mounted.
* `HistoryRecovery`: handlers and the running recovery proceed, the discovery
  timer asks again whenever none runs, and a network asked again and again
  lists, syncs and reads each conversation in the end (strong fairness; the
  failure actions stay enabled beside them). Reloads, mounts and new messages
  are not fair.
* `ClientSession`: operations proceed (their awaits have deadlines), an SDK
  start of a kind that is asked for again and again resolves, an ended loop
  handles its last value, the recovery queue and the discovery timer run, and a
  read tried again and again succeeds in the end. Connects are not fair: the
  liveness properties are conditional on a client that stays connected with its
  discovery loop installed (`StaysConnected`).
* `MessageStore`: operations go on; the sweep runs every hour and whenever the
  tab becomes visible, so it and its steps are strongly fair beside reloads.

The other modules state safety only. Repair has dead ends on purpose (the user
is told to contact support), and the rest are calls that end at their awaits.

## Findings

1. **A refused connect releases the lock of a pending close**
   (`inboxdb_pendingclose`, `client.ts:5422`). Disconnect times out and keeps
   the Web Lock for the worker still closing; the next `connect` refuses,
   rightly, because the close is pending, and its catch block releases that
   very lock. `ARCHITECTURE.md:150` says only a late close or teardown does.
2. **A handler writes into the wrong namespace** (`ingestion_stalework`,
   `Layout.tsx:786`): the owner check precedes the awaits after which the
   namespace is looked up; an inbox addition in between redirects the write.
3. **A failed buffered message is passed by a checkpoint**
   (`recovery_swallowed`, `client.ts:6947`): replayed into the buffer, drained
   and failed after a Layout mounted, with nobody awaiting its own result.
   `NoUnseenGap` shows that nothing else gets past a checkpoint.
4. **A burn forgets a route it could not delete** (`push_forgotten`,
   `subscribe.ts:2087`; `FEATURES.md:210` promises a tombstone).
5. **"Add to contacts" undoes a block** (`contacts_unblocked`,
   `contact-store.ts:582`): under the person's address the existing contact is
   looked for before the address is resolved, and the blocked record of the
   same person is replaced. `docs/contacts.md:93` says a block is retained.

### Known limits of the code that the passing runs assume away or name

Database and recovery:

* Closes without a deadline (`client.ts:5332`, 4869, 4975 and the `finally`
  blocks of provisioning and migration) can hold the lifecycle queue for good:
  the `UnboundedCloses` exception of `OperationsEnd`.
* A repair opens an inbox that another tab has open: it asks for the repair
  lock only (`client.ts:4741`). `LockedUseIsExclusive` therefore speaks of
  workers opened under the database lock.
* Provisioning and migration open a worker beside a retained repair client when
  no client is connected; `OneWorkerInUse` leaves those phases out.
* A checkpoint is `Date.now()` after the replay (`client.ts:6948`). A page that
  sleeps for a whole lookback between sync and checkpoint strands messages:
  with `PageFreezes = TRUE` in `HistoryRecovery_replay.cfg` TLC reports
  `NoUnseenGap` violated.
* A connect that throws in `reuse` leaves a client without discovery loop
  (`client.ts:4992`), hence `StaysConnected`.

Rows written back:

* Pin, mute, group details, profile and sync write whole conversation rows read
  before an await (`lost`, `misled`, `late`); `ensureProfileSent` does so too
  (`client.ts:8668`).
* Conversation sync writes the row of every direct message without looking for
  the tombstone of a hidden conversation, which comes back, empty
  (`client.ts:6298`; `docs/storage-schema.md:163`). A hide between the
  tombstone's read and the write leaves rows nobody sees (`Layout.tsx:788`),
  and deleted messages have no tombstone (`dexie-driver.ts:670`).
* A reaction tap shows again what it saw before its send (`useMessages.ts:823`),
  and the next handler writes that; so does a load that read the row before a
  handler wrote it. The live stream never hands a reaction to the handler
  (`client.ts:7857`): others' reactions appear with the next load or sync. An
  event is lost when the handler fails or the message is not stored, and a
  replay that was cut short or overtaken between an add and its removal leaves
  the older value. All are `doubtful` until a replay that nothing disturbs.
* `loadContacts` may show and write back an older list (`overtaken`,
  `rewritten`); moving an address row deletes before it writes, and a load that
  reads in between shows neither.
* Until the first `loadContacts` of a page has completed (and for good if it
  fails) the list is empty, and a message to a stored contact, a new conversation
  or "Add to contacts" replaces the row, a blocked one too, by an unblocked one
  (`contact-store.ts:591`), although `contact-store.ts:374` says the block
  survives reloads and `docs/contacts.md:93` that the decision is retained
  (`early`). An entry appended beside another of the same contact leaves two, of
  which the first is changed and written (`contact-store.ts:369-390`, `doubled`).
* The profiles a group row has learned from messages may be dropped by another
  write of the whole row (`client.ts:2266`); claiming an invite overwrites the
  row of an existing conversation (`useConversations.ts:507`).

Flights and caches:

* `connect`'s catch drops a client without clearing the caches
  (`client.ts:5417`). That client was never activated, as activation catches its
  own failures, so no lookup is under way there and the model has none.
* After a reconnect a retry runs the operation of the client it began with and
  registers it as the new client's flight (`client.ts:1495`, 1708).
* A fetch that outlives `clear()` fills the next client's cache, and its end
  removes a newer in-flight entry (`keyed-async-cache.ts:73-76`). A failure of
  an inbox state is remembered for six hours, as that cache has no negative TTL
  (`client.ts:667`, 1243), and re-dates an expired one.
* An avatar that cannot travel is flagged as sent
  (`client.ts:8641`); two sends at once may both share the profile.
* A preference sync that never answers keeps its download slot until reload.

Inboxes and push:

* `createIdentity` drops attempts it listed as unpublished
  (`new-inbox-resume.ts:53`) although another tab may have staged and published
  one since: its key is lost (`discarded`).
* The answer to the profile lookup stores the identity read before it: a burn
  in between is undone (`useAuth.ts:251`, `late`). Tabs overwrite each other's
  registry entries.
* Wallet provisioning journals nothing before the end: an interrupted attempt
  leaves an installation whose key is lost (`device-provisioning.ts:319`).
* An enable may register a subscription that another call is about to end
  (`contested`, `subscribe.ts:1521`); two tabs are not ordered at all
  (`subscribe.ts:218`).

Groups and contacts:

* The groups of the SDK are taken to have `updateAppData` and
  `updateDescription`: where neither exists the code hands out an invite whose
  tag nobody else sees (`client.ts:3738`).
* A rename to another name and back is skipped by the stored revision
  (`client.ts:8257`, 8079). Two invitations of a group without a tag may lose
  one tag, as the SDK has no compare-and-swap (`crossed`).
* `blockContact` of an address that does not resolve returns as if it had
  blocked (`contact-store.ts:353`).

## Proofs

### InboxDatabase

`InboxDatabaseProofs` proves, for any sets of tabs, inboxes, workers,
operations and plan sizes, from the two assumptions of `InboxDatabase`
(sentinels are not members of the sets they mark; plan sizes are positive):

* `Invariance`: `Spec => []IInv`
* `TypeCorrect`: `Spec => []TypeOK`
* `ExclusiveUse`: `Spec => []LockedUseIsExclusive`
* `NoLeaks`: `Spec => []NoWorkerLeaks`
* `OneInUse`: `Spec => []OneWorkerInUse`

None of the last three is inductive on its own. Exclusion needs to know that a
tab that uses a guarded worker *still holds the lock of that inbox*, which a
late close or a failed connect of the same tab could undo: the invariant
therefore also says what each phase implies about `client`, `candidate` and
`retained` (when one is present and when not), that workers named by different
fields are different and open for the tab that names them, that a guarded
worker in use is covered by the tab's lock, and that two tabs do not hold the
same lock. `NoWorkerLeaks` is one of its conjuncts, and `OneWorkerInUse`
follows from two others: a connected client excludes a retained one, and the
phases that hold a candidate exclude both. `IInv` is proved to hold initially
and to survive each action; there is one lemma per action, and in it a step per
conjunct the action disturbs.

### MessageIngestion

The first half of `HistoryRecoveryProofs` proves, for any messages, side effects, inboxes and
Layouts and any bounds, from `EventAssumption` (messages and side effects are
disjoint, every event has an owner, a side effect a target of the same owner)
and `BridgeAssumption` (sentinels, bounds are naturals):

* `Invariance`: `Spec => []IInv`
* `TypeCorrect`: `Spec => []TypeOK`
* `EffectsAreInOrder`: `Spec => []EffectsFollowTargets`
* `BridgeImplementsQueue`: `Spec => BridgeIsAQueue`, the refinement of
  `EventQueue`

`IInv` adds to `TypeOK` that nothing is buffered while a consumer is registered
(registration drains), that an inbox addition leads from one inbox to another,
and `TargetAhead(Waiting, handled)`: in the chain of tail, message buffer and
side-effect buffer, the target of every side effect was handled or waits
before it. `EffectsFollowTargets` only speaks of the head of the tail; to keep
it the whole chain must be ordered, and the order must survive a message that
enters the message buffer in front of buffered side effects, a drain that moves
both buffers behind the tail, a token-scoped cleanup, and a reload. Lemmas about
chained sequences carry that argument (`Chained`, `Appended` and those behind
them), and one lemma per group of actions shows both `IInv'` and that the step
is one of the abstract queue or a stutter; `BridgeImplementsQueue` combines them.

### SharedCalls and IdentityLookups

`SharedCallsProofs` proves, for any calls, attempts, clients, fetches and faults,
from `SensibleCalls` (the sentinel is none of the values it stands beside, and
there is a first client; the instance of `conversations_all` satisfies it):

* `FlightsAreTracked`: `CallsSpec => []CallsInv`
* `AtMostOnePerClient`: `CallsSpec => []OneSyncPerClient`
* `FlagsOnlySayWhatWasSent`: `CallsSpec => []SentFlagsAreTrue`
* `LookupsAreLive`: `LookupSpec => []FlightsAreLive` (no assumption)
* `CallersShareOneFlight`: `CallsSpec /\ LookupSpec => []SingleFlights`

One sync per client rests on which sync it is: the flight, if there is one, is
that of the connected client, and the only sync its worker has to do. A caller
that gives up must leave the flight alone, an operation that ends must clear
its own flight only (after a reconnect the operation of the old client ends
beside the flight of the new one), and a new client has a number no call
remembers. For the flags, the invariant follows what each call has found from
the row, the messages and its own send up to the moment it writes the row: all
of it that can travel is in the conversation, except in a save that has not
sent its profile yet. That a lookup is live is inductive as it stands, because
a disconnect and a connect take the flight away with the client it asked. The
last theorem joins the two without assuming that only one of them moves.

### HistoryRecovery

The second half of `HistoryRecoveryProofs` proves, for any finite set of messages, any
conversations, Layouts, `Lookback`, clock and bounds, from the assumptions of
the bridge and `RecoveryAssumption` (every message has a conversation, the
lookback is positive and the clock can pass it):

* `RecoveryInvariance`: `RecoverySpec => []RInv`
* `RecoveryTypeCorrect`: `RecoverySpec => []RecoveryTypeOK`
* `MarkersAreHonest`: `RecoverySpec => MarkerIsHonest`
* `NoGapIsUnseen`: `~PageFreezes => (RecoverySpec => []NoUnseenGap)`

`RInv` stands on the bridge's `IInv` (its lemmas for dispatch, Layouts, handlers
and reloads are used again). `NoUnseenGap` speaks of a checkpoint that exists;
the invariant follows every message due in the window from the sync on
(`WindowIsTracked`): it is in the XMTP database, then in the replay's queue, the
tail or the buffer, then among the first `behind` works of the tail or handled.
A checkpoint is stamped when `behind` is 0, so what is still unseen then was
either outside the window (and a recent window is read only after a repair,
`RecentIsRepaired`, so it was covered before) or sent after the sync, hence less
than `Lookback` ago (`Awake`). This last step is the only one that needs
`~PageFreezes`, and a page that may sleep does break it (see the known limits).
For the marker, a repair is `Held` while it has not failed and neither counter
has moved; then the Layout it began with is still there, a handled message is a
stored one, and every conversation it has left behind has everything sent before
it began in the app's database. A handler's failure, a reload or a change of
Layout moves a counter, which is why the code compares both at the end.

### ClientSession

`ClientSessionProofs` proves, from the assumptions of `ClientSession`, for any
clients, streams, installations and faults and any order of stopping the kinds:

* `Invariance`: `Spec => []IInv`
* `TypeCorrect`: `Spec => []TypeOK`
* `LoopsBelong`: `Spec => []LoopsAreOwned`
* `RequestsAreSpaced`: `Spec => HistoryRequestsPaced`

That a running loop is the one its field and task name does not survive a start
that resolves late, unless a start that is still current is the one its promise
names and excludes a task and a field of its kind (`PromisesStart`,
`FreshIsOwned`); that a closed client handles nothing rests on how far the
disconnect has stopped the kinds (`HandlersAreTasks`). An installation that
published is cooling (`PublishedCools`), whichever client asked; that a client
does not ask twice rests on the connected client's request being the one in
flight until its shutdown begins (`OneRequest`).

### MessageStore

`MessageStoreProofs` proves, for any messages, any mix of operations at a time
and any number of faults, from `MessageStoreAssumption` (messages are finitely
many, own and received ones are disjoint, an optimistic id is no message's,
`None` is no id, the bounds are natural numbers):

* `Invariance`: `Spec => []IInv`
* `TypeCorrect`: `Spec => []TypeOK`
* `ScreenRestsOnDatabase`: `Spec => []ScreenIsBacked`
* `SendsSettle`: `Spec => []SettledSendHasOneRow`
* `PreviewFollows`: `Spec => []PreviewIsNewest`
* `AttachmentsFollow`: `Spec => []AttachmentsHaveMessages`

`DatabaseOk` is what each Dexie transaction keeps (types, the newest row, no
attachment without its message), stated of any database so that one lemma per
kind of transaction serves every operation that issues it. The screen is backed
only if what an operation has read and is about to show was stored when it read
and stored or removed on purpose since (`ScreenInv`); a settled send has one row
only if each step of the sending operation has done its part (`SendInv`). The
lemmas about the newest message need that the clock gave every id a time of its
own (`StampsAreUnique`) and a least number in a set of naturals.

### InstallationRepair

The first half of `InboxesProofs` proves, for any tabs, keys, other installations,
limit and number of faults, from `RepairAssumption` (keys are natural numbers,
other installations are none of them, the sentinel is neither):

* `RepairInvariance`: `Spec => []RepairInv`
* `RepairTypeCorrect`: `Spec => []TypeOK`
* `RepairsHaveOneCandidate`: `Spec => []OneCandidate`
* `RepairsKeepAnInstallation`: `Spec => PredecessorOutlivesReplacement`
* `ReadyTabsAreDurable`: `Spec => SuccessIsDurable`

One candidate is kept by the journal: whatever a repair has published and the
network still shows, or will show, is the key the journal names as pending
(`CandidateIsJournaled`), a repair that resumes has looked for it until it was
its own or nowhere (`InterruptedWasFound`), and a fresh key is named nowhere
(`PendingNames`, `NewKeysAreNew`). That the predecessor outlives its replacement
is the long part: the key in the file, or about to be in it, must never be what
some tab takes for a predecessor. The invariant therefore says which
installations each tab may take for one (`NamedIn`, `PreviousIsNamed`), that a tab
whose details are hopeless will not repair, that a candidate in memory leaves
the file alone (`MemoryKeepsFile`), and that the one removal another flow asked
for came before there was a journal (`AskedIsOwn`). There is one lemma per
action with one step per conjunct it can disturb.

### InboxLifecycle

The second half of `InboxesProofs` proves, for any pages, inboxes, keyfiles and
bounds, from `LifecycleAssumption` (there is something that is no inbox,
keyfiles are those of inboxes, bounds are natural numbers), which `inboxes_all`
evaluates:

* `LifecycleInvariance`: `LifecycleSpec => []LifecycleInv`
* `LifecycleTypeCorrect`: `LifecycleSpec => []LifecycleTypeOK`
* `NoInboxIsEverStranded`: `LifecycleSpec => []NoInboxIsStranded`
* `BurnsReportTheTruth`: `LifecycleSpec => BurnReportsTruth`

An inbox that this browser published is stranded when its row goes away by
anything but a burn, a clearing of everything or a create that discards it. What
may go wrong is that a connect of some page publishes an inbox whose row another
page has meanwhile removed or was about to, so the invariant says of every
connect that it holds a key (`Held`), and from the publication on one that no
create may drop (`Safe`); of every session, of the inbox a create has put aside
and of boot's what they hold (`SessionOK`, `BootOK`); and of a key that was
generated and not yet stored that neither the network, a row nor another page
knows it (`FreshAreUnknown`), so that writing its draft takes nothing back. Two
pages never have the same database open (`LockOK`). A burn reports the truth
because what it has removed so far stays removed unless another flow has touched
it since (`BurntOK`, `late`).

### ConvosGroups

`ConvosGroupsProofs` proves, for any names, any finite set of slots and any
number of calls and faults, from `GroupsAssumption` (the sentinel is none of the
values it stands beside), which `conversations_all` evaluates:

* `GroupsInvariance`: `ConvosSpec => []GroupsInv`
* `GroupsTypeCorrect`: `ConvosSpec => []ConvosTypeOK`
* `NamesAreAsClaimed`: `ConvosSpec => []NameClaimsAreTrue`
* `InvitesKeepTheirTag`: `ConvosSpec => []InviteTagsHold`

A claim that a name is published is made from the row or from `sentName`, long
after the publication. It is true because one task publishes at a time, the one
that `publisher` names, and the name it goes on to record is still the one
published when it does (`OnePublisher`); and because the row differs from what
was published only when an old copy was written over it (`ClaimsAreDated` makes
`misled` exactly that, so the exception of the property is no wider than the
case it names). For the tags, a tag that an invite carries stays the group's
only if an invitation has the tag to itself from the moment it reads that there
is none to the moment it has written its own (`InvitesAreAlone`, `TagIsHeld`),
and if an edit of the description writes back the tag that is still there. The
number of tags generated is bounded through the invitations that are still
looking for one (`TagsAreCounted`), by a cardinality argument.

### AttachmentDownloads

The first half of `MessageBubblesProofs` proves, for any attachments, slots, clients, loads
and decisions, from `DownloadAssumption` (the sentinel is none of the values it
stands beside, attachments are finitely many, there is a first client), which
`conversations_all` evaluates:

* `Invariance`: `DownloadSpec => []IInv`
* `TypeCorrect`: `DownloadSpec => []DownloadTypeOK`
* `SlotsAreKept`: `DownloadSpec => []SlotsAreCounted`
* `NobodyElseIsAsked`: `DownloadSpec => HostsAreAuthorized`

The count is the cardinality of the holders, the queue names every waiter once,
and nobody queues while a slot is free (`SlotInv`); the lemmas say what handing
out n slots does to the queue and to the two cardinalities. A sync that counts
has found the consent that is Allowed now, and so has a request past its sync
(`ConsentInv`).

### Reactions

The second half of `MessageBubblesProofs` proves, for any senders and any number
of events, loads, syncs and replays under way together, from
`ReactionsAssumption` (this inbox is in the conversation; the sentinel is none of
the values it stands beside), which `conversations_all` evaluates:

* `ReactionsInvariance`: `ReactionsSpec => []ReactionsInv`
* `ReactionsTypeCorrect`: `ReactionsSpec => []ReactionsTypeOK`
* `RowsSettleOnReactions`: `ReactionsSpec => []ReactionsSettle`

The property speaks of the end, when no replay is under way, the queue is empty
and nothing is in hand. Before that a row may well be wrong about everybody,
since the handler applies events to a value that lags behind. The invariant
speaks of one person at a time: once nothing about that person lies beyond what
replays have handed over, and no replay is still to bring anything (`Done`), the
last event in the queue about them says what the log says, and if there is none,
what is in hand or in the row does (`Certain`, `Kept`). A replay that brings an
older event again undoes a newer one until it has gone on to the newer one too.
So no replay may leave a gap (`ReplayInLog`), one that another has overtaken is
set apart until it notices (`Overtaken`), and one that has the message to itself
is right as far as it has come, whatever went wrong before (`Replayed`): that is
why it may clear the doubt. The rest is who can write what: a tap has sent the
last of its own events (`TapIsLast`), a handler writes what it read
(`HandlerKnows`) and does not reopen a chat it found closed (`ClosedStays`).
Lemmas about queues (`AppendSays`, `TailSays`) and about who has reacted after n
events (`SameReacted`, `LastDecides`) carry the steps.

### Only model-checked

* Every liveness property: `OperationsEnd`, `QueueDrains`, `CatchesUp`,
  `StreamsComeBack`, `GapsAreClosed`, `RetentionCatchesUp` (liveness under
  fairness and `ENABLED` are out of the prover's reach).
* `PushReportsAreTrue` of `PushSubscription`: each of its three parts needs an
  invariant of its own about what every call under way, waiting or queued may
  still do to a route, and a refused subscription filters the list of waiting
  calls by a recursive operator; this has not been attempted.
* `ContactsAreKept` of `Contacts`: the screen's list is built by filtering and
  scanning sequences, and what those compute for lists of any length needs
  induction over data.
* `PartsTypeOK` of the two composed runs: the type theorem of each part that
  has one is proved; `PushSubscription`, `Contacts`, `SharedCalls` (beyond
  `NumbersKnown`) and `IdentityLookups` have none.

What folds, sorting and sequence operators compute for all inputs is out of
reach for the same reason; `FetchMessages` therefore states what a sorted queue
is and does not compute one.

## Assumptions and what is left out

* A `close()` settles successfully or hangs. A prompt rejection, after which
  the code releases the lock, is not modelled: whether the worker still has the
  database open then is not decided in this repository.
* A lock request is granted or refused; the code takes a technical failure of
  the request as granted (`client.ts:609`).
* `HistoryRecovery`: the conversation row exists when a checkpoint is stamped;
  deleted conversations, retention windows and the message limit of a replay
  are left out; the clock does not go backwards; one inbox is connected.
* `InstallationRepair`: publications and revocations the network accepted take
  effect within the ten reads that look for them; the SDK falls back to memory
  once; one removal is asked for by another flow. Probing of an alternate
  database path and signature prompts are left out.
* `InboxLifecycle`: boot's choice of the inbox is one step; vault unlocking,
  logout and the migration of an identity are left out, as is the Router check
  that burn triggers before its reload.
* `PushSubscription`: one page; the second subscription of the recovery scope,
  legacy cleanup, diagnostics and topics are left out. A failed deletion at the
  relay may have been carried out.
* `ConvosGroups`: one group, one tab, one join request. The contents of
  snapshots, permission values and the texts of invites and their signatures
  are left out; so are the flush of a pending profile and its hydration, which
  may overwrite a newer name (`Layout.tsx` 697-747, 1255-1285).
* `Contacts`: one person, one tab; setting the store and issuing the Dexie write
  are one step. Names and avatars are left out.
* `AttachmentDownloads`: one conversation; encryption and size limits are left
  out; a change of client is a reconnect of the same inbox.
* `SharedCalls`: one key of the flight map and one direct message; the cooldowns
  of conversation syncs are left out, `getPushHmacKeys` and
  `buildConvosProfileSnapshot`, which call sync directly, too.
* `Reactions`: one message, which is on the page a load reads, and one emoji; one
  installation of this inbox; the SDK lists the reactions of a message once, in
  the order of the network. Events of other messages are left out, except that
  they may fail and end a sync (`ReplayStops`). `IdentityLookups`: one key; the address
  caches are left out.
* Unread counters, read receipts, drafts, search, rendering, Farcaster lookups.
* Not modelled at all: vault cryptography (pure functions), wallet connection
  (one promise per prompt, the order is the library's), the edge worker,
  routing and stateless helpers, debug tooling, pages without state of their
  own, build and service scripts.

## What could come next

1. Theorems: `PushReportsAreTrue`; `ContactsAreKept`, after a version of the
   list as a function from positions that needs no induction.
2. An abstract `ExclusiveDatabase` (a holder per inbox) implemented by
   `InboxDatabase`, and the repair's worker phases refining those of
   `InboxDatabase`.
3. Two pages in `PushSubscription`, two tabs in `Contacts` and `ConvosGroups`,
   where the code orders nothing and a fix would have to be specified first.
