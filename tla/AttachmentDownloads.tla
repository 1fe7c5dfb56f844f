-------------------------- MODULE AttachmentDownloads --------------------------
(***************************************************************************)
(* Loading received images of one conversation: the message bubbles        *)
(* (MessageBubble.tsx), the shared requests of useMessages, the download   *)
(* slots (incoming-attachment.ts) and the consent check of the client      *)
(* (client.ts, loadRemoteAttachment).                                      *)
(*                                                                         *)
(* The host is a third party: contacting it tells it that this inbox opens *)
(* the image.  A client is known by its generation; what the local cache   *)
(* does with the bytes is the subject of MessageStore.                     *)
(***************************************************************************)
EXTENDS Naturals, Sequences, FiniteSets

CONSTANTS
  Attachments,   \* the received images of the conversation
  Trusted,       \* those on a host the app knows
  MaxConcurrent, \* MAX_CONCURRENT_INCOMING_ATTACHMENTS
  MaxClients,    \* bound: clients connected one after the other
  MaxLoads,      \* bound: loads the bubbles start
  MaxDecisions,  \* bound: changes of the conversation's consent
  None

VARIABLES
  client,      \* the connected client, or None
  opened,      \* the clients connected so far
  consent,     \* the conversation's consent as this installation knows it
  network,     \* its consent on the network
  fresh,       \* attachmentPreferenceSyncedAt is less than five seconds old
  syncClient,  \* attachmentPreferenceSyncClient
  pending,     \* the client whose attachmentPreferenceSyncPromise is held, or None
  running,     \* the clients whose preference sync has not been answered
  count,       \* activeIncomingAttachmentCount
  queue,       \* incomingAttachmentWaiters
  request,     \* attachment -> its entry of attachmentDownloadRequests, or None
  opening,     \* attachment -> the client asked to accept the conversation before a load,
               \* or 0 when it has answered, or None
  bubble,      \* attachment -> the bubble on screen
  row,         \* attachment -> cacheState of its metadata row
  loads, decisions

VARIABLE vouched \* history: the last sync of the window found the consent Allowed

prefs == <<fresh, syncClient, pending, running>>
slots == <<count, queue>>
page == <<request, opening, bubble>>
vars == <<client, opened, consent, network, prefs, slots, page, row,
          loads, decisions, vouched>>

Consents == {"unknown", "allowed", "denied"}
Steps == {"queued", "authorizing", "syncing", "reading", "fetching", "checking"}
Holding == {"authorizing", "syncing", "reading", "fetching"}

At(a) == IF request[a] = None THEN "none" ELSE request[a].at
InStep(s) == {a \in Attachments : At(a) \in s}

Clients == 1 .. MaxClients
Requests == [at : Steps, own : Clients, vouched : BOOLEAN, asked : BOOLEAN]

\* The sentinel is none of the values it stands beside, a page has finitely many
\* attachments, and there is a first client.
Sensible ==
  /\ None \notin 0 .. MaxClients /\ None \notin Requests
  /\ MaxConcurrent \in Nat /\ MaxClients \in Nat \ {0} /\ IsFiniteSet(Attachments)
ASSUME DownloadAssumption == Sensible

\* seen: cacheState as the bubble has read it, "refused" for a failure for want of
\* consent.  needs: attachmentNeedsConsent.
Unmounted == [load |-> "idle", seen |-> "remote", tried |-> FALSE, needs |-> FALSE]
Bubble(state) == [Unmounted EXCEPT !.seen = state]
Failed(b) == [b EXCEPT !.load = "failed", !.needs = FALSE]
Asks(b) == b.needs \/ b.seen = "refused"

Init ==
  /\ client = 1 /\ opened = 1
  /\ consent \in Consents /\ network = consent
  /\ fresh = FALSE /\ syncClient = None /\ pending = None /\ running = {}
  /\ count = 0 /\ queue = <<>>
  /\ request = [a \in Attachments |-> None] /\ opening = [a \in Attachments |-> None]
  /\ bubble = [a \in Attachments |-> Unmounted]
  /\ row = [a \in Attachments |-> "remote"]
  /\ loads = 0 /\ decisions = 0 /\ vouched = FALSE
-----------------------------------------------------------------------------
(* Slots and requests *)

\* releaseIncomingAttachmentSlot, once for each of n slots: a waiter takes the
\* slot over as it is; the count falls only for want of one.
Handed(n) == IF n < Len(queue) THEN n ELSE Len(queue)

\* Mutant: the count falls although a waiter has the slot.
ReleasedTwice(n) == count - n

Released(n) == count - (n - Handed(n))

\* After the release of n slots the requests at the head of the queue go on.
GivenSlots(n) == {queue[k] : k \in 1 .. Handed(n)}
Release(n) ==
  /\ count' = Released(n)
  /\ queue' = SubSeq(queue, Handed(n) + 1, Len(queue))

\* The requests in lost fail: each gives its slot back, marks its row and tells the bubble that waits for it.
Fail(lost, why) ==
  LET given == lost \cap InStep(Holding)
      next == GivenSlots(Cardinality(given)) IN
  /\ Release(Cardinality(given))
  /\ request' = [a \in Attachments |->
       IF a \in lost THEN None
       ELSE IF a \in next THEN [request[a] EXCEPT !.at = "authorizing"]
       ELSE request[a]]
  /\ row' = [a \in Attachments |->
       IF a \in lost THEN why ELSE row[a]]
  /\ bubble' = [a \in Attachments |->
       IF a \in lost /\ bubble[a].load = "joined"
       THEN [bubble[a] EXCEPT !.load = "failed", !.needs = why = "refused"]
       ELSE bubble[a]]

Advance(a, to) == request' = [request EXCEPT ![a].at = to]
-----------------------------------------------------------------------------
(* The bubble *)

\* A bubble appears (again): it reads the metadata row.
Mount(a) ==
  /\ bubble[a] # Bubble(row[a])
  /\ bubble' = [bubble EXCEPT ![a] = Bubble(row[a])]
  /\ UNCHANGED <<client, opened, consent, network, prefs, slots, request,
                 opening, row, loads, decisions, vouched>>

MayFetch(a, approved) == row[a] # "cached" /\ (a \in Trusted \/ approved)

\* The load of a bubble that waits for no consent update has read the metadata, the
\* bytes and the descriptor; approved: the person asked for this host.
Requested(a, approved, shown) ==
  \/ /\ row[a] = "cached"
     /\ bubble' = [shown EXCEPT ![a] = IF @.load = "loading" THEN Bubble("cached") ELSE @]
     /\ UNCHANGED <<request, slots, row>>
  \/ /\ row[a] # "cached" /\ a \notin Trusted /\ ~approved
     /\ bubble' = [shown EXCEPT ![a] = IF @.load = "loading" THEN Failed(@) ELSE @]
     /\ UNCHANGED <<request, slots, row>>
  \/ /\ MayFetch(a, approved)
     /\ request[a] # None \* joined
     /\ bubble' = [shown EXCEPT ![a].load = IF @ = "loading" THEN "joined" ELSE @]
     /\ UNCHANGED <<request, slots, row>>
  \/ /\ MayFetch(a, approved)
     /\ request[a] = None /\ client = None
     /\ row' = [row EXCEPT ![a] = "failed"]
     /\ bubble' = [shown EXCEPT ![a] = IF @.load = "loading" THEN Failed(@) ELSE @]
     /\ UNCHANGED <<request, slots>>
  \/ /\ MayFetch(a, approved)
     /\ request[a] = None /\ client # None
     /\ request' = [request EXCEPT ![a] =
          [at |-> IF count < MaxConcurrent THEN "authorizing" ELSE "queued",
           own |-> client, vouched |-> FALSE, asked |-> approved]]
     /\ IF count < MaxConcurrent
        THEN count' = count + 1 /\ queue' = queue
        ELSE count' = count /\ queue' = Append(queue, a)
     /\ bubble' = [shown EXCEPT ![a].load = IF @ = "loading" THEN "joined" ELSE @]
     /\ UNCHANGED row

Loading(a, mark) == [bubble EXCEPT ![a].load = "loading", ![a].tried = @ \/ mark]

\* The bubble came into view: known hosts only, once for each appearance.
AutoLoad(a) ==
  /\ a \in Trusted /\ loads < MaxLoads
  /\ bubble[a].load = "idle" /\ bubble[a].seen = "remote" /\ ~bubble[a].tried
  /\ Requested(a, FALSE, Loading(a, TRUE))
  /\ loads' = loads + 1
  /\ UNCHANGED <<client, opened, consent, network, prefs, opening, decisions, vouched>>

\* The buttons: load from a named host, or retry.
PressLoad(a) ==
  /\ loads < MaxLoads
  /\ bubble[a].load \in {"idle", "failed"} /\ bubble[a].seen # "cached" /\ ~Asks(bubble[a])
  /\ a \notin Trusted \/ bubble[a].load = "failed" \/ bubble[a].seen = "failed"
  /\ Requested(a, a \notin Trusted, Loading(a, FALSE))
  /\ loads' = loads + 1
  /\ UNCHANGED <<client, opened, consent, network, prefs, opening, decisions, vouched>>

\* The button shown after a refusal: accept or unblock the conversation, then load.
PressAccept(a) ==
  /\ loads < MaxLoads /\ opening[a] = None /\ client # None
  /\ bubble[a].load \in {"idle", "failed"} /\ Asks(bubble[a])
  /\ opening' = [opening EXCEPT ![a] = client]
  /\ bubble' = Loading(a, FALSE)
  /\ loads' = loads + 1
  /\ UNCHANGED <<client, opened, consent, network, prefs, slots, request, row, decisions,
                 vouched>>

\* What the consent has just become is what vouches for a request past its sync.
Vouch(r, to) == IF r # None /\ r.at = "reading" THEN [r EXCEPT !.vouched = to = "allowed"] ELSE r
VouchAll(requests, to) == [a \in Attachments |-> Vouch(requests[a], to)]

\* updateConversationConsentState answered: the consent is what was asked for, and
\* the next download syncs first.
Decided(to) ==
  /\ consent' = to /\ network' = to /\ fresh' = FALSE
  /\ vouched' = (vouched /\ to = "allowed")
  /\ UNCHANGED <<syncClient, pending, running>>

\* The update on behalf of a bubble answered, and the bubble may load now.
Accepted(a) ==
  /\ opening[a] # None /\ opening[a] = client
  /\ Decided("allowed") /\ request' = VouchAll(request, "allowed")
  /\ opening' = [opening EXCEPT ![a] = 0]
  /\ UNCHANGED <<client, opened, slots, bubble, row, loads, decisions>>
LoadAccepted(a) ==
  /\ opening[a] = 0
  /\ Requested(a, a \notin Trusted, bubble)
  /\ opening' = [opening EXCEPT ![a] = None]
  /\ UNCHANGED <<client, opened, consent, network, prefs, loads, decisions, vouched>>
AcceptFails(a) ==
  /\ opening[a] \notin {None, 0}
  /\ opening' = [opening EXCEPT ![a] = None]
  /\ bubble' = [bubble EXCEPT ![a] = IF @.load = "loading" THEN Failed(@) ELSE @]
  /\ UNCHANGED <<client, opened, consent, network, prefs, slots, request, row, loads,
                 decisions, vouched>>
-----------------------------------------------------------------------------
(* loadRemoteAttachment *)

\* Mutant: the time of the sync is noted when it is asked for.
SyncAsked(own) == fresh' = TRUE

SyncStarts(own) == fresh' = fresh

\* With the slot: the inbox must still be this one; then a preference sync of the
\* last five seconds, the one under way, or a new one.
Authorize(a) ==
  /\ At(a) = "authorizing"
  /\ LET own == request[a].own IN
     \/ /\ own # client /\ Fail({a}, "failed") /\ UNCHANGED prefs
     \/ /\ own = client /\ syncClient = own /\ fresh
        /\ request' = [request EXCEPT ![a].at = "reading", ![a].vouched = vouched]
        /\ UNCHANGED <<prefs, slots, row, bubble>>
     \/ /\ own = client /\ ~(syncClient = own /\ fresh) /\ pending = own
        /\ Advance(a, "syncing") /\ UNCHANGED <<prefs, slots, row, bubble>>
     \/ /\ own = client /\ ~(syncClient = own /\ fresh) /\ pending # own
        /\ Advance(a, "syncing")
        /\ SyncStarts(own)
        /\ syncClient' = own /\ pending' = own /\ running' = running \cup {own}
        /\ UNCHANGED <<slots, row, bubble>>
  /\ UNCHANGED <<client, opened, consent, network, opening, loads, decisions,
                 vouched>>

\* preferences.sync of client c answers; only the connected client's counts.  The
\* requests of a client that is gone read on and find that out.
SyncEnds(c) ==
  /\ c \in running /\ running' = running \ {c}
  /\ pending' = IF pending = c THEN None ELSE pending
  /\ \/ /\ consent' = network
        /\ fresh' = (fresh \/ c = client) /\ vouched' = (network = "allowed")
        /\ request' = [a \in Attachments |->
             IF At(a) = "syncing" /\ request[a].own = c
             THEN [request[a] EXCEPT !.at = "reading", !.vouched = network = "allowed"]
             ELSE Vouch(request[a], network)]
        /\ UNCHANGED <<slots, row, bubble>>
     \/ /\ Fail({a \in InStep({"syncing"}) : request[a].own = c}, "failed")
        /\ UNCHANGED <<consent, fresh, vouched>>
  /\ UNCHANGED <<client, opened, network, syncClient, opening, loads, decisions>>

\* The consent has been read: with it Allowed the host is contacted.
ReadConsent(a) ==
  /\ At(a) = "reading"
  /\ \/ /\ request[a].own = client /\ consent = "allowed"
        /\ Advance(a, "fetching") /\ UNCHANGED <<slots, row, bubble>>
     \/ request[a].own # client /\ Fail({a}, "failed")
     \/ request[a].own = client /\ consent # "allowed" /\ Fail({a}, "refused")
  /\ UNCHANGED <<client, opened, consent, network, prefs, opening, loads,
                 decisions, vouched>>

\* The host refused, answered another length than the descriptor's, took more than its
\* time, or sent no static picture.
FetchFails(a) ==
  /\ At(a) = "fetching"
  /\ Fail({a}, "failed")
  /\ UNCHANGED <<client, opened, consent, network, prefs, opening, loads, decisions, vouched>>

\* The bytes arrived and were decrypted; the slot is free, the client must still be this.
FetchEnds(a) ==
  /\ At(a) = "fetching" /\ request[a].own = client
  /\ Release(1)
  /\ request' = [b \in Attachments |->
       IF b = a THEN [request[a] EXCEPT !.at = "checking"]
       ELSE IF b \in GivenSlots(1) THEN [request[b] EXCEPT !.at = "authorizing"]
       ELSE request[b]]
  /\ UNCHANGED <<client, opened, consent, network, prefs, opening, bubble, row, loads,
                 decisions, vouched>>

\* The consent is read once more before the bytes leave the client for the cache.
Check(a) ==
  /\ At(a) = "checking"
  /\ \/ consent # "allowed" /\ Fail({a}, "refused")
     \/ Fail({a}, "failed")
     \/ /\ consent = "allowed"
        /\ row' = [row EXCEPT ![a] = "cached"] /\ request' = [request EXCEPT ![a] = None]
        /\ bubble' = [bubble EXCEPT ![a] = IF @.load = "joined" THEN Bubble("cached") ELSE @]
        /\ UNCHANGED slots
  /\ UNCHANGED <<client, opened, consent, network, prefs, opening, loads, decisions, vouched>>
-----------------------------------------------------------------------------
(* The rest of the world *)

\* Block or Unblock in the conversation's menu, answered.
Decide(to) ==
  /\ client # None /\ decisions < MaxDecisions
  /\ Decided(to) /\ request' = VouchAll(request, to)
  /\ decisions' = decisions + 1
  /\ UNCHANGED <<client, opened, slots, opening, bubble, row, loads>>

\* Another installation of the inbox changes the consent.
DecidedElsewhere(to) ==
  /\ network # to /\ decisions < MaxDecisions
  /\ network' = to /\ decisions' = decisions + 1
  /\ UNCHANGED <<client, opened, consent, prefs, slots, page, row, loads, vouched>>

\* Five seconds have passed since the last sync.
WindowEnds ==
  /\ fresh \/ vouched
  /\ fresh' = FALSE /\ vouched' = FALSE
  /\ UNCHANGED <<client, opened, consent, network, syncClient, pending, running,
                 slots, page, row, loads, decisions>>

Disconnect ==
  /\ client # None /\ client' = None
  /\ UNCHANGED <<opened, consent, network, prefs, slots, page, row, loads,
                 decisions, vouched>>
Connect ==
  /\ client = None /\ opened < MaxClients
  /\ opened' = opened + 1 /\ client' = opened'
  /\ UNCHANGED <<consent, network, prefs, slots, page, row, loads, decisions,
                 vouched>>

DownloadNext ==
  \/ \E a \in Attachments :
       \/ Mount(a) \/ AutoLoad(a) \/ PressLoad(a) \/ PressAccept(a) \/ Accepted(a)
       \/ LoadAccepted(a) \/ AcceptFails(a)
       \/ Authorize(a) \/ ReadConsent(a) \/ FetchFails(a) \/ FetchEnds(a) \/ Check(a)
  \/ \E c \in 1 .. MaxClients : SyncEnds(c)
  \/ \E to \in {"allowed", "denied"} : Decide(to) \/ DecidedElsewhere(to)
  \/ WindowEnds \/ Disconnect \/ Connect

DownloadSpec == Init /\ [][DownloadNext]_vars
-----------------------------------------------------------------------------
(* Properties *)

\* Every variable has its type.
DownloadTypeOK ==
  /\ client \in {None} \cup 1 .. MaxClients /\ opened \in 1 .. MaxClients
  /\ consent \in Consents /\ network \in Consents
  /\ fresh \in BOOLEAN /\ vouched \in BOOLEAN
  /\ {syncClient, pending} \subseteq {None} \cup 1 .. MaxClients
  /\ running \subseteq 1 .. MaxClients
  /\ count \in 0 .. MaxConcurrent
  /\ \A a \in Attachments :
       /\ At(a) \in {"none"} \cup Steps
       /\ row[a] \in {"remote", "failed", "refused", "cached"}
       /\ bubble[a].load \in {"idle", "loading", "joined", "failed"}

\* FEATURES.md, Attachment Download Security: a host is contacted only for the
\* connected client and after a preference sync at most five seconds old that found
\* the conversation Allowed, whatever other downloads, this page's menu, another
\* installation and a reconnect do in between; and a host the app does not know only
\* when the person asked for it.
FetchStep ==
  \A a \in Attachments :
    At(a) # "fetching" /\ At(a)' = "fetching" =>
      /\ request[a].vouched /\ request[a].own = client
      /\ a \in Trusted \/ request[a].asked
HostsAreAuthorized == [][FetchStep]_vars

\* incoming-attachment.ts: the count is the number of requests that hold a slot, and
\* a request waits only while every slot is held: no slot is lost to a failure and no
\* waiter is forgotten, in whatever order downloads end.
SlotsAreCounted ==
  /\ count = Cardinality(InStep(Holding))
  /\ {queue[k] : k \in DOMAIN queue} = InStep({"queued"})
  /\ Len(queue) = Cardinality(InStep({"queued"}))
  /\ queue # <<>> => count = MaxConcurrent
=============================================================================
