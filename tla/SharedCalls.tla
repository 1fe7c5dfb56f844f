------------------------------ MODULE SharedCalls ------------------------------
(***************************************************************************)
(* Calls of the client that several flows share (client.ts): the sync of   *)
(* the conversations, which runStatefulOperation lets run once per client, *)
(* its deadline and its retries; and the sends to one direct message,      *)
(* which sync on demand and share this person's profile on the way.        *)
(*                                                                         *)
(* A browser SDK call cannot be cancelled: a caller may give up on it, and *)
(* a closed client may never answer it.  Clients are numbered in the order *)
(* they connect.                                                           *)
(***************************************************************************)
EXTENDS Naturals, FiniteSets

CONSTANTS
  Calls,      \* slots for the calls under way
  Attempts,   \* retryWithDelay, attempts
  MaxShareClients,  \* bound: clients connected one after the other
  MaxStarts,  \* bound: calls started
  MaxFaults,  \* bound: failed and expired calls
  NoCall

VARIABLES
  shareClient,  \* this.client: the number of the connected client, or NoCall
  shareOpened,  \* the clients connected so far
  shareFlight,  \* statefulOperationFlights, 'conversations.sync': [owner, sync], or NoCall
  shareRunning,  \* sync -> the client whose worker it was sent to, or NoCall
  call,    \* slot -> the call under way, or NoCall
  known,   \* the conversation is in the local database
  sent,    \* the row's profileSentDisplayName and profileSentAvatar
  dm,      \* the profile items this inbox has sent to the conversation
  mine,    \* the items of this person's profile
  clean,   \* the items that pass sanitizeProfileAvatarUrl
  starts, faults

profile == <<known, sent, dm, mine, clean>>
callsVars == <<shareClient, shareOpened, shareFlight, shareRunning, call, profile, starts, faults>>

Items == {"name", "avatar"}
ShareClients == 1 .. MaxShareClients
Syncs == 1 .. Cardinality(Calls) + MaxShareClients

NewSync == CHOOSE n \in Syncs : shareRunning[n] = NoCall
In(c, at) == call[c] # NoCall /\ call[c].at = at

CallsInit ==
  /\ shareClient = 1 /\ shareOpened = 1 /\ shareFlight = NoCall
  /\ shareRunning = [n \in Syncs |-> NoCall]
  /\ call = [c \in Calls |-> NoCall]
  /\ known \in BOOLEAN /\ sent = {} /\ dm \in {{}, {"name"}}
  /\ mine = Items /\ clean \in {Items, {"name"}}
  /\ starts = 0 /\ faults = 0
-----------------------------------------------------------------------------
(* Calls *)

Fault == faults < MaxFaults /\ faults' = faults + 1

\* at: where the call is.  then: what a sync is wanted for.  own: activeClient of
\* conversationsSyncWithRecovery.
Call(at) ==
  [at |-> at, then |-> "end", own |-> shareClient, sync |-> NoCall, tries |-> 1,
   flags |-> {}, found |-> {}]

\* What a caller does when its sync is over: only a profile is looked for regardless.
After(k, ok) ==
  IF k.then = "share" THEN [k EXCEPT !.at = "share", !.sync = NoCall]
  ELSE IF k.then = "refind" /\ ok THEN [k EXCEPT !.at = "refind", !.sync = NoCall]
  ELSE NoCall

CanBegin(c) ==
  /\ call[c] = NoCall /\ shareClient # NoCall /\ starts < MaxStarts
  /\ starts' = starts + 1
-----------------------------------------------------------------------------
(* conversationsSyncWithRecovery *)

Joinable == shareFlight # NoCall /\ shareFlight.owner = shareClient

\* runStatefulOperation for call k in slot c: it joins the flight of the connected
\* client, or sends its own operation, which is that of the client it began with.
Operate(c, k) ==
  LET n == IF Joinable THEN shareFlight.sync ELSE NewSync IN
  /\ Joinable \/ \E free \in Syncs : shareRunning[free] = NoCall  \* bound; there always is one
  /\ call' = [call EXCEPT ![c] = [k EXCEPT !.at = "waiting", !.sync = n]]
  /\ IF Joinable THEN UNCHANGED <<shareFlight, shareRunning>>
     ELSE /\ shareRunning' = [shareRunning EXCEPT ![n] = k.own]
          /\ shareFlight' = [owner |-> shareClient, sync |-> n]

\* The first attempt is made at once, by the client that is connected.
Sync(c, k, then) ==
  Operate(c, [k EXCEPT !.then = then, !.own = shareClient, !.tries = 1])

\* syncConversations, a history sync, an invite.
StartSync(c) ==
  /\ CanBegin(c) /\ Sync(c, Call("sync"), "end")
  /\ UNCHANGED <<shareClient, shareOpened, profile, faults>>

\* retryWithDelay, after the delay.
Retry(c) ==
  /\ In(c, "delayed")
  /\ \/ shareClient # NoCall /\ Operate(c, call[c])
     \/ /\ shareClient = NoCall /\ call' = [call EXCEPT ![c] = After(@, FALSE)]
        /\ UNCHANGED <<shareFlight, shareRunning>>
  /\ UNCHANGED <<shareClient, shareOpened, profile, starts, faults>>

\* Mutant: an operation that has settled stays the flight.
FlightKept(n) == shareFlight

\* The flight is cleared by its own operation only.
Cleared(n) == IF shareFlight # NoCall /\ shareFlight.sync = n THEN NoCall ELSE shareFlight

Waiting(n) == {c \in Calls : In(c, "waiting") /\ call[c].sync = n}

SyncSucceeds(n) ==
  /\ shareRunning[n] # NoCall
  /\ shareRunning' = [shareRunning EXCEPT ![n] = NoCall] /\ shareFlight' = Cleared(n)
  /\ call' = [c \in Calls |-> IF c \in Waiting(n) THEN After(call[c], TRUE) ELSE call[c]]
  /\ known' = TRUE
  /\ UNCHANGED <<shareClient, shareOpened, sent, dm, mine, clean, starts, faults>>

\* A transient failure is tried again, each caller for itself; another is final.
Retried(k, transient) ==
  IF transient /\ k.tries < Attempts
  THEN [k EXCEPT !.at = "delayed", !.sync = NoCall, !.tries = @ + 1] ELSE After(k, FALSE)
SyncFails(n) ==
  /\ shareRunning[n] # NoCall /\ Fault
  /\ shareRunning' = [shareRunning EXCEPT ![n] = NoCall] /\ shareFlight' = Cleared(n)
  /\ \E transient \in BOOLEAN :
       call' = [c \in Calls |->
         IF c \in Waiting(n) THEN Retried(call[c], transient) ELSE call[c]]
  /\ UNCHANGED <<shareClient, shareOpened, profile, starts>>

\* Mutant: giving up on a call forgets it.
FlightForgotten(c) ==
  IF shareFlight # NoCall /\ shareFlight.sync = call[c].sync THEN NoCall ELSE shareFlight

FlightLeft(c) == shareFlight

\* withTimeout: the caller gives up; the operation goes on and is never tried again.
Deadline(c) ==
  /\ In(c, "waiting") /\ Fault
  /\ call' = [call EXCEPT ![c] = After(@, FALSE)]
  /\ shareFlight' = FlightLeft(c)
  /\ UNCHANGED <<shareClient, shareOpened, shareRunning, profile, starts>>
-----------------------------------------------------------------------------
(* Sends to the direct message *)

Goes(c, at) == call' = [call EXCEPT ![c].at = at] /\ UNCHANGED <<shareFlight, shareRunning>>
Ends(c) == call' = [call EXCEPT ![c] = NoCall] /\ UNCHANGED <<shareFlight, shareRunning>>

\* sendMessage and sendAttachment: getConversationById, and once more after a sync.
StartSend(c) ==
  /\ CanBegin(c) /\ call' = [call EXCEPT ![c] = Call("find")]
  /\ UNCHANGED <<shareClient, shareOpened, shareFlight, shareRunning, profile, faults>>
Find(c) ==
  /\ In(c, "find")
  /\ \/ known /\ Goes(c, "flags")
     \/ ~known /\ shareClient # NoCall /\ Sync(c, call[c], "refind")
     \/ shareClient # call[c].own /\ Ends(c)
  /\ UNCHANGED <<shareClient, shareOpened, profile, starts, faults>>
Refind(c) ==
  /\ In(c, "refind")
  /\ \/ known /\ shareClient # NoCall /\ Goes(c, "flags")
     \/ ~known /\ Ends(c)
     \/ shareClient # call[c].own /\ Ends(c)
  /\ UNCHANGED <<shareClient, shareOpened, profile, starts, faults>>

\* ensureProfileSent reads the flags of the row; with both set there is nothing to do.
ReadFlags(c) ==
  /\ In(c, "flags")
  /\ call' = [call EXCEPT ![c].flags = sent, ![c].found = sent,
                          ![c].at = IF sent = Items \/ shareClient = NoCall THEN "text"
                                    ELSE "scan"]
  /\ UNCHANGED <<shareClient, shareOpened, shareFlight, shareRunning, profile, starts, faults>>

\* The messages are searched for what was sent before; they may not be readable.
\* loadOwnProfile then syncs first, if it can.
Scan(c) ==
  /\ In(c, "scan")
  /\ \E seen \in {{}, dm} :
       LET k == [call[c] EXCEPT !.found = @ \cup seen] IN
       \/ shareClient # NoCall /\ Sync(c, k, "share")
       \/ /\ shareClient = NoCall /\ call' = [call EXCEPT ![c] = [k EXCEPT !.at = "share"]]
          /\ UNCHANGED <<shareFlight, shareRunning>>
  /\ UNCHANGED <<shareClient, shareOpened, profile, starts, faults>>

\* Mutant: a profile that could not be sent counts as shared.
NotShared(c) ==
  /\ call' = [call EXCEPT ![c].at = "record", ![c].found = @ \cup mine]
  /\ UNCHANGED <<shareFlight, shareRunning>>

\* A failed send leaves the flags as they are; the text follows all the same.
ShareFailed(c) == Goes(c, "text")

\* What travels of a profile: not an avatar that is too large.
Travels(p) == p \cap clean

\* loadOwnProfile: the newest profile found in the self-DM or the preferences, which may
\* be older than that of the identity signed in; without one it is the identity's.
Loaded == {mine, {"name"}, Travels(Items)}

\* What is missing is sent, with all of the profile that can travel.
Share(c) ==
  /\ In(c, "share")
  /\ \E p \in Loaded :
       \/ p \subseteq call[c].found /\ Goes(c, "record") /\ UNCHANGED <<dm, faults>>
       \/ /\ ~(p \subseteq call[c].found)
          /\ dm' = dm \cup Travels(p)
          /\ call' = [call EXCEPT ![c].at = "record", ![c].found = @ \cup p]
          /\ UNCHANGED <<shareFlight, shareRunning, faults>>
       \/ ~(p \subseteq call[c].found) /\ Fault /\ ShareFailed(c) /\ UNCHANGED dm
  /\ UNCHANGED <<shareClient, shareOpened, known, sent, mine, clean, starts>>

\* The flags go into the row that was read before all of this.
Record(c) ==
  /\ In(c, "record") /\ Goes(c, "text")
  /\ sent' = IF call[c].found # call[c].flags THEN call[c].found ELSE sent
  /\ UNCHANGED <<shareClient, shareOpened, known, dm, mine, clean, starts, faults>>

\* sendText, done or failed.
Text(c) ==
  /\ In(c, "text") /\ Ends(c)
  /\ UNCHANGED <<shareClient, shareOpened, profile, starts, faults>>
-----------------------------------------------------------------------------
(* saveProfile *)

\* The identity signed in takes the new profile, which can travel, before it is sent.
StartSave(c) ==
  /\ CanBegin(c)
  /\ \E p \in {Items, {"name"}} :
       /\ mine' = Travels(p)
       /\ call' = [call EXCEPT ![c] = [Call("broadcast") EXCEPT !.found = Travels(p)]]
  /\ UNCHANGED <<shareClient, shareOpened, shareFlight, shareRunning, known, sent, dm, clean,
                 faults>>

\* After the self-DM each allowed direct message gets it; the conversation may fail to,
\* or not be listed.  The flags of the rows are left.
Broadcast(c) ==
  /\ In(c, "broadcast") /\ Ends(c)
  /\ dm' \in {dm, dm \cup call[c].found}
  /\ UNCHANGED <<shareClient, shareOpened, known, sent, mine, clean, starts, faults>>
-----------------------------------------------------------------------------
\* disconnectInternal closes the client and clears the flights.
DisconnectShared ==
  /\ shareClient # NoCall /\ shareClient' = NoCall /\ shareFlight' = NoCall
  /\ UNCHANGED <<shareOpened, shareRunning, call, profile, starts, faults>>
ConnectShared ==
  /\ shareClient = NoCall /\ shareOpened < MaxShareClients
  /\ shareOpened' = shareOpened + 1 /\ shareClient' = shareOpened'
  /\ UNCHANGED <<shareFlight, shareRunning, call, profile, starts, faults>>

CallsNext ==
  \/ \E c \in Calls :
       \/ StartSync(c) \/ StartSend(c) \/ Retry(c) \/ Deadline(c) \/ Find(c) \/ Refind(c)
       \/ ReadFlags(c) \/ Scan(c) \/ Share(c) \/ Record(c) \/ Text(c)
       \/ StartSave(c) \/ Broadcast(c)
  \/ \E n \in Syncs : SyncSucceeds(n) \/ SyncFails(n)
  \/ DisconnectShared \/ ConnectShared

CallsSpec == CallsInit /\ [][CallsNext]_callsVars
-----------------------------------------------------------------------------
(* Properties *)

\* Every variable has its type, and a caller waits for an operation that is running.
CallsTypeOK ==
  /\ shareClient \in {NoCall} \cup ShareClients /\ shareOpened \in ShareClients
  /\ shareFlight # NoCall =>
       shareFlight.owner \in ShareClients /\ shareRunning[shareFlight.sync] # NoCall
  /\ shareRunning \in [Syncs -> {NoCall} \cup ShareClients]
  /\ \A c \in Calls : call[c] # NoCall =>
       /\ call[c].tries \in 1 .. Attempts
       /\ call[c].at = "waiting" => shareRunning[call[c].sync] # NoCall
  /\ {sent, dm, mine, clean} \subseteq SUBSET Items

\* runStatefulOperation, "Run a state-mutating SDK operation at most once per active
\* client": whatever callers give up, retry or reconnect, the worker of the connected
\* client never has two of these syncs to do.
OneSyncPerClient ==
  shareClient # NoCall => Cardinality({n \in Syncs : shareRunning[n] = shareClient}) <= 1

\* ensureProfileSent, "Updates conversation record with sent flags": a flag of the row
\* is set only for what the conversation has received, however sends overlap and fail
\* (an avatar that cannot travel is flagged too, see the README).
SentFlagsAreTrue == sent \cap clean \subseteq dm
=============================================================================
