--------------------------- MODULE SharedCallsProofs ---------------------------
(***************************************************************************)
(* A connected client never has two shared syncs to do, the lookup that a  *)
(* caller joins is under way at the connected client, and the flags of a   *)
(* row say only what the peer was sent: for any number of calls, clients,  *)
(* attempts, fetches and failures.                                         *)
(***************************************************************************)
EXTENDS ClientFlights, FiniteSetTheorems, TLAPS

\* Where a call can be, and what it can want a sync for.
Places ==
  {"sync", "waiting", "delayed", "find", "refind", "flags", "scan", "share", "record",
   "text", "broadcast"}
Purposes == {"end", "refind", "share"}

\* Calls under way once n clients have been connected: each remembers one of them.
CallsOf(n) ==
  [at : Places, then : Purposes, own : 1 .. n, sync : Syncs \cup {NoCall},
   tries : Nat, flags : SUBSET Items, found : SUBSET Items]

Flights == [owner : ShareClients, sync : Syncs]

\* Clients are numbered in the order they connect.
NumbersKnown ==
  /\ shareOpened \in ShareClients /\ shareClient \in {NoCall} \cup 1 .. shareOpened
  /\ shareFlight \in {NoCall} \cup Flights
  /\ shareRunning \in [Syncs -> {NoCall} \cup 1 .. shareOpened]
  /\ call \in [Calls -> {NoCall} \cup CallsOf(shareOpened)]
  /\ sent \subseteq Items /\ dm \subseteq Items /\ mine \subseteq Items /\ clean \subseteq Items

\* The flight is that of the connected client.
FlightIsOwn == shareFlight # NoCall => shareClient # NoCall /\ shareFlight.owner = shareClient

\* What the worker of the connected client has to do is the flight.
WorkIsFlight ==
  shareClient # NoCall => \A n \in Syncs :
    shareRunning[n] = shareClient => shareFlight # NoCall /\ shareFlight.sync = n

CallsInv == NumbersKnown /\ FlightIsOwn /\ WorkIsFlight

\* The sentinel is not a client; there is a first client.
SensibleCalls ==
  /\ NoCall \notin ShareClients /\ NoCall \notin Flights /\ NoCall \notin Syncs
  /\ \A n \in ShareClients : NoCall \notin CallsOf(n)
  /\ MaxShareClients \in Nat \ {0}
-----------------------------------------------------------------------------
(* Calls *)

\* Whatever a caller does when its sync is over, it is still the same client's.
LEMMA AfterIsCall ==
  ASSUME NEW n, NEW k \in CallsOf(n), NEW ok \in BOOLEAN
  PROVE  After(k, ok) \in {NoCall} \cup CallsOf(n)
BY DEF After, CallsOf, Places

\* A call that is tried again is a call of the same client, or none.
LEMMA RetriedIsCall ==
  ASSUME NEW n, NEW k \in CallsOf(n), NEW transient \in BOOLEAN
  PROVE  Retried(k, transient) \in {NoCall} \cup CallsOf(n)
<1>1. CASE transient /\ k.tries < Attempts
  <2>1. k.tries + 1 \in Nat
    BY DEF CallsOf
  <2>2. Retried(k, transient)
          = [k EXCEPT !.at = "delayed", !.sync = NoCall, !.tries = k.tries + 1]
    BY <1>1 DEF Retried
  <2>3. QED BY <2>1, <2>2 DEF CallsOf, Places
<1>2. CASE ~(transient /\ k.tries < Attempts)
  BY <1>2, AfterIsCall DEF Retried
<1>3. QED BY <1>1, <1>2

\* A new call remembers the client connected now.
LEMMA CallIsCall ==
  ASSUME NumbersKnown, shareClient # NoCall, NEW at \in Places
  PROVE  Call(at) \in CallsOf(shareOpened)
BY DEF NumbersKnown, Call, CallsOf, Purposes

\* A step of a call that starts and ends no sync keeps the invariant.
LEMMA CallMoves ==
  ASSUME CallsInv, NEW c \in Calls, NEW k \in {NoCall} \cup CallsOf(shareOpened),
         call' = [call EXCEPT ![c] = k],
         UNCHANGED <<shareClient, shareOpened, shareFlight, shareRunning>>,
         sent' \subseteq Items, dm' \subseteq Items, mine' \subseteq Items, clean' \subseteq Items
  PROVE  CallsInv'
BY DEF CallsInv, NumbersKnown, FlightIsOwn, WorkIsFlight

\* runStatefulOperation: joining starts nothing, and without a flight to join the
\* connected client has nothing to do.
LEMMA OperateKeeps ==
  ASSUME CallsInv, SensibleCalls, shareClient # NoCall, NEW c \in Calls, NEW k \in CallsOf(shareOpened),
         Operate(c, k), UNCHANGED <<shareClient, shareOpened>>,
         sent' \subseteq Items, dm' \subseteq Items, mine' \subseteq Items, clean' \subseteq Items
  PROVE  CallsInv'
<1>1. CASE Joinable
  <2>1. shareFlight \in Flights /\ UNCHANGED <<shareFlight, shareRunning>>
    BY <1>1 DEF CallsInv, NumbersKnown, Operate, Joinable
  <2>2. [k EXCEPT !.at = "waiting", !.sync = shareFlight.sync] \in CallsOf(shareOpened)
    BY <2>1 DEF CallsOf, Places, Flights
  <2>3. call' = [call EXCEPT ![c] = [k EXCEPT !.at = "waiting", !.sync = shareFlight.sync]]
    BY <1>1 DEF Operate
  <2>4. QED BY <2>1, <2>2, <2>3, CallMoves
<1>2. CASE ~Joinable
  <2> DEFINE n == NewSync
  <2>1. n \in Syncs /\ shareRunning[n] = NoCall
    BY <1>2 DEF Operate, NewSync
  <2>2. /\ shareRunning' = [shareRunning EXCEPT ![n] = k.own]
        /\ shareFlight' = [owner |-> shareClient, sync |-> n]
        /\ call' = [call EXCEPT ![c] = [k EXCEPT !.at = "waiting", !.sync = n]]
    BY <1>2 DEF Operate
  <2>3. k.own \in 1 .. shareOpened /\ shareClient \in 1 .. shareOpened /\ shareOpened \in ShareClients
    BY DEF CallsInv, NumbersKnown, CallsOf
  <2>4. shareClient \in ShareClients
    BY <2>3, SensibleCalls DEF ShareClients, SensibleCalls
  <2>5. [k EXCEPT !.at = "waiting", !.sync = n] \in CallsOf(shareOpened)
    BY <2>1 DEF CallsOf, Places
  <2> HIDE DEF n
  <2>6. NumbersKnown'
    <3>1. shareFlight' \in Flights
      BY <2>1, <2>2, <2>4 DEF Flights
    <3>2. shareRunning' \in [Syncs -> {NoCall} \cup 1 .. shareOpened']
      BY <2>1, <2>2, <2>3 DEF CallsInv, NumbersKnown
    <3>3. call' \in [Calls -> {NoCall} \cup CallsOf(shareOpened')]
      BY <2>2, <2>5 DEF CallsInv, NumbersKnown
    <3>4. QED BY <3>1, <3>2, <3>3 DEF CallsInv, NumbersKnown
  <2>7. FlightIsOwn'
    BY <2>2 DEF FlightIsOwn
  <2>8. \A m \in Syncs : shareRunning[m] # shareClient
    <3>1. shareFlight = NoCall
      BY <1>2 DEF CallsInv, FlightIsOwn, Joinable
    <3>2. QED BY <3>1 DEF CallsInv, WorkIsFlight
  <2>9. shareFlight' # NoCall
    BY <2>1, <2>2, <2>4 DEF SensibleCalls, Flights
  <2>10. WorkIsFlight'
    BY <2>1, <2>2, <2>8, <2>9 DEF WorkIsFlight, CallsInv, NumbersKnown
  <2>11. QED BY <2>6, <2>7, <2>10 DEF CallsInv
<1>3. QED BY <1>1, <1>2

\* The end of an operation takes away its own flight only.
LEMMA EndKeeps ==
  ASSUME CallsInv, NEW n \in Syncs, shareRunning' = [shareRunning EXCEPT ![n] = NoCall],
         shareFlight' = Cleared(n), UNCHANGED <<shareClient, shareOpened>>,
         call' \in [Calls -> {NoCall} \cup CallsOf(shareOpened)],
         sent' \subseteq Items, dm' \subseteq Items, mine' \subseteq Items, clean' \subseteq Items
  PROVE  CallsInv'
<1>1. NumbersKnown'
  BY DEF CallsInv, NumbersKnown, Cleared
<1>2. FlightIsOwn'
  BY DEF CallsInv, FlightIsOwn, Cleared
<1>3. WorkIsFlight'
  <2> SUFFICES ASSUME shareClient # NoCall, NEW m \in Syncs, shareRunning'[m] = shareClient
               PROVE  shareFlight' # NoCall /\ shareFlight'.sync = m
    BY DEF WorkIsFlight
  <2>1. m # n /\ shareRunning[m] = shareClient
    BY DEF CallsInv, NumbersKnown
  <2>2. shareFlight # NoCall /\ shareFlight.sync = m
    BY <2>1 DEF CallsInv, WorkIsFlight
  <2>3. QED BY <2>1, <2>2 DEF Cleared
<1>4. QED BY <1>1, <1>2, <1>3 DEF CallsInv
-----------------------------------------------------------------------------
(* The actions *)

\* A call that goes somewhere else, or ends.
LEMMA GoesKeeps ==
  ASSUME CallsInv, NEW c \in Calls, call[c] # NoCall, NEW at \in Places, Goes(c, at) \/ Ends(c),
         UNCHANGED <<shareClient, shareOpened>>,
         sent' \subseteq Items, dm' \subseteq Items, mine' \subseteq Items, clean' \subseteq Items
  PROVE  CallsInv'
<1>1. call[c] \in CallsOf(shareOpened)
  BY DEF CallsInv, NumbersKnown
<1>2. CASE Goes(c, at)
  <2>1. call' = [call EXCEPT ![c] = [call[c] EXCEPT !.at = at]] /\ UNCHANGED <<shareFlight, shareRunning>>
    BY <1>2 DEF Goes, CallsInv, NumbersKnown
  <2>2. [call[c] EXCEPT !.at = at] \in CallsOf(shareOpened)
    BY <1>1 DEF CallsOf
  <2>3. QED BY <2>1, <2>2, CallMoves
<1>3. CASE Ends(c)
  BY <1>3, CallMoves DEF Ends
<1>4. QED BY <1>2, <1>3

\* A sync that a call wants is one more operation.
LEMMA SyncKeeps ==
  ASSUME CallsInv, SensibleCalls, shareClient # NoCall, NEW c \in Calls, NEW k \in CallsOf(shareOpened),
         NEW then \in Purposes, Sync(c, k, then), UNCHANGED <<shareClient, shareOpened>>,
         sent' \subseteq Items, dm' \subseteq Items, mine' \subseteq Items, clean' \subseteq Items
  PROVE  CallsInv'
<1>1. shareClient \in 1 .. shareOpened
  BY DEF CallsInv, NumbersKnown
<1>2. [k EXCEPT !.then = then, !.own = shareClient, !.tries = 1] \in CallsOf(shareOpened)
  BY <1>1 DEF CallsOf
<1>3. QED BY <1>2, OperateKeeps DEF Sync

\* The profile of this person stays what a profile can be.
LEMMA ProfileIsItems ==
  ASSUME CallsInv
  PROVE  /\ sent \subseteq Items /\ dm \subseteq Items
         /\ mine \subseteq Items /\ clean \subseteq Items
         /\ \A k \in CallsOf(shareOpened) : k.found \subseteq Items
         /\ \A p : Travels(p) \subseteq Items
BY DEF CallsInv, NumbersKnown, CallsOf, Travels

\* A caller asks for a sync: it joins the flight or takes off.
LEMMA StartSyncKeeps ==
  ASSUME CallsInv, SensibleCalls, NEW c \in Calls, StartSync(c)  PROVE  CallsInv'
<1>1. shareClient # NoCall /\ Sync(c, Call("sync"), "end") /\ UNCHANGED <<shareClient, shareOpened, profile>>
  BY DEF StartSync, CanBegin
<1>2. Call("sync") \in CallsOf(shareOpened)
  BY <1>1, CallIsCall DEF CallsInv, Places
<1>3. QED BY <1>1, <1>2, SyncKeeps, ProfileIsItems DEF profile, Purposes

\* A send begins.
LEMMA StartSendKeeps ==
  ASSUME CallsInv, SensibleCalls, NEW c \in Calls, StartSend(c)  PROVE  CallsInv'
<1>1. /\ shareClient # NoCall /\ call' = [call EXCEPT ![c] = Call("find")]
      /\ UNCHANGED <<shareClient, shareOpened, shareFlight, shareRunning, profile>>
  BY DEF StartSend, CanBegin
<1>2. Call("find") \in CallsOf(shareOpened)
  BY <1>1, CallIsCall DEF CallsInv, Places
<1>3. QED BY <1>1, <1>2, CallMoves, ProfileIsItems DEF profile

\* A profile is saved.
LEMMA StartSaveKeeps ==
  ASSUME CallsInv, SensibleCalls, NEW c \in Calls, StartSave(c)  PROVE  CallsInv'
<1>1. PICK p \in {Items, {"name"}} :
        /\ mine' = Travels(p)
        /\ call' = [call EXCEPT ![c] = [Call("broadcast") EXCEPT !.found = Travels(p)]]
  BY DEF StartSave
<1>2. shareClient # NoCall /\ UNCHANGED <<shareClient, shareOpened, shareFlight, shareRunning, sent, dm, clean>>
  BY DEF StartSave, CanBegin
<1>3. Call("broadcast") \in CallsOf(shareOpened)
  BY <1>2, CallIsCall DEF CallsInv, Places
<1>4. [Call("broadcast") EXCEPT !.found = Travels(p)] \in CallsOf(shareOpened)
  BY <1>3, ProfileIsItems DEF CallsOf
<1>5. QED BY <1>1, <1>2, <1>4, CallMoves, ProfileIsItems

\* A failed call is tried again, or given up.
LEMMA RetryKeeps ==
  ASSUME CallsInv, SensibleCalls, NEW c \in Calls, Retry(c)  PROVE  CallsInv'
<1>1. call[c] \in CallsOf(shareOpened) /\ UNCHANGED <<shareClient, shareOpened, profile>>
  BY DEF Retry, In, CallsInv, NumbersKnown
<1>2. CASE shareClient # NoCall /\ Operate(c, call[c])
  BY <1>1, <1>2, OperateKeeps, ProfileIsItems DEF profile
<1>3. CASE call' = [call EXCEPT ![c] = After(@, FALSE)] /\ UNCHANGED <<shareFlight, shareRunning>>
  <2>1. call' = [call EXCEPT ![c] = After(call[c], FALSE)]
    BY <1>3 DEF CallsInv, NumbersKnown
  <2>2. QED BY <1>1, <1>3, <2>1, AfterIsCall, CallMoves, ProfileIsItems DEF profile
<1>4. QED BY <1>2, <1>3 DEF Retry

\* A caller's deadline passes: the flight goes on without it.
LEMMA DeadlineKeeps ==
  ASSUME CallsInv, SensibleCalls, NEW c \in Calls, Deadline(c)  PROVE  CallsInv'
<1>1. call[c] \in CallsOf(shareOpened)
  BY DEF Deadline, In, CallsInv, NumbersKnown
<1>2. call' = [call EXCEPT ![c] = After(call[c], FALSE)]
  BY DEF Deadline, CallsInv, NumbersKnown
<1>3. UNCHANGED <<shareClient, shareOpened, shareFlight, shareRunning, profile>>
  BY DEF Deadline, FlightLeft
<1>4. QED BY <1>1, <1>2, <1>3, AfterIsCall, CallMoves, ProfileIsItems DEF profile

\* A send looks for its conversation.
LEMMA FindKeeps ==
  ASSUME CallsInv, SensibleCalls, NEW c \in Calls, Find(c)  PROVE  CallsInv'
<1>1. call[c] \in CallsOf(shareOpened) /\ call[c] # NoCall /\ UNCHANGED <<shareClient, shareOpened, profile>>
  BY DEF Find, In, CallsInv, NumbersKnown
<1>2. CASE Goes(c, "flags") \/ Ends(c)
  BY <1>1, <1>2, GoesKeeps, ProfileIsItems DEF profile, Places
<1>3. CASE shareClient # NoCall /\ Sync(c, call[c], "refind")
  BY <1>1, <1>3, SyncKeeps, ProfileIsItems DEF profile, Purposes
<1>4. QED BY <1>2, <1>3 DEF Find

\* It looks again after a sync.
LEMMA RefindKeeps ==
  ASSUME CallsInv, SensibleCalls, NEW c \in Calls, Refind(c)  PROVE  CallsInv'
<1>1. call[c] # NoCall /\ UNCHANGED <<shareClient, shareOpened, profile>>
  BY DEF Refind, In
<1>2. Goes(c, "flags") \/ Ends(c)
  BY DEF Refind
<1>3. QED BY <1>1, <1>2, GoesKeeps, ProfileIsItems DEF profile, Places

\* It reads the flags of the row.
LEMMA ReadFlagsKeeps ==
  ASSUME CallsInv, SensibleCalls, NEW c \in Calls, ReadFlags(c)  PROVE  CallsInv'
<1> DEFINE at == IF sent = Items \/ shareClient = NoCall THEN "text" ELSE "scan"
<1> DEFINE k == [call[c] EXCEPT !.flags = sent, !.found = sent, !.at = at]
<1>1. call[c] \in CallsOf(shareOpened) /\ UNCHANGED <<shareClient, shareOpened, shareFlight, shareRunning, profile>>
  BY DEF ReadFlags, In, CallsInv, NumbersKnown
<1>2. call' = [call EXCEPT ![c] = k]
  BY DEF ReadFlags, CallsInv, NumbersKnown
<1>3. at \in Places
  BY DEF Places
<1> HIDE DEF at
<1>4. k \in CallsOf(shareOpened)
  BY <1>1, <1>3, ProfileIsItems DEF CallsOf
<1> HIDE DEF k
<1>5. QED BY <1>1, <1>2, <1>4, CallMoves, ProfileIsItems DEF profile

\* It scans the messages for its own profile.
LEMMA ScanKeeps ==
  ASSUME CallsInv, SensibleCalls, NEW c \in Calls, Scan(c)  PROVE  CallsInv'
<1>1. call[c] \in CallsOf(shareOpened) /\ UNCHANGED <<shareClient, shareOpened, profile>>
  BY DEF Scan, In, CallsInv, NumbersKnown
<1>2. PICK seen \in {{}, dm} :
        LET k == [call[c] EXCEPT !.found = @ \cup seen] IN
        \/ shareClient # NoCall /\ Sync(c, k, "share")
        \/ /\ shareClient = NoCall /\ call' = [call EXCEPT ![c] = [k EXCEPT !.at = "share"]]
           /\ UNCHANGED <<shareFlight, shareRunning>>
  BY DEF Scan
<1> DEFINE k == [call[c] EXCEPT !.found = call[c].found \cup seen]
<1>3. k \in CallsOf(shareOpened)
  BY <1>1, ProfileIsItems DEF CallsOf
<1>4. \/ shareClient # NoCall /\ Sync(c, k, "share")
      \/ /\ call' = [call EXCEPT ![c] = [k EXCEPT !.at = "share"]]
         /\ UNCHANGED <<shareFlight, shareRunning>>
  BY <1>1, <1>2 DEF CallsOf
<1> HIDE DEF k
<1>5. [k EXCEPT !.at = "share"] \in CallsOf(shareOpened)
  BY <1>3 DEF CallsOf, Places
<1>6. QED BY <1>1, <1>3, <1>4, <1>5, SyncKeeps, CallMoves, ProfileIsItems DEF profile, Purposes

\* It sends the profile.
LEMMA ShareKeeps ==
  ASSUME CallsInv, SensibleCalls, NEW c \in Calls, Share(c)  PROVE  CallsInv'
<1>1. /\ call[c] \in CallsOf(shareOpened) /\ call[c] # NoCall
      /\ UNCHANGED <<shareClient, shareOpened, sent, mine, clean>>
  BY DEF Share, In, CallsInv, NumbersKnown
<1>2. PICK p \in Loaded :
        \/ Goes(c, "record") /\ UNCHANGED dm
        \/ /\ dm' = dm \cup Travels(p)
           /\ call' = [call EXCEPT ![c].at = "record", ![c].found = @ \cup p]
           /\ UNCHANGED <<shareFlight, shareRunning>>
        \/ Goes(c, "text") /\ UNCHANGED dm
  BY DEF Share, ShareFailed
<1>3. p \subseteq Items
  BY ProfileIsItems DEF Loaded, Items
<1>4. CASE UNCHANGED dm /\ (Goes(c, "record") \/ Goes(c, "text"))
  BY <1>1, <1>4, GoesKeeps, ProfileIsItems DEF Places
<1>5. CASE /\ dm' = dm \cup Travels(p)
           /\ call' = [call EXCEPT ![c].at = "record", ![c].found = @ \cup p]
           /\ UNCHANGED <<shareFlight, shareRunning>>
  <2> DEFINE k == [call[c] EXCEPT !.at = "record", !.found = call[c].found \cup p]
  <2>1. call' = [call EXCEPT ![c] = k]
    BY <1>1, <1>5 DEF CallsInv, NumbersKnown, CallsOf
  <2>2. k \in CallsOf(shareOpened)
    BY <1>1, <1>3, ProfileIsItems DEF CallsOf, Places
  <2> HIDE DEF k
  <2>3. dm' \subseteq Items
    BY <1>5, ProfileIsItems
  <2>4. QED BY <1>1, <1>5, <2>1, <2>2, <2>3, CallMoves, ProfileIsItems
<1>6. QED BY <1>2, <1>4, <1>5

\* It writes the flags.
LEMMA RecordKeeps ==
  ASSUME CallsInv, SensibleCalls, NEW c \in Calls, Record(c)  PROVE  CallsInv'
<1>1. /\ call[c] \in CallsOf(shareOpened) /\ call[c] # NoCall
      /\ UNCHANGED <<shareClient, shareOpened, dm, mine, clean>>
  BY DEF Record, In, CallsInv, NumbersKnown
<1>2. Goes(c, "text") /\ sent' \subseteq Items
  BY <1>1, ProfileIsItems DEF Record
<1>3. QED BY <1>1, <1>2, GoesKeeps, ProfileIsItems DEF Places

\* It sends the text.
LEMMA TextKeeps ==
  ASSUME CallsInv, SensibleCalls, NEW c \in Calls, Text(c)  PROVE  CallsInv'
<1>1. call[c] # NoCall /\ Ends(c) /\ UNCHANGED <<shareClient, shareOpened, profile>>
  BY DEF Text, In
<1>2. QED BY <1>1, GoesKeeps, ProfileIsItems DEF profile, Places

\* A saved profile is sent to a peer.
LEMMA BroadcastKeeps ==
  ASSUME CallsInv, SensibleCalls, NEW c \in Calls, Broadcast(c)  PROVE  CallsInv'
<1>1. /\ call[c] \in CallsOf(shareOpened) /\ call[c] # NoCall /\ Ends(c)
      /\ UNCHANGED <<shareClient, shareOpened, sent, mine, clean>>
  BY DEF Broadcast, In, CallsInv, NumbersKnown
<1>2. dm' \subseteq Items
  BY <1>1, ProfileIsItems DEF Broadcast
<1>3. QED BY <1>1, <1>2, GoesKeeps, ProfileIsItems DEF Places

\* A sync ends well, and with it its flight ...
LEMMA SyncSucceedsKeeps ==
  ASSUME CallsInv, SensibleCalls, NEW n \in Syncs, SyncSucceeds(n)  PROVE  CallsInv'
<1>1. /\ shareRunning' = [shareRunning EXCEPT ![n] = NoCall] /\ shareFlight' = Cleared(n)
      /\ call' = [c \in Calls |-> IF c \in Waiting(n) THEN After(call[c], TRUE) ELSE call[c]]
      /\ UNCHANGED <<shareClient, shareOpened, sent, dm, mine, clean>>
  BY DEF SyncSucceeds
<1>2. ASSUME NEW c \in Calls, c \in Waiting(n)
      PROVE  After(call[c], TRUE) \in {NoCall} \cup CallsOf(shareOpened)
  <2>1. call[c] \in CallsOf(shareOpened)
    BY <1>2 DEF Waiting, In, CallsInv, NumbersKnown
  <2>2. QED BY <2>1, AfterIsCall
<1>3. call' \in [Calls -> {NoCall} \cup CallsOf(shareOpened)]
  BY <1>1, <1>2 DEF CallsInv, NumbersKnown
<1>4. QED BY <1>1, <1>3, EndKeeps, ProfileIsItems

\* ... or fails, and clears its own flight only.
LEMMA SyncFailsKeeps ==
  ASSUME CallsInv, SensibleCalls, NEW n \in Syncs, SyncFails(n)  PROVE  CallsInv'
<1>1. PICK transient \in BOOLEAN :
        call' = [c \in Calls |->
          IF c \in Waiting(n) THEN Retried(call[c], transient) ELSE call[c]]
  BY DEF SyncFails
<1>2. /\ shareRunning' = [shareRunning EXCEPT ![n] = NoCall] /\ shareFlight' = Cleared(n)
      /\ UNCHANGED <<shareClient, shareOpened, profile>>
  BY DEF SyncFails
<1>3. ASSUME NEW c \in Calls, c \in Waiting(n)
      PROVE  Retried(call[c], transient) \in {NoCall} \cup CallsOf(shareOpened)
  <2>1. call[c] \in CallsOf(shareOpened)
    BY <1>3 DEF Waiting, In, CallsInv, NumbersKnown
  <2>2. QED BY <2>1, RetriedIsCall
<1>4. call' \in [Calls -> {NoCall} \cup CallsOf(shareOpened)]
  BY <1>1, <1>3 DEF CallsInv, NumbersKnown
<1>5. QED BY <1>2, <1>4, EndKeeps, ProfileIsItems DEF profile

\* A disconnect leaves the flight to its client.
LEMMA DisconnectKeeps ==
  ASSUME CallsInv, SensibleCalls, DisconnectShared  PROVE  CallsInv'
BY DEF DisconnectShared, profile, CallsInv, NumbersKnown, FlightIsOwn, WorkIsFlight

\* The next client is a new one: no worker has anything to do for it yet.
LEMMA ConnectKeeps ==
  ASSUME CallsInv, SensibleCalls, ConnectShared  PROVE  CallsInv'
<1>1. /\ shareClient = NoCall /\ shareOpened < MaxShareClients /\ shareOpened' = shareOpened + 1 /\ shareClient' = shareOpened'
      /\ UNCHANGED <<shareFlight, shareRunning, call, profile>>
  BY DEF ConnectShared
<1>2. shareOpened \in Nat /\ shareOpened' \in ShareClients /\ MaxShareClients \in Nat
  BY <1>1 DEF CallsInv, NumbersKnown, ShareClients, SensibleCalls
<1>3. 1 .. shareOpened \subseteq 1 .. shareOpened' /\ shareOpened' \in 1 .. shareOpened' /\ shareOpened' \notin 1 .. shareOpened
  BY <1>1, <1>2 DEF ShareClients
<1>4. CallsOf(shareOpened) \subseteq CallsOf(shareOpened')
  BY <1>3 DEF CallsOf
<1>5. NumbersKnown'
  <2>1. shareRunning' \in [Syncs -> {NoCall} \cup 1 .. shareOpened']
    BY <1>1, <1>3 DEF CallsInv, NumbersKnown
  <2>2. call' \in [Calls -> {NoCall} \cup CallsOf(shareOpened')]
    BY <1>1, <1>4 DEF CallsInv, NumbersKnown
  <2>3. QED BY <1>1, <1>2, <1>3, <2>1, <2>2 DEF CallsInv, NumbersKnown, profile
<1>6. shareFlight = NoCall
  BY <1>1 DEF CallsInv, FlightIsOwn
<1>7. \A n \in Syncs : shareRunning[n] # shareOpened'
  <2>1. shareOpened' # NoCall
    BY <1>2 DEF SensibleCalls
  <2>2. QED BY <1>3, <2>1 DEF CallsInv, NumbersKnown
<1>8. QED BY <1>1, <1>5, <1>6, <1>7 DEF CallsInv, FlightIsOwn, WorkIsFlight
-----------------------------------------------------------------------------
(* The theorems *)

\* The invariant holds at the start ...
LEMMA InitIsSound ==
  ASSUME SensibleCalls, CallsInit  PROVE  CallsInv
<1>1. 1 \in ShareClients
  BY DEF ShareClients, SensibleCalls
<1>2. \A n \in Syncs : shareRunning[n] # shareClient
  BY <1>1 DEF CallsInit, SensibleCalls
<1>3. QED
  BY <1>1, <1>2 DEF CallsInit, Items, CallsInv, NumbersKnown, FlightIsOwn, WorkIsFlight

\* ... and in every step.
LEMMA StepKeeps ==
  ASSUME CallsInv, SensibleCalls, [CallsNext]_callsVars  PROVE  CallsInv'
<1>1. CASE UNCHANGED callsVars
  BY <1>1 DEF callsVars, profile, CallsInv, NumbersKnown, FlightIsOwn, WorkIsFlight
<1>2. ASSUME NEW c \in Calls,
             \/ StartSync(c) \/ StartSend(c) \/ StartSave(c) \/ Retry(c) \/ Deadline(c)
             \/ Find(c) \/ Refind(c)
      PROVE  CallsInv'
  BY <1>2, StartSyncKeeps, StartSendKeeps, StartSaveKeeps, RetryKeeps, DeadlineKeeps,
     FindKeeps, RefindKeeps
<1>3. ASSUME NEW c \in Calls,
             \/ ReadFlags(c) \/ Scan(c) \/ Share(c) \/ Record(c) \/ Text(c) \/ Broadcast(c)
      PROVE  CallsInv'
  BY <1>3, ReadFlagsKeeps, ScanKeeps, ShareKeeps, RecordKeeps, TextKeeps, BroadcastKeeps
<1>4. ASSUME NEW n \in Syncs, SyncSucceeds(n) \/ SyncFails(n)
      PROVE  CallsInv'
  BY <1>4, SyncSucceedsKeeps, SyncFailsKeeps
<1>5. CASE DisconnectShared \/ ConnectShared
  BY <1>5, DisconnectKeeps, ConnectKeeps
<1>6. QED BY <1>1, <1>2, <1>3, <1>4, <1>5 DEF CallsNext

\* The inductive invariant: who has a worker busy, and which of its syncs is the flight
\* of runStatefulOperation.
THEOREM FlightsAreTracked ==
  ASSUME SensibleCalls  PROVE  CallsSpec => []CallsInv
<1>1. CallsInit => CallsInv
  BY InitIsSound
<1>2. CallsInv /\ [CallsNext]_callsVars => CallsInv'
  BY StepKeeps
<1>3. QED BY <1>1, <1>2, PTL DEF CallsSpec

\* If the flight is the worker's only sync, there is one sync per client.
LEMMA TrackedIsOne ==
  ASSUME CallsInv  PROVE  OneSyncPerClient
<1> SUFFICES ASSUME shareClient # NoCall
             PROVE  Cardinality({n \in Syncs : shareRunning[n] = shareClient}) <= 1
  BY DEF OneSyncPerClient
<1> DEFINE busy == {n \in Syncs : shareRunning[n] = shareClient}
<1>1. CASE busy = {}
  BY <1>1, FS_EmptySet
<1>2. CASE busy # {}
  <2>1. busy = {shareFlight.sync}
    BY <1>2 DEF CallsInv, WorkIsFlight
  <2> HIDE DEF busy
  <2>2. Cardinality(busy) = 1
    BY <2>1, FS_Singleton
  <2>3. QED BY <2>2 DEF busy
<1>3. QED BY <1>1, <1>2

\* runStatefulOperation, "Run a state-mutating SDK operation at most once per active
\* client", for any number of calls and clients, whatever they give up or retry.
THEOREM AtMostOnePerClient ==
  ASSUME SensibleCalls  PROVE  CallsSpec => []OneSyncPerClient
<1>1. CallsInv => OneSyncPerClient
  BY TrackedIsOne
<1>2. QED BY <1>1, FlightsAreTracked, PTL
-----------------------------------------------------------------------------
(* The flags of the row *)

\* What a call has found is true of the conversation: all of it that can travel is
\* there.  What a saved profile is about to send is not yet.
FoundIsSent ==
  \A c \in Calls :
    call[c] # NoCall /\ call[c].at # "broadcast" => call[c].found \cap clean \subseteq dm

FlagInv == CallsInv /\ FoundIsSent /\ SentFlagsAreTrue

\* Whatever one call does, the conversation forgets nothing.
LEMMA OneCallFinds ==
  ASSUME FlagInv, CallsInv', NEW c \in Calls, NEW k, call' = [call EXCEPT ![c] = k],
         clean' = clean, dm \subseteq dm', sent' \cap clean \subseteq dm',
         k = NoCall \/ k.at = "broadcast" \/ k.found \cap clean \subseteq dm'
  PROVE  FlagInv'
<1>1. call \in [Calls -> {NoCall} \cup CallsOf(shareOpened)]
  BY DEF FlagInv, CallsInv, NumbersKnown
<1>2. ASSUME NEW d \in Calls, call'[d] # NoCall, call'[d].at # "broadcast"
      PROVE  call'[d].found \cap clean \subseteq dm'
  <2>1. CASE d = c
    BY <1>1, <1>2, <2>1
  <2>2. CASE d # c
    <3>1. call'[d] = call[d]
      BY <1>1, <2>2
    <3>2. QED BY <1>2, <3>1 DEF FlagInv, FoundIsSent
  <2>3. QED BY <2>1, <2>2
<1>3. QED BY <1>2 DEF FlagInv, FoundIsSent, SentFlagsAreTrue

\* A call that goes on with what it has found, or ends.
LEMMA SameFinds ==
  ASSUME FlagInv, CallsInv', NEW c \in Calls, call[c] # NoCall, call[c].at # "broadcast",
         NEW k, k = NoCall \/ k.found = call[c].found, call' = [call EXCEPT ![c] = k],
         clean' = clean, dm \subseteq dm', sent' \cap clean \subseteq dm'
  PROVE  FlagInv'
<1>1. call[c].found \cap clean \subseteq dm
  BY DEF FlagInv, FoundIsSent
<1>2. QED BY <1>1, OneCallFinds

\* What is known of the flags survives a step that sends nothing.
LEMMA FlagsStay ==
  ASSUME FlagInv, UNCHANGED <<sent, dm, clean>>
  PROVE  clean' = clean /\ dm \subseteq dm' /\ sent' \cap clean \subseteq dm'
BY DEF FlagInv, SentFlagsAreTrue

\* So does what a call has found, as it goes on ...
LEMMA GoesFinds ==
  ASSUME FlagInv, CallsInv', NEW c \in Calls, call[c] # NoCall, call[c].at # "broadcast",
         NEW at, Goes(c, at) \/ Ends(c),
         clean' = clean, dm \subseteq dm', sent' \cap clean \subseteq dm'
  PROVE  FlagInv'
<1>1. call[c] \in CallsOf(shareOpened) /\ call \in [Calls -> {NoCall} \cup CallsOf(shareOpened)]
  BY DEF FlagInv, CallsInv, NumbersKnown
<1>2. CASE Goes(c, at)
  <2>1. call' = [call EXCEPT ![c] = [call[c] EXCEPT !.at = at]]
    BY <1>1, <1>2 DEF Goes
  <2>2. [call[c] EXCEPT !.at = at].found = call[c].found
    BY <1>1 DEF CallsOf
  <2>3. QED BY <2>1, <2>2, SameFinds
<1>3. CASE Ends(c)
  BY <1>3, SameFinds DEF Ends
<1>4. QED BY <1>2, <1>3

\* ... with an operation ...
LEMMA OperateFinds ==
  ASSUME FlagInv, CallsInv', NEW c \in Calls, NEW k \in CallsOf(shareOpened),
         k.found \cap clean \subseteq dm, Operate(c, k), UNCHANGED <<sent, dm, clean>>
  PROVE  FlagInv'
<1>1. PICK n : call' = [call EXCEPT ![c] = [k EXCEPT !.at = "waiting", !.sync = n]]
  BY DEF Operate
<1>2. [k EXCEPT !.at = "waiting", !.sync = n].found = k.found
  BY DEF CallsOf
<1>3. QED BY <1>1, <1>2, OneCallFinds, FlagsStay

\* ... with a sync ...
LEMMA SyncFinds ==
  ASSUME FlagInv, CallsInv', NEW c \in Calls, NEW k \in CallsOf(shareOpened), shareClient # NoCall,
         k.found \cap clean \subseteq dm, NEW then \in Purposes, Sync(c, k, then),
         UNCHANGED <<sent, dm, clean>>
  PROVE  FlagInv'
<1> DEFINE m == [k EXCEPT !.then = then, !.own = shareClient, !.tries = 1]
<1>1. shareClient \in 1 .. shareOpened
  BY DEF FlagInv, CallsInv, NumbersKnown
<1>2. m \in CallsOf(shareOpened) /\ m.found = k.found
  BY <1>1 DEF CallsOf
<1>3. Operate(c, m)
  BY DEF Sync
<1> HIDE DEF m
<1>4. QED BY <1>2, <1>3, OperateFinds

\* ... or as it starts: it has found nothing yet.
LEMMA StartsFind ==
  ASSUME FlagInv, CallsInv', NEW c \in Calls, StartSync(c) \/ StartSend(c) \/ StartSave(c)
  PROVE  FlagInv'
<1>1. shareClient # NoCall /\ UNCHANGED <<sent, dm, clean>>
  BY DEF StartSync, StartSend, StartSave, CanBegin, profile
<1>2. Call("sync") \in CallsOf(shareOpened) /\ Call("sync").found = {}
  BY <1>1, CallIsCall DEF FlagInv, CallsInv, Places, Call
<1>3. CASE StartSync(c)
  <2>1. Sync(c, Call("sync"), "end")
    BY <1>3 DEF StartSync
  <2>2. QED BY <1>1, <1>2, <2>1, SyncFinds DEF Purposes
<1>4. CASE StartSend(c)
  <2>1. call' = [call EXCEPT ![c] = Call("find")]
    BY <1>4 DEF StartSend
  <2>2. Call("find").found = {}
    BY DEF Call
  <2>3. QED BY <1>1, <2>1, <2>2, OneCallFinds, FlagsStay
<1>5. CASE StartSave(c)
  <2>1. PICK p : call' = [call EXCEPT ![c] = [Call("broadcast") EXCEPT !.found = Travels(p)]]
    BY <1>5 DEF StartSave
  <2>2. [Call("broadcast") EXCEPT !.found = Travels(p)].at = "broadcast"
    BY DEF Call
  <2>3. QED BY <1>1, <2>1, <2>2, OneCallFinds, FlagsStay
<1>6. QED BY <1>3, <1>4, <1>5

\* A sync that is over changes nothing in what its callers have found.
LEMMA AfterFinds ==
  ASSUME NEW n, NEW k \in CallsOf(n), NEW ok \in BOOLEAN
  PROVE  After(k, ok) = NoCall \/ After(k, ok).found = k.found
BY DEF After, CallsOf

\* A retried call has found what it had.
LEMMA RetriedFinds ==
  ASSUME NEW n, NEW k \in CallsOf(n), NEW transient \in BOOLEAN
  PROVE  Retried(k, transient) = NoCall \/ Retried(k, transient).found = k.found
<1>1. CASE transient /\ k.tries < Attempts
  BY <1>1 DEF Retried, CallsOf
<1>2. CASE ~(transient /\ k.tries < Attempts)
  BY <1>2, AfterFinds DEF Retried
<1>3. QED BY <1>1, <1>2

\* Retries and deadlines find nothing new.
LEMMA RetryFinds ==
  ASSUME FlagInv, CallsInv', NEW c \in Calls, Retry(c) \/ Deadline(c)
  PROVE  FlagInv'
<1>1. /\ call[c] \in CallsOf(shareOpened) /\ call[c] # NoCall /\ call[c].at # "broadcast"
      /\ UNCHANGED <<sent, dm, clean>>
  BY DEF Retry, Deadline, In, FlagInv, CallsInv, NumbersKnown, profile
<1>2. call[c].found \cap clean \subseteq dm
  BY <1>1 DEF FlagInv, FoundIsSent
<1>3. CASE Operate(c, call[c])
  BY <1>1, <1>2, <1>3, OperateFinds
<1>4. CASE call' = [call EXCEPT ![c] = After(@, FALSE)]
  <2>1. call' = [call EXCEPT ![c] = After(call[c], FALSE)]
    BY <1>4 DEF FlagInv, CallsInv, NumbersKnown
  <2>2. QED BY <1>1, <2>1, AfterFinds, SameFinds, FlagsStay
<1>5. QED BY <1>3, <1>4 DEF Retry, Deadline

\* Nor do the steps of a send that look for the conversation or send its text.
LEMMA FindFinds ==
  ASSUME FlagInv, CallsInv', NEW c \in Calls, Find(c) \/ Refind(c) \/ Text(c)
  PROVE  FlagInv'
<1>1. /\ call[c] \in CallsOf(shareOpened) /\ call[c] # NoCall /\ call[c].at # "broadcast"
      /\ UNCHANGED <<sent, dm, clean>>
  BY DEF Find, Refind, Text, In, FlagInv, CallsInv, NumbersKnown, profile
<1>2. CASE shareClient # NoCall /\ Sync(c, call[c], "refind")
  <2>1. call[c].found \cap clean \subseteq dm
    BY <1>1 DEF FlagInv, FoundIsSent
  <2>2. QED BY <1>1, <1>2, <2>1, SyncFinds DEF Purposes
<1>3. CASE Goes(c, "flags") \/ Ends(c)
  BY <1>1, <1>3, GoesFinds, FlagsStay
<1>4. QED BY <1>2, <1>3 DEF Find, Refind, Text

\* The flags are those of the row, which say only what has been sent.
LEMMA ReadFlagsFinds ==
  ASSUME FlagInv, CallsInv', NEW c \in Calls, ReadFlags(c)  PROVE  FlagInv'
<1> DEFINE at == IF sent = Items \/ shareClient = NoCall THEN "text" ELSE "scan"
<1> DEFINE k == [call[c] EXCEPT !.flags = sent, !.found = sent, !.at = at]
<1>1. call[c] \in CallsOf(shareOpened) /\ UNCHANGED <<sent, dm, clean>>
  BY DEF ReadFlags, In, FlagInv, CallsInv, NumbersKnown, profile
<1>2. call' = [call EXCEPT ![c] = k]
  BY DEF ReadFlags, FlagInv, CallsInv, NumbersKnown
<1>3. k.found = sent
  <2> HIDE DEF at
  <2>1. QED BY <1>1 DEF CallsOf
<1> HIDE DEF k
<1>4. k.found \cap clean \subseteq dm'
  BY <1>1, <1>3 DEF FlagInv, SentFlagsAreTrue
<1>5. QED BY <1>1, <1>2, <1>4, OneCallFinds, FlagsStay

\* What the search finds among the messages is there.
LEMMA ScanFinds ==
  ASSUME FlagInv, CallsInv', NEW c \in Calls, Scan(c)  PROVE  FlagInv'
<1>1. /\ call[c] \in CallsOf(shareOpened) /\ call[c] # NoCall /\ call[c].at # "broadcast"
      /\ UNCHANGED <<sent, dm, clean>>
  BY DEF Scan, In, FlagInv, CallsInv, NumbersKnown, profile
<1>2. PICK seen \in {{}, dm} :
        LET k == [call[c] EXCEPT !.found = @ \cup seen] IN
        \/ shareClient # NoCall /\ Sync(c, k, "share")
        \/ /\ shareClient = NoCall /\ call' = [call EXCEPT ![c] = [k EXCEPT !.at = "share"]]
           /\ UNCHANGED <<shareFlight, shareRunning>>
  BY DEF Scan
<1> DEFINE k == [call[c] EXCEPT !.found = call[c].found \cup seen]
<1>3. dm \subseteq Items
  BY DEF FlagInv, CallsInv, NumbersKnown
<1>4. k \in CallsOf(shareOpened) /\ k.found = call[c].found \cup seen
  BY <1>1, <1>3 DEF CallsOf
<1>5. \/ shareClient # NoCall /\ Sync(c, k, "share")
      \/ call' = [call EXCEPT ![c] = [k EXCEPT !.at = "share"]]
  BY <1>1, <1>2 DEF CallsOf
<1>6. k.found \cap clean \subseteq dm
  BY <1>1, <1>4 DEF FlagInv, FoundIsSent
<1> HIDE DEF k
<1>7. [k EXCEPT !.at = "share"].found = k.found
  BY <1>4 DEF CallsOf
<1>8. CASE shareClient # NoCall /\ Sync(c, k, "share")
  BY <1>1, <1>4, <1>6, <1>8, SyncFinds DEF Purposes
<1>9. CASE call' = [call EXCEPT ![c] = [k EXCEPT !.at = "share"]]
  BY <1>1, <1>6, <1>7, <1>9, OneCallFinds, FlagsStay
<1>10. QED BY <1>5, <1>8, <1>9

\* What the call counts as found when it has sent its profile can travel, and has, or
\* is an avatar that cannot.
LEMMA ShareFinds ==
  ASSUME FlagInv, CallsInv', NEW c \in Calls, Share(c)  PROVE  FlagInv'
<1>1. /\ call[c] \in CallsOf(shareOpened) /\ call[c] # NoCall /\ call[c].at # "broadcast"
      /\ UNCHANGED <<sent, clean>>
  BY DEF Share, In, FlagInv, CallsInv, NumbersKnown
<1>2. PICK p \in Loaded :
        \/ Goes(c, "record") /\ UNCHANGED dm
        \/ /\ dm' = dm \cup Travels(p)
           /\ call' = [call EXCEPT ![c].at = "record", ![c].found = @ \cup p]
           /\ UNCHANGED <<shareFlight, shareRunning>>
        \/ Goes(c, "text") /\ UNCHANGED dm
  BY DEF Share, ShareFailed
<1>3. CASE UNCHANGED dm /\ (Goes(c, "record") \/ Goes(c, "text"))
  BY <1>1, <1>3, GoesFinds, FlagsStay
<1>4. CASE /\ dm' = dm \cup Travels(p)
           /\ call' = [call EXCEPT ![c].at = "record", ![c].found = @ \cup p]
  <2> DEFINE k == [call[c] EXCEPT !.at = "record", !.found = call[c].found \cup p]
  <2>1. call' = [call EXCEPT ![c] = k]
    BY <1>1, <1>4 DEF FlagInv, CallsInv, NumbersKnown, CallsOf
  <2>2. k.found = call[c].found \cup p
    BY <1>1 DEF CallsOf
  <2>3. k.found \cap clean \subseteq dm'
    BY <1>1, <1>4, <2>2 DEF FlagInv, FoundIsSent, Travels
  <2> HIDE DEF k
  <2>4. dm \subseteq dm' /\ sent' \cap clean \subseteq dm'
    BY <1>1, <1>4 DEF FlagInv, SentFlagsAreTrue
  <2>5. QED BY <1>1, <2>1, <2>3, <2>4, OneCallFinds
<1>5. QED BY <1>2, <1>3, <1>4

\* The row is given what this call has found: true, whatever was recorded meanwhile.
LEMMA RecordFinds ==
  ASSUME FlagInv, CallsInv', NEW c \in Calls, Record(c)  PROVE  FlagInv'
<1>1. /\ call[c] # NoCall /\ call[c].at # "broadcast" /\ Goes(c, "text")
      /\ UNCHANGED <<dm, clean>>
  BY DEF Record, In
<1>2. sent' \cap clean \subseteq dm'
  BY <1>1 DEF Record, FlagInv, FoundIsSent, SentFlagsAreTrue
<1>3. QED BY <1>1, <1>2, GoesFinds

\* A broadcast has found what it has sent.
LEMMA BroadcastFinds ==
  ASSUME FlagInv, CallsInv', NEW c \in Calls, Broadcast(c)  PROVE  FlagInv'
<1>1. /\ call' = [call EXCEPT ![c] = NoCall] /\ clean' = clean /\ sent' = sent
      /\ dm \subseteq dm'
  BY DEF Broadcast, Ends
<1>2. sent' \cap clean \subseteq dm'
  BY <1>1 DEF FlagInv, SentFlagsAreTrue
<1>3. QED BY <1>1, <1>2, OneCallFinds

\* The end of a sync finds nothing new.
LEMMA EndFinds ==
  ASSUME FlagInv, CallsInv', NEW n \in Syncs, SyncSucceeds(n) \/ SyncFails(n)
  PROVE  FlagInv'
<1>1. UNCHANGED <<sent, dm, clean>>
  BY DEF SyncSucceeds, SyncFails, profile
<1>2. PICK r \in [Calls -> {NoCall} \cup CallsOf(shareOpened)] :
        /\ \A c \in Waiting(n) : r[c] = NoCall \/ r[c].found = call[c].found
        /\ call' = [c \in Calls |-> IF c \in Waiting(n) THEN r[c] ELSE call[c]]
  <2>1. ASSUME NEW c \in Waiting(n)  PROVE  c \in Calls /\ call[c] \in CallsOf(shareOpened)
    BY <2>1 DEF Waiting, In, FlagInv, CallsInv, NumbersKnown
  <2>2. CASE SyncSucceeds(n)
    <3> DEFINE r == [c \in Calls |-> IF c \in Waiting(n) THEN After(call[c], TRUE) ELSE NoCall]
    <3>1. r \in [Calls -> {NoCall} \cup CallsOf(shareOpened)]
      BY <2>1, AfterIsCall
    <3>2. \A c \in Waiting(n) : r[c] = NoCall \/ r[c].found = call[c].found
      BY <2>1, AfterFinds
    <3>3. call' = [c \in Calls |-> IF c \in Waiting(n) THEN r[c] ELSE call[c]]
      BY <2>2 DEF SyncSucceeds
    <3>4. QED BY <3>1, <3>2, <3>3
  <2>3. CASE SyncFails(n)
    <3>1. PICK transient \in BOOLEAN :
            call' = [c \in Calls |->
              IF c \in Waiting(n) THEN Retried(call[c], transient) ELSE call[c]]
      BY <2>3 DEF SyncFails
    <3> DEFINE r == [c \in Calls |->
                      IF c \in Waiting(n) THEN Retried(call[c], transient) ELSE NoCall]
    <3>2. r \in [Calls -> {NoCall} \cup CallsOf(shareOpened)]
      BY <2>1, RetriedIsCall
    <3>3. \A c \in Waiting(n) : r[c] = NoCall \/ r[c].found = call[c].found
      BY <2>1, RetriedFinds
    <3>4. call' = [c \in Calls |-> IF c \in Waiting(n) THEN r[c] ELSE call[c]]
      BY <3>1
    <3>5. QED BY <3>2, <3>3, <3>4
  <2>4. QED BY <2>2, <2>3
<1>3. ASSUME NEW c \in Calls, call'[c] # NoCall, call'[c].at # "broadcast"
      PROVE  call'[c].found \cap clean \subseteq dm
  <2>1. CASE c \in Waiting(n)
    <3>1. call[c] # NoCall /\ call[c].at # "broadcast"
      BY <2>1 DEF Waiting, In
    <3>2. call'[c].found = call[c].found
      BY <1>2, <1>3, <2>1
    <3>3. QED BY <3>1, <3>2 DEF FlagInv, FoundIsSent
  <2>2. CASE c \notin Waiting(n)
    BY <1>2, <1>3, <2>2 DEF FlagInv, FoundIsSent
  <2>3. QED BY <2>1, <2>2
<1>4. QED BY <1>1, <1>3 DEF FlagInv, FoundIsSent, SentFlagsAreTrue

\* Every step keeps what is known of the flags.
LEMMA StepFinds ==
  ASSUME FlagInv, SensibleCalls, [CallsNext]_callsVars  PROVE  FlagInv'
<1>1. CallsInv'
  BY StepKeeps DEF FlagInv
<1>2. CASE UNCHANGED <<call, sent, dm, clean>>
  BY <1>1, <1>2 DEF FlagInv, FoundIsSent, SentFlagsAreTrue
<1>3. ASSUME NEW c \in Calls,
             \/ StartSync(c) \/ StartSend(c) \/ StartSave(c) \/ Retry(c) \/ Deadline(c)
             \/ Find(c) \/ Refind(c) \/ Text(c)
      PROVE  FlagInv'
  BY <1>1, <1>3, StartsFind, RetryFinds, FindFinds
<1>4. ASSUME NEW c \in Calls,
             ReadFlags(c) \/ Scan(c) \/ Share(c) \/ Record(c) \/ Broadcast(c)
      PROVE  FlagInv'
  BY <1>1, <1>4, ReadFlagsFinds, ScanFinds, ShareFinds, RecordFinds, BroadcastFinds
<1>5. ASSUME NEW n \in Syncs, SyncSucceeds(n) \/ SyncFails(n)
      PROVE  FlagInv'
  BY <1>1, <1>5, EndFinds
<1>6. CASE DisconnectShared \/ ConnectShared \/ UNCHANGED callsVars
  BY <1>2, <1>6 DEF DisconnectShared, ConnectShared, callsVars, profile
<1>7. QED BY <1>3, <1>4, <1>5, <1>6 DEF CallsNext

\* ensureProfileSent: the flags of the row say only what the conversation has received
\* (of what can travel), for any number of sends, saved profiles, failures and clients.
THEOREM FlagsOnlySayWhatWasSent ==
  ASSUME SensibleCalls  PROVE  CallsSpec => []SentFlagsAreTrue
<1>1. CallsInit => FlagInv
  BY InitIsSound DEF CallsInit, FlagInv, FoundIsSent, SentFlagsAreTrue
<1>2. FlagInv /\ [CallsNext]_callsVars => FlagInv'
  BY StepFinds
<1>3. FlagInv => SentFlagsAreTrue
  BY DEF FlagInv
<1>4. QED BY <1>1, <1>2, <1>3, PTL DEF CallsSpec
-----------------------------------------------------------------------------
(* Lookups *)

\* The lookup a caller can join is under way and asks the connected client: no fetch of an
\* earlier client is left to join, since a disconnect and a connect take the flight away.
LEMMA LookupsStayLive ==
  ASSUME FlightsAreLive, [LookupNext]_lookupVars
  PROVE  FlightsAreLive'
<1>1. ASSUME NEW f \in Fetches, Lookup(f)
      PROVE  FlightsAreLive'
  BY <1>1 DEF Lookup, FlightsAreLive
<1>2. ASSUME NEW f \in Fetches, Answered(f) \/ LookupFailed(f)
      PROVE  FlightsAreLive'
  BY <1>2 DEF Answered, LookupFailed, Ended, Landed, FlightsAreLive
<1>3. CASE LookupSkipped \/ Expire \/ Thaw \/ UNCHANGED lookupVars
  BY <1>3 DEF LookupSkipped, Expire, Thaw, lookupVars, FlightsAreLive
<1>4. CASE ConnectLookups \/ DisconnectLookups
  BY <1>4 DEF ConnectLookups, DisconnectLookups, CacheCleared, FlightsAreLive
<1>5. QED BY <1>1, <1>2, <1>3, <1>4 DEF LookupNext

\* keyed-async-cache.ts, "in-flight dedupe per key": whatever fetches of earlier clients,
\* failures, cooldowns and clears fall between, a caller joins a fetch that is under way
\* at the client connected now.
THEOREM LookupsAreLive == LookupSpec => []FlightsAreLive
<1>1. LookupInit => FlightsAreLive
  BY DEF LookupInit, FlightsAreLive
<1>2. QED BY <1>1, LookupsStayLive, PTL DEF LookupSpec

\* Callers of one client share its sync and its lookups, however the steps of the two fall
\* between each other.
THEOREM CallersShareOneFlight ==
  ASSUME SensibleCalls  PROVE  CallsSpec /\ LookupSpec => []SingleFlights
<1>1. OneSyncPerClient /\ FlightsAreLive => SingleFlights
  BY DEF SingleFlights
<1>2. QED BY <1>1, AtMostOnePerClient, LookupsAreLive, PTL
=============================================================================
