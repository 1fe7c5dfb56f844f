-------------------------- MODULE ClientSessionProofs --------------------------
(***************************************************************************)
(* Theorems about ClientSession for any number of clients, streams,        *)
(* installations and faults, and any order of stopping the streams.        *)
(***************************************************************************)
EXTENDS ClientSession, TLAPS

(* What has a type *)

Names == {"idle", "connect", "reuse", "disconnect", "recovery"}
Stopping == {"stopping", "ending", "draining"}
Connected == {"saving", "subscribing", "reading", "resubscribing", "requesting", "publishing"}
Results == {"ready", "pending", "failed"}
Ops == [name : Names, at : {"none", "opening"} \cup Stopping \cup Connected,
        client : Clients \cup {None}, stop : 0..Len(StopOrder), stream : Streams \cup {None},
        waits : [Kinds -> Results]]
Sdks == [state : {"free", "starting", "waiting", "handling", "ended"},
         client : Clients \cup {None}, fresh : BOOLEAN]
Named == [Kinds -> Streams \cup {None}]

LifecycleTyped ==
  /\ op \in Ops /\ client \in Clients \cup {None} /\ created \in 0..MaxClients
  /\ faults \in 0..MaxFaults /\ loop \in BOOLEAN /\ wanted \in BOOLEAN
  /\ queued \in Clients \cup {None} /\ late \subseteq Clients
  /\ gap \in {"none", "stream", "missed"}
StreamsTyped ==
  /\ promise \in Named /\ field \in Named /\ task \in Named /\ sdk \in [Streams -> Sdks]
HistoryTyped ==
  /\ requests \in [Installations -> [cooling : BOOLEAN, inFlight : Clients \cup {None}]]
  /\ pendingHistory \in {None, client}
  /\ publishing \subseteq Clients /\ recent \subseteq Installations
-----------------------------------------------------------------------------
(* The inductive invariant *)

\* What the step of an operation says about the client ...
StepsAgree ==
  /\ op.at \in Stopping \cup Connected => client # None /\ op.client = client
  /\ op.at \in Stopping => pendingHistory = None
  /\ op.at \in {"ending", "draining"} => op.stop < Len(StopOrder)
  /\ op.at = "opening" => client = None
  /\ op.name = "connect" /\ op.at \in Stopping \cup {"opening"} => created < MaxClients
  /\ op.at \in Stopping => op.name \in {"connect", "disconnect"}

\* ... and about the streams: only the connected client has fresh ones, ...
FreshIsConnected ==
  \A s \in Streams : sdk[s].fresh =>
    /\ client # None /\ sdk[s].client = client /\ op.at \notin Stopping \cup {"opening"}
    /\ sdk[s].state \in {"starting", "waiting", "handling"}

\* ... a fresh start is the one its promise names, and nothing else of its kind
\* runs beside it; ...
PromisesStart ==
  /\ \A s \in Streams : sdk[s].fresh /\ sdk[s].state = "starting" => promise[Kind(s)] = s
  /\ \A k \in Kinds : promise[k] # None =>
       /\ task[k] = None /\ field[k] = None /\ Kind(promise[k]) = k
       /\ sdk[promise[k]].state = "starting" /\ sdk[promise[k]].fresh

\* ... a fresh loop is the one its field and its task name, ...
FreshIsOwned ==
  \A s \in Streams : sdk[s].fresh /\ sdk[s].state \in {"waiting", "handling"} =>
    task[Kind(s)] = s /\ field[Kind(s)] = s

\* ... and so is the task of whatever handles a value for the client, until its
\* kind has been stopped.
Stopped == {StopOrder[i] : i \in 1..op.stop}
HandlersAreTasks ==
  \A s \in Streams : sdk[s].state \in {"handling", "ended"} =>
    \/ sdk[s].client \in late
    \/ /\ sdk[s].client = client /\ client # None /\ task[Kind(s)] = s
       /\ op.at \in Stopping => Kind(s) \notin Stopped

\* An installation that published is cooling.
PublishedCools == \A i \in recent : requests[i].cooling

IInv ==
  /\ LifecycleTyped /\ StreamsTyped /\ HistoryTyped /\ StepsAgree
  /\ FreshIsConnected /\ PromisesStart /\ FreshIsOwned /\ HandlersAreTasks /\ PublishedCools
-----------------------------------------------------------------------------
(* How an operation goes on *)

Is(name, at, c, stop) ==
  op' \in Ops /\ op'.name = name /\ op'.at = at /\ op'.client = c /\ op'.stop = stop

Ats == {"none", "opening"} \cup Stopping \cup Connected

\* The kinds are those that are stopped in order.
LEMMA KindsAreTyped ==
  /\ Kinds = {StopOrder[i] : i \in 1..Len(StopOrder)}
  /\ None \notin Clients /\ None \notin Streams
  /\ \A s \in Streams : Kind(s) \in Kinds
BY ClientSessionAssumption DEF Kinds, ToSet, Streams, Kind

\* No operation of the lifecycle runs ...
LEMMA IdleIs ==
  ASSUME op' = Idle
  PROVE  Is("idle", "none", None, 0)
BY DEF Is, Idle, Ops, Names, Results

\* ... one begins ...
LEMMA BeginIs ==
  ASSUME NEW name \in Names, NEW at \in Ats, NEW c \in Clients \cup {None}, Begin(name, at, c)
  PROVE  Is(name, at, c, 0)
<1> DEFINE o == [Idle EXCEPT !.name = name, !.at = at, !.client = c]
<1>1. Idle \in Ops
  BY DEF Idle, Ops, Names, Results
<1>2. o \in Ops /\ o.name = name /\ o.at = at /\ o.client = c /\ o.stop = Idle.stop
  BY <1>1 DEF Ops, Ats
<1>3. op' = o /\ Idle.stop = 0
  BY DEF Begin, Idle
<1> HIDE DEF o
<1>4. QED BY <1>2, <1>3 DEF Is

\* ... or goes on.
LEMMA GoIs ==
  ASSUME LifecycleTyped, NEW at \in Ats, Go(at)
  PROVE  Is(op.name, at, op.client, op.stop)
BY DEF Go, Is, LifecycleTyped, Ops, Ats

\* A faulty step is counted.
LEMMA FaultCounts ==
  ASSUME LifecycleTyped, Fault
  PROVE  faults' \in 0..MaxFaults
BY ClientSessionAssumption DEF Fault, LifecycleTyped

\* Scheduling a recovery keeps types.
LEMMA ScheduleIsTyped ==
  ASSUME LifecycleTyped, ScheduleRecovery
  PROVE  queued' \in Clients \cup {None} /\ wanted' \in BOOLEAN
BY DEF ScheduleRecovery, LifecycleTyped

\* Starting the recovery loop keeps types.
LEMMA LoopIsTyped ==
  ASSUME LifecycleTyped, StartLoop
  PROVE  queued' \in Clients \cup {None} /\ wanted' \in BOOLEAN /\ loop' \in BOOLEAN
BY DEF StartLoop, LifecycleTyped

\* Reading history keeps the type of the gap.
LEMMA ReadIsTyped ==
  ASSUME LifecycleTyped, ReadHistory
  PROVE  gap' \in {"none", "stream", "missed"}
BY DEF ReadHistory, LifecycleTyped

\* Losing a stream keeps the type of the gap.
LEMMA LoseIsTyped ==
  ASSUME LifecycleTyped, NEW s, LoseStream(s)
  PROVE  gap' \in {"none", "stream", "missed"}
BY DEF LoseStream, LifecycleTyped

\* What the streams owe to the operation holds when it is at no stop.
LEMMA StreamsKeep ==
  ASSUME IInv, UNCHANGED <<client, late, streams>>,
         \/ op'.at \notin Stopping \cup {"opening"}
         \/ op'.at \in Stopping \cup {"opening"} /\ op'.stop = op.stop /\ op.at = op'.at
  PROVE  StreamsTyped' /\ FreshIsConnected' /\ PromisesStart' /\ FreshIsOwned' /\ HandlersAreTasks'
<1>1. StreamsTyped' /\ PromisesStart' /\ FreshIsOwned'
  BY DEF IInv, StreamsTyped, streams, PromisesStart, FreshIsOwned, Named
<1>2. FreshIsConnected'
  BY DEF IInv, FreshIsConnected, streams
<1>3. HandlersAreTasks'
  BY DEF IInv, HandlersAreTasks, streams, Stopped, Stopping
<1>4. QED BY <1>1, <1>2, <1>3

\* A step of the SDK beside the operation.
LEMMA HistoryKeeps ==
  ASSUME IInv, UNCHANGED <<client, history>>
  PROVE  HistoryTyped' /\ PublishedCools'
BY DEF IInv, HistoryTyped, PublishedCools, history

\* An operation gets to a step at which its client is the connected one, or ends.
LEMMA ConnectedKeeps ==
  ASSUME IInv, UNCHANGED <<client, created, late, streams>>, NEW name, NEW at \in Connected \cup {"none"},
         NEW c, NEW stop, Is(name, at, c, stop), at \in Connected => client # None /\ c = client,
         faults' \in 0..MaxFaults, loop' \in BOOLEAN, wanted' \in BOOLEAN,
         queued' \in Clients \cup {None}, gap' \in {"none", "stream", "missed"},
         HistoryTyped', PublishedCools'
  PROVE  IInv'
<1>1. at \notin Stopping /\ at # "opening"
  BY DEF Connected, Stopping
<1>2. LifecycleTyped'
  BY DEF IInv, LifecycleTyped, Is
<1>3. StepsAgree'
  BY <1>1 DEF StepsAgree, Is, Stopping
<1>4. StreamsTyped' /\ FreshIsConnected' /\ PromisesStart' /\ FreshIsOwned' /\ HandlersAreTasks'
  BY <1>1, StreamsKeep DEF Is
<1>5. QED BY <1>2, <1>3, <1>4 DEF IInv
-----------------------------------------------------------------------------
(* Steps that leave the streams and the client alone *)

\* A connect finds a ready client and saves what it says.
LEMMA BeginReuseKeeps == ASSUME IInv, BeginReuse PROVE IInv'
<1>1. Is("reuse", "saving", client, 0) /\ client # None
  BY BeginIs DEF BeginReuse, IInv, LifecycleTyped, Names, Ats, Connected
<1>2. UNCHANGED <<client, created, faults, queued, late, streams, history, gap>>
      /\ loop' \in BOOLEAN /\ wanted' \in BOOLEAN
  BY DEF BeginReuse, StopLoop
<1>3. HistoryTyped' /\ PublishedCools'
  BY <1>2, HistoryKeeps
<1>4. "saving" \in Connected
  BY DEF Connected
<1>5. QED BY <1>1, <1>2, <1>3, <1>4, ConnectedKeeps DEF IInv, LifecycleTyped

\* The client is another installation's, or its owner refused it.
LEMMA ReuseRefusedKeeps == ASSUME IInv, ReuseRefused PROVE IInv'
<1>1. Is("idle", "none", None, 0)
  BY IdleIs DEF ReuseRefused
<1>2. UNCHANGED <<client, created, faults, loop, queued, wanted, late, streams, history, gap>>
  BY DEF ReuseRefused
<1>3. HistoryTyped' /\ PublishedCools'
  BY <1>2, HistoryKeeps
<1>4. "none" \notin Connected
  BY DEF Connected
<1>5. QED BY <1>1, <1>2, <1>3, <1>4, ConnectedKeeps DEF IInv, LifecycleTyped

\* A connect fails before any stream starts.
LEMMA ConnectFailsKeeps == ASSUME IInv, ConnectFails PROVE IInv'
<1>1. Is("idle", "none", None, 0) /\ faults' \in 0..MaxFaults
  BY IdleIs, FaultCounts DEF ConnectFails, IInv
<1>2. UNCHANGED <<client, created, loop, queued, wanted, late, streams, history, gap>>
  BY DEF ConnectFails
<1>3. HistoryTyped' /\ PublishedCools'
  BY <1>2, HistoryKeeps
<1>4. "none" \notin Connected
  BY DEF Connected
<1>5. QED BY <1>1, <1>2, <1>3, <1>4, ConnectedKeeps DEF IInv, LifecycleTyped

\* The streams of a connect were started.
LEMMA SubscribedKeeps == ASSUME IInv, Subscribed \/ RecoverySubscribed PROVE IInv'
<1>1. op.at = "subscribing" /\ Go("reading")
      /\ UNCHANGED <<client, created, faults, loop, queued, wanted, late, streams, history, gap>>
  BY DEF Subscribed, RecoverySubscribed, At
<1>2. "reading" \in Connected /\ "reading" \in Ats /\ "subscribing" \in Connected
  BY DEF Connected, Ats
<1>3. Is(op.name, "reading", op.client, op.stop) /\ client # None /\ op.client = client
  BY <1>1, <1>2, GoIs DEF IInv, StepsAgree
<1>4. HistoryTyped' /\ PublishedCools'
  BY <1>1, HistoryKeeps
<1>5. QED BY <1>1, <1>2, <1>3, <1>4, ConnectedKeeps DEF IInv, LifecycleTyped

\* After its reads or its request an operation ends, or asks for the history.
LEMMA BootstrappedKeeps == ASSUME IInv, Bootstrapped \/ ReuseSubscribed PROVE IInv'
<1>1. /\ op.at \in {"resubscribing", "subscribing"}
      /\ UNCHANGED <<client, created, faults, late, streams, requests, publishing, recent, gap>>
      /\ Go("requesting") \/ op' = Idle
      /\ pendingHistory' \in {pendingHistory, client}
      /\ StartLoop \/ UNCHANGED <<loop, wanted, queued>>
  BY DEF Bootstrapped, ReuseSubscribed, At
<1>2. "requesting" \in Connected /\ "requesting" \in Ats /\ op.at \in Connected /\ "none" \notin Connected
  BY <1>1 DEF Connected, Ats
<1>3. client # None /\ op.client = client
  BY <1>2 DEF IInv, StepsAgree
<1>4. Is(op.name, "requesting", client, op.stop) \/ Is("idle", "none", None, 0)
  BY <1>1, <1>2, <1>3, GoIs, IdleIs DEF IInv
<1>5. HistoryTyped' /\ PublishedCools'
  BY <1>1 DEF IInv, HistoryTyped, PublishedCools
<1>6. loop' \in BOOLEAN /\ wanted' \in BOOLEAN /\ queued' \in Clients \cup {None}
  BY <1>1, LoopIsTyped DEF IInv, LifecycleTyped
<1>7. QED BY <1>1, <1>2, <1>3, <1>4, <1>5, <1>6, ConnectedKeeps DEF IInv, LifecycleTyped

\* A recovery finds that its client is no longer connected.
LEMMA SkipRecoveryKeeps == ASSUME IInv, SkipRecovery PROVE IInv'
<1>1. op = Idle /\ UNCHANGED <<op, client, created, faults, loop, wanted, late, streams, history, gap>>
      /\ queued' \in Clients \cup {None}
  BY DEF SkipRecovery, AfterRecovery, IInv, LifecycleTyped
<1>2. Is("idle", "none", None, 0) /\ "none" \notin Connected
  BY <1>1, IdleIs DEF Connected
<1>3. HistoryTyped' /\ PublishedCools'
  BY <1>1, HistoryKeeps
<1>4. QED BY <1>1, <1>2, <1>3, ConnectedKeeps DEF IInv, LifecycleTyped

\* A recovery reads, then sees to a history request still owed.
LEMMA RecoveryReadKeeps == ASSUME IInv, RecoveryRead PROVE IInv'
<1>1. /\ op.at = "reading" /\ gap' \in {"none", "stream", "missed"}
      /\ UNCHANGED <<client, created, faults, loop, wanted, late, streams, history>>
      /\ Go("requesting") \/ op' = Idle
      /\ queued' \in Clients \cup {None}
  BY ReadIsTyped DEF RecoveryRead, At, AfterRecovery, IInv, LifecycleTyped
<1>2. "requesting" \in Connected /\ "requesting" \in Ats /\ op.at \in Connected /\ "none" \notin Connected
  BY <1>1 DEF Connected, Ats
<1>3. client # None /\ op.client = client
  BY <1>2 DEF IInv, StepsAgree
<1>4. Is(op.name, "requesting", client, op.stop) \/ Is("idle", "none", None, 0)
  BY <1>1, <1>2, <1>3, GoIs, IdleIs DEF IInv
<1>5. HistoryTyped' /\ PublishedCools'
  BY <1>1, HistoryKeeps
<1>6. QED BY <1>1, <1>2, <1>3, <1>4, <1>5, ConnectedKeeps DEF IInv, LifecycleTyped
-----------------------------------------------------------------------------
(* The history request *)

\* Its outcome ends the operation.
LEMMA RequestDoneKeeps ==
  ASSUME IInv, NEW published, RequestDone(published), UNCHANGED <<client, created, faults, late, streams, gap>>,
         requests' \in [Installations -> [cooling : BOOLEAN, inFlight : Clients \cup {None}]],
         publishing' \subseteq Clients, recent' = recent,
         \A i \in Installations : requests'[i].cooling = requests[i].cooling
  PROVE  IInv'
<1>1. Is("idle", "none", None, 0) /\ "none" \notin Connected
  BY IdleIs DEF RequestDone, Connected
<1>2. /\ pendingHistory' \in {None, client} /\ queued' \in Clients \cup {None}
      /\ loop' \in BOOLEAN /\ wanted' \in BOOLEAN
  <2>1. StartLoop \/ UNCHANGED <<loop, wanted>>
    BY DEF RequestDone
  <2>2. StartLoop \/ AfterRecovery(wanted) \/ UNCHANGED queued
    BY DEF RequestDone
  <2>3. queued' \in Clients \cup {None}
    BY <2>2, LoopIsTyped DEF IInv, LifecycleTyped, AfterRecovery
  <2>4. loop' \in BOOLEAN /\ wanted' \in BOOLEAN
    BY <2>1, LoopIsTyped DEF IInv, LifecycleTyped
  <2>5. pendingHistory' \in {None, client}
    BY DEF RequestDone, IInv, HistoryTyped
  <2>6. QED BY <2>3, <2>4, <2>5
<1>3. HistoryTyped' /\ PublishedCools'
  BY <1>2 DEF IInv, HistoryTyped, PublishedCools
<1>4. QED BY <1>1, <1>2, <1>3, ConnectedKeeps DEF IInv, LifecycleTyped

\* A history request finds one in flight or the installation cooling.
LEMMA RequestRefusedKeeps == ASSUME IInv, RequestRefused \/ PublicationTimesOut PROVE IInv'
<1>1. /\ RequestDone(FALSE)
      /\ UNCHANGED <<client, created, faults, late, streams, requests, publishing, recent, gap>>
  BY DEF RequestRefused, PublicationTimesOut
<1>2. requests' \in [Installations -> [cooling : BOOLEAN, inFlight : Clients \cup {None}]]
      /\ publishing' \subseteq Clients /\ \A i \in Installations : requests'[i].cooling = requests[i].cooling
  BY <1>1 DEF IInv, HistoryTyped
<1>3. QED BY <1>1, <1>2, RequestDoneKeeps

\* A history request is published: its installation cools from now on.
LEMMA PublishKeeps == ASSUME IInv, Publish PROVE IInv'
<1> DEFINE i == InstallationOf[client]
<1>1. /\ op.at = "requesting" /\ Go("publishing")
      /\ requests' = [requests EXCEPT ![i] = [cooling |-> TRUE, inFlight |-> client]]
      /\ publishing' = publishing \cup {client} /\ recent' = recent \cup {i}
      /\ UNCHANGED <<client, created, faults, loop, queued, wanted, late, streams, pendingHistory, gap>>
  BY DEF Publish
<1>2. "requesting" \in Connected /\ "publishing" \in Connected /\ "publishing" \in Ats
  BY DEF Connected, Ats
<1>3. client # None /\ op.client = client /\ client \in Clients
  BY <1>1, <1>2 DEF IInv, StepsAgree, LifecycleTyped
<1>4. i \in Installations
  BY <1>3, ClientSessionAssumption
<1> HIDE DEF i
<1>5. HistoryTyped'
  BY <1>1, <1>3, <1>4 DEF IInv, HistoryTyped
<1>6. PublishedCools'
  BY <1>1, <1>4 DEF IInv, PublishedCools, HistoryTyped
<1>7. Is(op.name, "publishing", client, op.stop)
  BY <1>1, <1>2, <1>3, GoIs DEF IInv
<1>8. QED BY <1>1, <1>2, <1>3, <1>5, <1>6, <1>7, ConnectedKeeps DEF IInv, LifecycleTyped

\* A publication settles after its operation, or ends it.
LEMMA PublicationSettlesKeeps ==
  ASSUME IInv, NEW c \in Clients, PublicationSettles(c)
  PROVE  IInv'
<1>1. /\ requests' = [requests EXCEPT ![InstallationOf[c]].inFlight = IF @ = c THEN None ELSE @]
      /\ publishing' = publishing \ {c}
      /\ UNCHANGED <<client, created, faults, late, streams, recent, gap>>
  BY DEF PublicationSettles, ClearPublication
<1>2. InstallationOf[c] \in Installations
  BY ClientSessionAssumption
<1>3. requests' \in [Installations -> [cooling : BOOLEAN, inFlight : Clients \cup {None}]]
      /\ publishing' \subseteq Clients /\ \A i \in Installations : requests'[i].cooling = requests[i].cooling
  BY <1>1, <1>2 DEF IInv, HistoryTyped
<1>4. CASE \E published \in BOOLEAN : RequestDone(published)
  BY <1>1, <1>3, <1>4, RequestDoneKeeps
<1>5. CASE UNCHANGED <<op, loop, wanted, queued, pendingHistory>>
  <2>1. HistoryTyped' /\ PublishedCools'
    BY <1>1, <1>3, <1>5 DEF IInv, HistoryTyped, PublishedCools
  <2>2. LifecycleTyped' /\ StepsAgree'
    BY <1>1, <1>5 DEF IInv, LifecycleTyped, StepsAgree
  <2>3. StreamsTyped' /\ FreshIsConnected' /\ PromisesStart' /\ FreshIsOwned' /\ HandlersAreTasks'
    BY <1>1, <1>5, StreamsKeep
  <2>4. QED BY <2>1, <2>2, <2>3 DEF IInv
<1>6. QED BY <1>4, <1>5 DEF PublicationSettles

\* A cooldown ends.
LEMMA CoolsDownKeeps ==
  ASSUME IInv, NEW i \in Installations, CoolsDown(i)
  PROVE  IInv'
<1>1. /\ requests' = [requests EXCEPT ![i].cooling = FALSE] /\ recent' = recent \ {i}
      /\ UNCHANGED <<lifecycle, streams, pendingHistory, publishing, gap>>
  BY DEF CoolsDown
<1>2. LifecycleTyped' /\ StepsAgree' /\ UNCHANGED <<client, late, op>>
  BY <1>1 DEF IInv, LifecycleTyped, StepsAgree, lifecycle
<1>3. HistoryTyped' /\ PublishedCools'
  BY <1>1, <1>2 DEF IInv, HistoryTyped, PublishedCools
<1>4. StreamsTyped' /\ FreshIsConnected' /\ PromisesStart' /\ FreshIsOwned' /\ HandlersAreTasks'
  BY <1>1, <1>2, StreamsKeep
<1>5. QED BY <1>2, <1>3, <1>4 DEF IInv
-----------------------------------------------------------------------------
(* Ending the streams *)

\* A stop invalidates every start and every loop at once.
LEMMA StopBegins ==
  ASSUME IInv, op = Idle, client # None, sdk' = Stale, promise' = [k \in Kinds |-> None],
         UNCHANGED <<client, late, field, task>>, NEW name \in {"connect", "disconnect"},
         Is(name, "stopping", client, 0)
  PROVE  StreamsTyped' /\ FreshIsConnected' /\ PromisesStart' /\ FreshIsOwned' /\ HandlersAreTasks'
<1>1. /\ sdk' \in [Streams -> Sdks]
      /\ \A s \in Streams : ~sdk'[s].fresh /\ sdk'[s].state = sdk[s].state /\ sdk'[s].client = sdk[s].client
  BY DEF Stale, IInv, StreamsTyped, Sdks
<1>2. StreamsTyped'
  BY <1>1 DEF IInv, StreamsTyped, Named
<1>3. FreshIsConnected' /\ PromisesStart' /\ FreshIsOwned'
  BY <1>1 DEF FreshIsConnected, PromisesStart, FreshIsOwned
<1>4. Stopped' = {}
  BY DEF Is, Stopped
<1>5. HandlersAreTasks'
  BY <1>1, <1>4 DEF IInv, HandlersAreTasks
<1>6. QED BY <1>2, <1>3, <1>5

\* Invalidating the requests owes none.
LEMMA InvalidateIsTyped ==
  ASSUME IInv, InvalidateHistoryRequests, UNCHANGED <<publishing, recent>>
  PROVE  /\ HistoryTyped' /\ PublishedCools' /\ pendingHistory' = None
BY DEF InvalidateHistoryRequests, IInv, HistoryTyped, PublishedCools

\* A disconnect begins: the streams of its client are stopped in order.
LEMMA BeginDisconnectKeeps == ASSUME IInv, BeginDisconnect PROVE IInv'
<1>1. /\ op = Idle /\ client # None /\ sdk' = Stale /\ promise' = [k \in Kinds |-> None]
      /\ UNCHANGED <<client, created, faults, queued, late, field, task, gap>>
      /\ loop' \in BOOLEAN /\ wanted' \in BOOLEAN
  BY DEF BeginDisconnect, StopLoop
<1>2. Is("disconnect", "stopping", client, 0)
  BY BeginIs DEF BeginDisconnect, IInv, LifecycleTyped, Names, Ats, Stopping
<1>3. StreamsTyped' /\ FreshIsConnected' /\ PromisesStart' /\ FreshIsOwned' /\ HandlersAreTasks'
  BY <1>1, <1>2, StopBegins
<1>4. HistoryTyped' /\ PublishedCools' /\ pendingHistory' = None
  BY InvalidateIsTyped DEF BeginDisconnect
<1>5. LifecycleTyped'
  BY <1>1, <1>2 DEF IInv, LifecycleTyped, Is
<1>6. StepsAgree'
  BY <1>1, <1>2, <1>4 DEF StepsAgree, Is, Stopping
<1>7. QED BY <1>3, <1>4, <1>5, <1>6 DEF IInv

\* A connect begins for a new client.
LEMMA BeginConnectKeeps == ASSUME IInv, BeginConnect PROVE IInv'
<1>1. /\ op = Idle /\ created < MaxClients
      /\ UNCHANGED <<client, created, faults, queued, late, field, task, publishing, recent, gap>>
      /\ loop' \in BOOLEAN /\ wanted' \in BOOLEAN
  BY DEF BeginConnect, StopLoop
<1>2. CASE client = None
  <2>1. UNCHANGED <<sdk, promise, requests, pendingHistory>>
    BY <1>2 DEF BeginConnect
  <2>2. Is("connect", "opening", None, 0)
    BY <1>2, BeginIs DEF BeginConnect, Names, Ats
  <2>3. HistoryTyped' /\ PublishedCools'
    BY <1>1, <2>1 DEF IInv, HistoryTyped, PublishedCools
  <2>4. StreamsTyped' /\ PromisesStart' /\ FreshIsOwned'
    BY <1>1, <2>1 DEF IInv, StreamsTyped, Named, PromisesStart, FreshIsOwned
  <2>5. FreshIsConnected' /\ HandlersAreTasks'
    BY <1>1, <1>2, <2>1 DEF IInv, FreshIsConnected, HandlersAreTasks
  <2>6. LifecycleTyped' /\ StepsAgree'
    BY <1>1, <1>2, <2>2 DEF IInv, LifecycleTyped, StepsAgree, Is, Stopping, Connected
  <2>7. QED BY <2>3, <2>4, <2>5, <2>6 DEF IInv
<1>3. CASE client # None
  <2>1. sdk' = Stale /\ promise' = [k \in Kinds |-> None]
    BY <1>3 DEF BeginConnect
  <2>2. Is("connect", "stopping", client, 0)
    BY <1>3, BeginIs DEF BeginConnect, IInv, LifecycleTyped, Names, Ats, Stopping
  <2>3. StreamsTyped' /\ FreshIsConnected' /\ PromisesStart' /\ FreshIsOwned' /\ HandlersAreTasks'
    BY <1>1, <1>3, <2>1, <2>2, StopBegins
  <2>4. HistoryTyped' /\ PublishedCools' /\ pendingHistory' = None
    BY <1>1, <1>3, InvalidateIsTyped DEF BeginConnect
  <2>5. LifecycleTyped' /\ StepsAgree'
    BY <1>1, <1>3, <2>2, <2>4 DEF IInv, LifecycleTyped, StepsAgree, Is, Stopping
  <2>6. QED BY <2>3, <2>4, <2>5 DEF IInv
<1>4. QED BY <1>2, <1>3

\* While an operation ends the streams nothing is fresh and nothing starts.
LEMMA NothingIsFresh ==
  ASSUME IInv, op.at \in Stopping
  PROVE  (\A s \in Streams : ~sdk[s].fresh) /\ (\A k \in Kinds : promise[k] = None)
<1>1. \A s \in Streams : ~sdk[s].fresh
  BY DEF IInv, FreshIsConnected
<1>2. QED BY <1>1 DEF IInv, PromisesStart, StreamsTyped, Named

\* A disconnect asks the next kind's stream to end.
LEMMA StopStreamKeeps == ASSUME IInv, StopStream PROVE IInv'
<1>1. /\ op.at = "stopping" /\ op.stop < Len(StopOrder)
      /\ op' = [op EXCEPT !.at = "ending", !.stream = field[NextToStop]]
      /\ field' = [field EXCEPT ![NextToStop] = None]
      /\ gap' \in {"none", "stream", "missed"}
      /\ UNCHANGED <<client, created, faults, loop, queued, wanted, late, promise, task, sdk, history>>
  BY LoseIsTyped DEF StopStream, IInv, LifecycleTyped
<1>2. op.stop \in Nat /\ Len(StopOrder) \in Nat /\ NextToStop \in Kinds
  <2>1. op.stop \in 0..Len(StopOrder)
    BY DEF IInv, LifecycleTyped, Ops
  <2>2. op.stop \in Nat /\ Len(StopOrder) \in Nat /\ op.stop + 1 \in 1..Len(StopOrder)
    BY <1>1, <2>1
  <2>3. QED BY <2>2, KindsAreTyped DEF NextToStop
<1>3. field[NextToStop] \in Streams \cup {None} /\ field' \in Named
  BY <1>1, <1>2 DEF IInv, StreamsTyped, Named
<1>4. Is(op.name, "ending", op.client, op.stop)
  BY <1>1, <1>3 DEF Is, IInv, LifecycleTyped, Ops, Stopping
<1>5. client # None /\ op.client = client /\ pendingHistory = None /\ op.name \in {"connect", "disconnect"}
      /\ op.at \in Stopping
  BY <1>1 DEF IInv, StepsAgree, Stopping
<1>6. LifecycleTyped' /\ StepsAgree'
  BY <1>1, <1>4, <1>5 DEF IInv, LifecycleTyped, StepsAgree, Is, history, Stopping
<1>7. HistoryTyped' /\ PublishedCools'
  BY <1>1, HistoryKeeps
<1>8. StreamsTyped' /\ FreshIsConnected' /\ PromisesStart' /\ FreshIsOwned'
  BY <1>1, <1>3, <1>5, NothingIsFresh
     DEF IInv, StreamsTyped, FreshIsConnected, PromisesStart, FreshIsOwned
<1>9. HandlersAreTasks'
  BY <1>1, <1>4, <1>5 DEF IInv, HandlersAreTasks, Stopped, Is
<1>10. QED BY <1>6, <1>7, <1>8, <1>9 DEF IInv

\* One kind is done: what of it still handles a value has missed a deadline.
LEMMA NextStopKeeps ==
  ASSUME IInv, op.at \in {"ending", "draining"}, NextStop(NextToStop),
         UNCHANGED <<client, created, loop, queued, wanted, promise, field, history, gap>>,
         faults' \in 0..MaxFaults, late \subseteq late', late' \subseteq Clients,
         sdk' \in [Streams -> Sdks], \A s \in Streams : sdk'[s] = sdk[s] \/ sdk'[s] = Free,
         \A s \in Streams : sdk'[s].state \in {"handling", "ended"} /\ Kind(s) = NextToStop
                              => sdk'[s].client \in late'
  PROVE  IInv'
<1>1. /\ client # None /\ op.client = client /\ pendingHistory = None /\ op.at \in Stopping
      /\ op.name \in {"connect", "disconnect"} /\ op.stop < Len(StopOrder)
      /\ op.name = "connect" => created < MaxClients
  BY DEF IInv, StepsAgree, Stopping
<1>2. op.stop \in Nat /\ op.stop + 1 \in 0..Len(StopOrder)
  <2>1. op.stop \in 0..Len(StopOrder)
    BY DEF IInv, LifecycleTyped, Ops
  <2>2. QED BY <1>1, <2>1
<1>3. Is(op.name, "stopping", op.client, op.stop + 1)
  <2>1. op' = [op EXCEPT !.at = "stopping", !.stop = op.stop + 1, !.stream = None]
    BY DEF NextStop, IInv, LifecycleTyped, Ops
  <2>2. QED BY <1>2, <2>1 DEF Is, IInv, LifecycleTyped, Ops, Stopping
<1>4. LifecycleTyped'
  BY <1>3 DEF IInv, LifecycleTyped, Is
<1>5. StepsAgree'
  BY <1>1, <1>3 DEF StepsAgree, Is, history, Stopping
<1>6. HistoryTyped' /\ PublishedCools'
  BY HistoryKeeps
<1>7. StreamsTyped' /\ \A k \in Kinds : task'[k] = IF k = NextToStop THEN None ELSE task[k]
  BY DEF NextStop, IInv, StreamsTyped, Named
<1>8. \A s \in Streams : ~sdk'[s].fresh
  BY <1>1, NothingIsFresh DEF Free
<1>9. FreshIsConnected' /\ PromisesStart' /\ FreshIsOwned'
  BY <1>1, <1>8, NothingIsFresh DEF FreshIsConnected, PromisesStart, FreshIsOwned
<1>10. Stopped' \subseteq Stopped \cup {NextToStop}
  BY <1>2, <1>3 DEF Stopped, Is, NextToStop
<1>11. HandlersAreTasks'
  <2>1. ASSUME NEW s \in Streams, sdk'[s].state \in {"handling", "ended"}, sdk'[s].client \notin late'
        PROVE  sdk'[s].client = client /\ task'[Kind(s)] = s /\ Kind(s) \notin Stopped'
    <3>1. sdk'[s] = sdk[s] /\ Kind(s) # NextToStop /\ sdk[s].client \notin late
      BY <2>1 DEF Free
    <3>2. sdk[s].client = client /\ task[Kind(s)] = s /\ Kind(s) \notin Stopped
      BY <1>1, <2>1, <3>1 DEF IInv, HandlersAreTasks
    <3>3. QED BY <1>7, <1>10, <3>1, <3>2, KindsAreTyped
  <2>2. QED BY <1>1, <2>1 DEF HandlersAreTasks
<1>12. QED BY <1>4, <1>5, <1>6, <1>7, <1>9, <1>11 DEF IInv

\* The stream has ended; a loop that handles a value is waited for.
LEMMA EndStreamSettlesKeeps == ASSUME IInv, EndStreamSettles PROVE IInv'
<1> DEFINE k == NextToStop
           t == task[k]
<1>1. /\ op.at = "ending" /\ op.at \in Stopping /\ op.stop < Len(StopOrder)
      /\ client # None /\ op.client = client
      /\ UNCHANGED <<client, created, faults, loop, queued, wanted, late, promise, field, history, gap>>
  BY DEF EndStreamSettles, IInv, StepsAgree, Stopping
<1>2. k \in Kinds /\ t \in Streams \cup {None}
  <2>1. op.stop \in 0..Len(StopOrder)
    BY DEF IInv, LifecycleTyped, Ops
  <2>2. op.stop + 1 \in 1..Len(StopOrder)
    BY <1>1, <2>1
  <2>3. k \in Kinds
    BY <2>2, KindsAreTyped DEF NextToStop
  <2>4. QED BY <2>3 DEF IInv, StreamsTyped, Named
<1>3. CASE t # None /\ sdk[t].state = "handling"
  <2>1. sdk' = [sdk EXCEPT ![t].state = "ended"] /\ Go("draining") /\ task' = task
    BY <1>3 DEF EndStreamSettles
  <2> HIDE DEF k, t
  <2>2. /\ sdk' \in [Streams -> Sdks]
        /\ \A s \in Streams : /\ sdk'[s].client = sdk[s].client /\ sdk'[s].fresh = sdk[s].fresh
                              /\ sdk'[s].state \in {"handling", "ended"} <=> sdk[s].state \in {"handling", "ended"}
    BY <1>2, <1>3, <2>1 DEF IInv, StreamsTyped, Sdks
  <2>3. Is(op.name, "draining", client, op.stop)
    BY <1>1, <2>1, GoIs DEF IInv, Ats, Stopping
  <2>4. LifecycleTyped'
    BY <1>1, <2>3 DEF IInv, LifecycleTyped, Is
  <2>5. StepsAgree'
    BY <1>1, <2>3 DEF IInv, StepsAgree, Is, history, Stopping
  <2>6. HistoryTyped' /\ PublishedCools'
    BY <1>1, HistoryKeeps
  <2>7. StreamsTyped' /\ FreshIsConnected' /\ PromisesStart' /\ FreshIsOwned'
    BY <1>1, <2>1, <2>2, NothingIsFresh
       DEF IInv, StreamsTyped, FreshIsConnected, PromisesStart, FreshIsOwned
  <2>8. HandlersAreTasks'
    BY <1>1, <2>1, <2>2, <2>3 DEF IInv, HandlersAreTasks, Is, Stopped
  <2>9. QED BY <2>4, <2>5, <2>6, <2>7, <2>8 DEF IInv
<1>4. CASE ~(t # None /\ sdk[t].state = "handling")
  <2>1. sdk' = (IF t = None THEN sdk ELSE [sdk EXCEPT ![t] = Free]) /\ NextStop(k)
    BY <1>4 DEF EndStreamSettles
  <2>2. Free \in Sdks
    BY DEF Free, Sdks
  <2>3. /\ sdk' \in [Streams -> Sdks] /\ \A s \in Streams : sdk'[s] = sdk[s] \/ sdk'[s] = Free
        /\ t # None => sdk'[t] = Free
    BY <1>2, <2>1, <2>2 DEF IInv, StreamsTyped
  <2>4. ASSUME NEW s \in Streams, sdk'[s].state \in {"handling", "ended"}, Kind(s) = k
        PROVE  sdk'[s].client \in late
    <3>1. sdk'[s] = sdk[s] /\ s # t
      BY <2>3, <2>4, KindsAreTyped DEF Free
    <3>2. QED BY <2>4, <3>1 DEF IInv, HandlersAreTasks
  <2>5. late' \subseteq Clients /\ faults' \in 0..MaxFaults
    BY <1>1 DEF IInv, LifecycleTyped
  <2>6. QED BY <1>1, <2>1, <2>3, <2>4, <2>5, NextStopKeeps
<1>5. QED BY <1>3, <1>4

\* The deadline of a stop passes: a loop may outlive its client.
LEMMA TimesOutKeeps == ASSUME IInv, EndStreamTimesOut \/ ConsumerTimesOut PROVE IInv'
<1>1. /\ op.at \in {"ending", "draining"} /\ NextStop(NextToStop) /\ late' = late \cup {op.client}
      /\ UNCHANGED <<client, created, loop, queued, wanted, promise, field, sdk, history, gap>>
      /\ faults' \in 0..MaxFaults
  BY FaultCounts DEF EndStreamTimesOut, ConsumerTimesOut, IInv
<1>2. client \in Clients /\ op.client = client
  BY <1>1 DEF IInv, StepsAgree, Stopping, LifecycleTyped
<1>3. late' \subseteq Clients /\ sdk' \in [Streams -> Sdks]
  BY <1>1, <1>2 DEF IInv, LifecycleTyped, StreamsTyped
<1>4. \A s \in Streams : sdk[s].state \in {"handling", "ended"} => sdk[s].client \in late'
  BY <1>1, <1>2 DEF IInv, HandlersAreTasks
<1>5. QED BY <1>1, <1>3, <1>4, NextStopKeeps

\* A consumer loop returns in time.
LEMMA ConsumerReturnsKeeps == ASSUME IInv, ConsumerReturns PROVE IInv'
<1>1. /\ op.at = "draining" /\ task[NextToStop] = None /\ NextStop(NextToStop)
      /\ UNCHANGED <<client, created, faults, loop, queued, wanted, late, promise, field, sdk, history, gap>>
  BY DEF ConsumerReturns
<1>2. \A s \in Streams : sdk[s].state \in {"handling", "ended"} /\ Kind(s) = NextToStop => sdk[s].client \in late
  BY <1>1, KindsAreTyped DEF IInv, HandlersAreTasks
<1>3. late' \subseteq Clients /\ sdk' \in [Streams -> Sdks] /\ faults' \in 0..MaxFaults
  BY <1>1 DEF IInv, LifecycleTyped, StreamsTyped
<1>4. QED BY <1>1, <1>2, <1>3, NextStopKeeps

\* When the client closes, whatever handles a value for it has missed a deadline.
LEMMA ClientClosesKeeps == ASSUME IInv, ClientCloses PROVE IInv'
<1>1. /\ op.at = "stopping" /\ op.at \in Stopping /\ op.stop = Len(StopOrder) /\ client' = None
      /\ UNCHANGED <<created, faults, loop, queued, wanted, late, streams, history, gap>>
      /\ pendingHistory = None /\ (op.name = "connect" => created < MaxClients)
  BY DEF ClientCloses, IInv, StepsAgree, Stopping
<1>2. Is("idle", "none", None, 0) \/ (Is("connect", "opening", None, 0) /\ op.name = "connect")
  <2>1. CASE op.name = "connect"
    <3>1. op' = [Idle EXCEPT !.name = "connect", !.at = "opening"]
      BY <2>1 DEF ClientCloses
    <3>2. Idle \in Ops
      BY DEF Idle, Ops, Names, Results
    <3>3. Idle.client = None /\ Idle.stop = 0
      BY DEF Idle
    <3>4. QED BY <2>1, <3>1, <3>2, <3>3 DEF Is, Ops, Names
  <2>2. CASE op.name # "connect"
    BY <2>2, IdleIs DEF ClientCloses
  <2>3. QED BY <2>1, <2>2
<1>3. LifecycleTyped' /\ StepsAgree'
  BY <1>1, <1>2 DEF IInv, LifecycleTyped, StepsAgree, Is, Stopping, Connected
<1>4. HistoryTyped' /\ PublishedCools'
  BY <1>1 DEF IInv, HistoryTyped, PublishedCools, history
<1>5. Stopped = Kinds
  BY <1>1, KindsAreTyped DEF Stopped
<1>6. \A s \in Streams : sdk[s].state \in {"handling", "ended"} => sdk[s].client \in late
  BY <1>1, <1>5, KindsAreTyped DEF IInv, HandlersAreTasks
<1>7. StreamsTyped' /\ FreshIsConnected' /\ PromisesStart' /\ FreshIsOwned' /\ HandlersAreTasks'
  BY <1>1, <1>6, NothingIsFresh DEF IInv, StreamsTyped, Named, FreshIsConnected, PromisesStart,
     FreshIsOwned, HandlersAreTasks, streams
<1>8. QED BY <1>3, <1>4, <1>7 DEF IInv
-----------------------------------------------------------------------------
(* Starting the streams *)

\* What EnsureStreams does to the streams and the promises it finds: a kind is
\* started if nothing of it is there.
LEMMA EnsureStarts ==
  ASSUME StreamsTyped, NEW name \in Names, NEW at \in Connected, NEW c \in Clients,
         NEW found \in [Streams -> Sdks], NEW pending \in Named, EnsureStreams(name, c, found, pending, at)
  PROVE  /\ Is(name, at, c, 0)
         /\ sdk' \in [Streams -> Sdks] /\ promise' \in Named
         /\ \A s \in Streams :
              \/ sdk'[s] = found[s]
              \/ found[s].state = "free" /\ sdk'[s] = Starting(c) /\ promise'[Kind(s)] = s
         /\ \A k \in Kinds :
              \/ promise'[k] = pending[k]
              \/ /\ pending[k] = None /\ task[k] = None /\ field[k] = None
                 /\ promise'[k] \in Streams /\ Kind(promise'[k]) = k /\ sdk'[promise'[k]] = Starting(c)
<1> DEFINE missing == {k \in Kinds : field[k] = None /\ task[k] = None}
           new == {k \in missing : pending[k] = None}
           free(k) == {s \in Streams : Kind(s) = k /\ found[s].state = "free"}
           start == [k \in new |-> CHOOSE s \in free(k) : TRUE]
           waits == [k \in Kinds |-> IF k \in missing THEN "pending" ELSE "ready"]
<1>1. /\ \A k \in new : free(k) # {}
      /\ sdk' = [s \in Streams |-> IF \E k \in new : start[k] = s THEN Starting(c) ELSE found[s]]
      /\ promise' = [k \in Kinds |-> IF k \in new THEN start[k] ELSE pending[k]]
      /\ op' = [Idle EXCEPT !.name = name, !.at = at, !.client = c, !.waits = waits]
  BY DEF EnsureStreams
<1>2. \A k \in new : start[k] \in free(k)
  BY <1>1
<1>3. waits \in [Kinds -> Results]
  BY DEF Results
<1>4. Is(name, at, c, 0)
  <2> HIDE DEF waits
  <2>1. op' = [name |-> name, at |-> at, client |-> c, stop |-> 0, stream |-> None, waits |-> waits]
    BY <1>1 DEF Idle
  <2>2. 0 \in 0..Len(StopOrder)
    <3>1. Idle \in Ops
      BY DEF Idle, Ops, Names, Results
    <3>2. QED BY <3>1 DEF Idle, Ops
  <2>3. QED BY <1>3, <2>1, <2>2 DEF Is, Ops
<1>5. Starting(c) \in Sdks
  BY DEF Starting, Sdks
<1>6. \A k \in new : k \in Kinds /\ start[k] \in Streams /\ Kind(start[k]) = k /\ found[start[k]].state = "free"
  BY <1>2
<1>7. \A k \in new : pending[k] = None /\ task[k] = None /\ field[k] = None
  OBVIOUS
<1> HIDE DEF missing, new, start, free
<1>8. sdk' \in [Streams -> Sdks] /\ promise' \in Named
  BY <1>1, <1>5, <1>6 DEF Named
<1>9. ASSUME NEW s \in Streams
      PROVE  \/ sdk'[s] = found[s]
             \/ found[s].state = "free" /\ sdk'[s] = Starting(c) /\ promise'[Kind(s)] = s
  <2>1. CASE \E k \in new : start[k] = s
    <3>1. PICK k \in new : start[k] = s
      BY <2>1
    <3>2. Kind(s) = k /\ found[s].state = "free" /\ promise'[k] = s
      BY <1>1, <1>6, <3>1
    <3>3. QED BY <1>1, <2>1, <3>2
  <2>2. CASE ~\E k \in new : start[k] = s
    BY <1>1, <2>2
  <2>3. QED BY <2>1, <2>2
<1>10. ASSUME NEW k \in Kinds
       PROVE  \/ promise'[k] = pending[k]
              \/ /\ pending[k] = None /\ task[k] = None /\ field[k] = None
                 /\ promise'[k] \in Streams /\ Kind(promise'[k]) = k /\ sdk'[promise'[k]] = Starting(c)
  <2>1. CASE k \in new
    <3>1. promise'[k] = start[k] /\ start[k] \in Streams /\ sdk'[start[k]] = Starting(c)
      BY <1>1, <1>6, <2>1
    <3>2. QED BY <1>6, <1>7, <2>1, <3>1
  <2>2. CASE k \notin new
    BY <1>1, <2>2
  <2>3. QED BY <2>1, <2>2
<1>11. QED BY <1>4, <1>8, <1>9, <1>10

\* The connected client's operation starts what is missing.
LEMMA EnsureKeeps ==
  ASSUME IInv, NEW name \in Names, NEW at \in Connected, client \in Clients,
         op.at \notin Stopping \cup {"opening"}, EnsureStreams(name, client, sdk, promise, at),
         UNCHANGED <<client, created, late, field, task, history>>, faults' \in 0..MaxFaults,
         loop' \in BOOLEAN, wanted' \in BOOLEAN, queued' \in Clients \cup {None},
         gap' \in {"none", "stream", "missed"}
  PROVE  IInv'
<1>1. /\ Is(name, at, client, 0)
      /\ sdk' \in [Streams -> Sdks] /\ promise' \in Named
      /\ \A s \in Streams :
           \/ sdk'[s] = sdk[s]
           \/ sdk[s].state = "free" /\ sdk'[s] = Starting(client) /\ promise'[Kind(s)] = s
      /\ \A k \in Kinds :
           \/ promise'[k] = promise[k]
           \/ /\ promise[k] = None /\ task[k] = None /\ field[k] = None
              /\ promise'[k] \in Streams /\ Kind(promise'[k]) = k /\ sdk'[promise'[k]] = Starting(client)
  BY EnsureStarts DEF IInv, StreamsTyped
<1>2. client # None /\ at \notin Stopping /\ at # "opening" /\ at # "none"
  BY ClientSessionAssumption DEF Connected, Stopping
<1>3. LifecycleTyped'
  BY <1>1 DEF IInv, LifecycleTyped, Is
<1>4. StepsAgree'
  BY <1>1, <1>2 DEF StepsAgree, Is, Stopping
<1>5. HistoryTyped' /\ PublishedCools'
  BY HistoryKeeps
<1>6. StreamsTyped'
  BY <1>1 DEF IInv, StreamsTyped
<1>7. FreshIsConnected'
  BY <1>1, <1>2 DEF IInv, FreshIsConnected, Starting, Is
<1>8. PromisesStart'
  <2>1. ASSUME NEW s \in Streams, sdk'[s].fresh, sdk'[s].state = "starting" PROVE promise'[Kind(s)] = s
    BY <1>1, <2>1, KindsAreTyped DEF IInv, PromisesStart
  <2>2. ASSUME NEW k \in Kinds, promise'[k] # None
        PROVE  /\ task[k] = None /\ field[k] = None /\ Kind(promise'[k]) = k
               /\ sdk'[promise'[k]].state = "starting" /\ sdk'[promise'[k]].fresh
    <3>1. CASE promise'[k] = promise[k]
      <4>1. promise[k] \in Streams
        BY <2>2, <3>1 DEF IInv, StreamsTyped, Named
      <4>2. sdk'[promise[k]] = sdk[promise[k]]
        BY <1>1, <2>2, <3>1, <4>1 DEF IInv, PromisesStart
      <4>3. QED BY <2>2, <3>1, <4>2 DEF IInv, PromisesStart
    <3>2. CASE promise'[k] # promise[k]
      BY <1>1, <3>2 DEF Starting
    <3>3. QED BY <3>1, <3>2
  <2>3. QED BY <2>1, <2>2 DEF PromisesStart
<1>9. FreshIsOwned' /\ HandlersAreTasks'
  BY <1>1, <1>2 DEF IInv, FreshIsOwned, HandlersAreTasks, Starting, Is
<1>10. QED BY <1>3, <1>4, <1>5, <1>6, <1>7, <1>8, <1>9 DEF IInv

\* The client was saved, and its streams are started.
LEMMA ReuseSavedKeeps == ASSUME IInv, ReuseSaved PROVE IInv'
<1>1. /\ op.at = "saving" /\ EnsureStreams("reuse", client, sdk, promise, "subscribing")
      /\ UNCHANGED <<client, created, faults, loop, queued, wanted, late, field, task, history, gap>>
  BY DEF ReuseSaved, At
<1>2. op.at \in Connected /\ op.at \notin Stopping \cup {"opening"} /\ "subscribing" \in Connected /\ "reuse" \in Names
  BY <1>1 DEF Connected, Stopping, Names
<1>3. client \in Clients
  BY <1>2 DEF IInv, StepsAgree, LifecycleTyped
<1>4. QED BY <1>1, <1>2, <1>3, EnsureKeeps DEF IInv, LifecycleTyped

\* A recovery takes the queued client.
LEMMA BeginRecoveryKeeps == ASSUME IInv, BeginRecovery PROVE IInv'
<1>1. /\ op = Idle /\ queued # None /\ client = queued /\ wanted' = FALSE
      /\ EnsureStreams("recovery", client, sdk, promise, "subscribing")
      /\ UNCHANGED <<client, created, faults, loop, queued, late, field, task, history, gap>>
  BY DEF BeginRecovery
<1>2. op.at \notin Stopping \cup {"opening"} /\ "subscribing" \in Connected /\ "recovery" \in Names
  BY <1>1 DEF Connected, Stopping, Names, Idle
<1>3. client \in Clients
  BY <1>1 DEF IInv, LifecycleTyped
<1>4. QED BY <1>1, <1>2, <1>3, EnsureKeeps DEF IInv, LifecycleTyped

\* The reads of a new client start once more what failed to start.
LEMMA BootstrapReadKeeps == ASSUME IInv, BootstrapRead PROVE IInv'
<1>1. /\ op.at = "reading" /\ gap' \in {"none", "stream", "missed"}
      /\ UNCHANGED <<client, created, faults, loop, queued, wanted, late, field, task, history>>
  BY ReadIsTyped DEF BootstrapRead, At, IInv
<1>2. /\ op.at \in Connected /\ op.at \notin Stopping \cup {"opening"} /\ "connect" \in Names
      /\ "resubscribing" \in Connected /\ "resubscribing" \in Ats
  BY <1>1 DEF Connected, Stopping, Names, Ats
<1>3. client \in Clients /\ client # None /\ op.client = client
  BY <1>2 DEF IInv, StepsAgree, LifecycleTyped
<1>4. CASE EnsureStreams("connect", client, sdk, promise, "resubscribing")
  BY <1>1, <1>2, <1>3, <1>4, EnsureKeeps DEF IInv, LifecycleTyped
<1>5. CASE Go("resubscribing") /\ UNCHANGED <<sdk, promise>>
  <2>1. Is(op.name, "resubscribing", client, op.stop)
    BY <1>2, <1>3, <1>5, GoIs DEF IInv
  <2>2. HistoryTyped' /\ PublishedCools' /\ UNCHANGED streams
    BY <1>1, <1>5, HistoryKeeps DEF streams
  <2>3. QED BY <1>1, <1>2, <1>3, <2>1, <2>2, ConnectedKeeps DEF IInv, LifecycleTyped
<1>6. QED BY <1>4, <1>5 DEF BootstrapRead

\* A new client starts its streams; those of its predecessors are stale.
LEMMA ActivateKeeps == ASSUME IInv, Activate PROVE IInv'
<1> DEFINE c == created + 1
           pending == [k \in Kinds |-> None]
<1>1. /\ op.name = "connect" /\ op.at = "opening" /\ created' = c /\ client' = c
      /\ EnsureStreams("connect", c, Stale, pending, "subscribing")
      /\ UNCHANGED <<faults, loop, queued, wanted, late, field, task, publishing, recent, gap>>
  BY DEF Activate, At
<1>2. client = None /\ c \in Clients /\ c # None /\ created' \in 0..MaxClients
  <2>1. client = None /\ created < MaxClients /\ created \in 0..MaxClients /\ MaxClients \in Nat
    BY <1>1, ClientSessionAssumption DEF IInv, StepsAgree, LifecycleTyped
  <2>2. c \in 1..MaxClients /\ c \in 0..MaxClients
    BY <2>1
  <2>3. QED BY <1>1, <2>1, <2>2, ClientSessionAssumption DEF Clients
<1>3. /\ Stale \in [Streams -> Sdks] /\ pending \in Named
      /\ \A s \in Streams : ~Stale[s].fresh /\ Stale[s].state = sdk[s].state /\ Stale[s].client = sdk[s].client
  BY DEF Stale, IInv, StreamsTyped, Sdks, Named
<1>4. \A k \in Kinds : pending[k] = None
  OBVIOUS
<1>5. "subscribing" \in Connected /\ "subscribing" \notin Stopping /\ "connect" \in Names
  BY DEF Connected, Stopping, Names
<1> HIDE DEF c, pending
<1>6. /\ Is("connect", "subscribing", c, 0)
      /\ sdk' \in [Streams -> Sdks] /\ promise' \in Named
      /\ \A s \in Streams :
           \/ sdk'[s] = Stale[s]
           \/ Stale[s].state = "free" /\ sdk'[s] = Starting(c) /\ promise'[Kind(s)] = s
      /\ \A k \in Kinds :
           \/ promise'[k] = None
           \/ /\ task[k] = None /\ field[k] = None
              /\ promise'[k] \in Streams /\ Kind(promise'[k]) = k /\ sdk'[promise'[k]] = Starting(c)
  <2>1. StreamsTyped
    BY DEF IInv
  <2>2. QED BY <1>1, <1>2, <1>3, <1>4, <1>5, <2>1, EnsureStarts
<1>7. LifecycleTyped'
  BY <1>1, <1>2, <1>6 DEF IInv, LifecycleTyped, Is
<1>8. HistoryTyped' /\ PublishedCools'
  BY <1>1, InvalidateIsTyped DEF Activate
<1>9. StepsAgree'
  BY <1>1, <1>2, <1>6 DEF StepsAgree, Is, Stopping
<1>10. StreamsTyped'
  BY <1>1, <1>6 DEF IInv, StreamsTyped
<1>11. FreshIsConnected' /\ FreshIsOwned'
  BY <1>1, <1>2, <1>3, <1>5, <1>6 DEF FreshIsConnected, FreshIsOwned, Starting, Is
<1>12. PromisesStart'
  BY <1>1, <1>3, <1>6 DEF PromisesStart, Starting
<1>13. HandlersAreTasks'
  BY <1>1, <1>2, <1>3, <1>6 DEF IInv, HandlersAreTasks, Starting
<1>14. QED BY <1>7, <1>8, <1>9, <1>10, <1>11, <1>12, <1>13 DEF IInv
-----------------------------------------------------------------------------
(* The SDK streams *)

\* What a step of a stream leaves to the operation.
SameStep == op'.at = op.at /\ op'.name = op.name /\ op'.client = op.client /\ op'.stop = op.stop

\* An answer, late or not, touches the promise of its own stream only.
LEMMA AnswerIsTyped ==
  ASSUME IInv, NEW s \in Streams, NEW result \in {"ready", "failed"}, Answer(s, result)
  PROVE  /\ op' \in Ops /\ SameStep /\ promise' \in Named
         /\ promise'[Kind(s)] # s
         /\ \A k \in Kinds : promise'[k] = promise[k] \/ (promise[k] = s /\ k = Kind(s) /\ promise'[k] = None)
<1> DEFINE k == Kind(s)
<1>1. k \in Kinds /\ s # None
  BY KindsAreTyped
<1>2. CASE promise[k] # s
  BY <1>1, <1>2 DEF Answer, IInv, LifecycleTyped, StreamsTyped, SameStep
<1>3. CASE promise[k] = s
  <2>1. /\ promise' = [promise EXCEPT ![k] = None]
        /\ op' = [op EXCEPT !.waits[k] = IF @ = "pending" THEN result ELSE @]
    BY <1>3 DEF Answer
  <2> HIDE DEF k
  <2>2. promise' \in Named /\ promise'[k] = None
        /\ \A j \in Kinds : promise'[j] = promise[j] \/ (j = k /\ promise'[j] = None)
    BY <1>1, <2>1 DEF IInv, StreamsTyped, Named
  <2>3. op' \in Ops /\ SameStep
    <3> DEFINE w == [op.waits EXCEPT ![k] = IF @ = "pending" THEN result ELSE @]
    <3>1. w \in [Kinds -> Results]
      BY <1>1 DEF IInv, LifecycleTyped, Ops, Results
    <3>2. op' = [op EXCEPT !.waits = w]
      BY <2>1
    <3> HIDE DEF w
    <3>3. QED BY <3>1, <3>2 DEF IInv, LifecycleTyped, Ops, SameStep
  <2>4. QED BY <1>1, <1>3, <2>2, <2>3 DEF k
<1>4. QED BY <1>2, <1>3

\* A step of the streams that leaves the rest of the lifecycle alone.
LEMMA SameStepKeeps ==
  ASSUME IInv, op' \in Ops, SameStep, UNCHANGED <<client, created, loop, late, history>>,
         faults' \in 0..MaxFaults, wanted' \in BOOLEAN, queued' \in Clients \cup {None},
         gap' \in {"none", "stream", "missed"}
  PROVE  LifecycleTyped' /\ StepsAgree' /\ HistoryTyped' /\ PublishedCools' /\ Stopped' = Stopped
<1>1. LifecycleTyped'
  BY DEF IInv, LifecycleTyped
<1>2. StepsAgree' /\ Stopped' = Stopped
  BY DEF IInv, StepsAgree, SameStep, history, Stopped
<1>3. QED BY <1>1, <1>2, HistoryKeeps

\* The stream of a start that is current is attached, ...
LEMMA AttachKeeps ==
  ASSUME IInv, NEW s \in Streams, StreamStarts(s), IsCurrent(s)
  PROVE  IInv'
<1> DEFINE k == Kind(s)
<1>1. /\ sdk[s].state = "starting" /\ sdk[s].fresh /\ Answer(s, "ready")
      /\ sdk' = [sdk EXCEPT ![s].state = "waiting"]
      /\ field' = [field EXCEPT ![k] = s] /\ task' = [task EXCEPT ![k] = s]
      /\ UNCHANGED <<client, created, faults, loop, queued, wanted, late, history, gap>>
  BY DEF StreamStarts, IsCurrent
<1>2. k \in Kinds /\ s # None /\ promise[k] = s /\ task[k] = None /\ field[k] = None
  BY <1>1, KindsAreTyped DEF IInv, PromisesStart
<1>3. /\ op' \in Ops /\ SameStep /\ promise' \in Named /\ promise'[k] = None
      /\ \A j \in Kinds : j # k => promise'[j] = promise[j]
  BY <1>1, <1>2, AnswerIsTyped
<1>4. LifecycleTyped' /\ StepsAgree' /\ HistoryTyped' /\ PublishedCools' /\ Stopped' = Stopped
  BY <1>1, <1>3, SameStepKeeps DEF IInv, LifecycleTyped
<1> HIDE DEF k
<1>5. /\ sdk' \in [Streams -> Sdks] /\ sdk'[s].state = "waiting"
      /\ \A r \in Streams : /\ r # s => sdk'[r] = sdk[r]
                            /\ sdk'[r].fresh = sdk[r].fresh /\ sdk'[r].client = sdk[r].client
  BY <1>1 DEF IInv, StreamsTyped, Sdks
<1>6. /\ field' \in Named /\ task' \in Named /\ field'[k] = s /\ task'[k] = s
      /\ \A j \in Kinds : j # k => field'[j] = field[j] /\ task'[j] = task[j]
  BY <1>1, <1>2 DEF IInv, StreamsTyped, Named
<1>7. StreamsTyped'
  BY <1>3, <1>5, <1>6 DEF StreamsTyped
<1>8. FreshIsConnected'
  BY <1>1, <1>3, <1>5 DEF IInv, FreshIsConnected, SameStep
<1>9. PromisesStart'
  <2>1. ASSUME NEW r \in Streams, sdk'[r].fresh, sdk'[r].state = "starting" PROVE promise'[Kind(r)] = r
    <3>1. r # s /\ promise[Kind(r)] = r
      BY <1>5, <2>1 DEF IInv, PromisesStart
    <3>2. QED BY <1>2, <1>3, <3>1, KindsAreTyped
  <2>2. ASSUME NEW j \in Kinds, promise'[j] # None
        PROVE  /\ task'[j] = None /\ field'[j] = None /\ Kind(promise'[j]) = j
               /\ sdk'[promise'[j]].state = "starting" /\ sdk'[promise'[j]].fresh
    <3>1. j # k /\ promise'[j] = promise[j] /\ promise[j] \in Streams
      BY <1>3, <2>2 DEF IInv, StreamsTyped, Named
    <3>2. Kind(promise[j]) = j /\ promise[j] # s
      BY <2>2, <3>1 DEF IInv, PromisesStart, k
    <3>3. QED BY <1>5, <1>6, <2>2, <3>1, <3>2 DEF IInv, PromisesStart
  <2>3. QED BY <2>1, <2>2 DEF PromisesStart
<1>10. FreshIsOwned'
  <2>1. ASSUME NEW r \in Streams, sdk'[r].fresh, sdk'[r].state \in {"waiting", "handling"}, r # s
        PROVE  task'[Kind(r)] = r /\ field'[Kind(r)] = r
    <3>1. task[Kind(r)] = r /\ field[Kind(r)] = r /\ r # None
      BY <1>5, <2>1, KindsAreTyped DEF IInv, FreshIsOwned
    <3>2. Kind(r) # k
      BY <1>2, <3>1
    <3>3. QED BY <1>6, <3>1, <3>2, KindsAreTyped
  <2>2. QED BY <1>6, <2>1 DEF FreshIsOwned, k
<1>11. HandlersAreTasks'
  <2>1. ASSUME NEW r \in Streams, sdk'[r].state \in {"handling", "ended"}, sdk'[r].client \notin late'
        PROVE  /\ sdk'[r].client = client' /\ client' # None /\ task'[Kind(r)] = r
               /\ op'.at \in Stopping => Kind(r) \notin Stopped'
    <3>1. r # s /\ sdk'[r] = sdk[r] /\ late' = late /\ client' = client
      BY <1>1, <1>5, <2>1
    <3>2. /\ sdk[r].client = client /\ client # None /\ task[Kind(r)] = r /\ r # None
          /\ op.at \in Stopping => Kind(r) \notin Stopped
      BY <2>1, <3>1, KindsAreTyped DEF IInv, HandlersAreTasks
    <3>3. Kind(r) # k
      BY <1>2, <3>2
    <3>4. QED BY <1>3, <1>4, <1>6, <3>1, <3>2, <3>3, KindsAreTyped DEF SameStep
  <2>2. QED BY <2>1 DEF HandlersAreTasks
<1>12. QED BY <1>4, <1>7, <1>8, <1>9, <1>10, <1>11 DEF IInv

\* ... another start is over, and nothing of it stays.
LEMMA StartEndsKeeps ==
  ASSUME IInv, NEW s \in Streams, NEW result \in {"ready", "failed"}, Answer(s, result),
         sdk[s].state = "starting", sdk' = [sdk EXCEPT ![s] = Free], faults' \in 0..MaxFaults,
         UNCHANGED <<client, created, loop, queued, wanted, late, field, task, history, gap>>
  PROVE  IInv'
<1>1. /\ op' \in Ops /\ SameStep /\ promise' \in Named /\ promise'[Kind(s)] # s
      /\ \A j \in Kinds : promise'[j] = promise[j] \/ (promise[j] = s /\ j = Kind(s) /\ promise'[j] = None)
  BY AnswerIsTyped
<1>2. LifecycleTyped' /\ StepsAgree' /\ HistoryTyped' /\ PublishedCools' /\ Stopped' = Stopped
  BY <1>1, SameStepKeeps DEF IInv, LifecycleTyped
<1>3. /\ sdk' \in [Streams -> Sdks] /\ sdk'[s] = Free /\ \A r \in Streams : r # s => sdk'[r] = sdk[r]
  <2>1. Free \in Sdks
    BY DEF Free, Sdks
  <2>2. QED BY <2>1 DEF IInv, StreamsTyped
<1>4. StreamsTyped'
  BY <1>1, <1>3 DEF IInv, StreamsTyped
<1>5. FreshIsConnected' /\ FreshIsOwned'
  BY <1>1, <1>3 DEF IInv, FreshIsConnected, FreshIsOwned, SameStep, Free
<1>6. PromisesStart'
  <2>1. ASSUME NEW r \in Streams, sdk'[r].fresh, sdk'[r].state = "starting" PROVE promise'[Kind(r)] = r
    <3>1. r # s /\ promise[Kind(r)] = r
      BY <1>3, <2>1 DEF IInv, PromisesStart, Free
    <3>2. QED BY <1>1, <3>1, KindsAreTyped
  <2>2. ASSUME NEW j \in Kinds, promise'[j] # None
        PROVE  /\ task'[j] = None /\ field'[j] = None /\ Kind(promise'[j]) = j
               /\ sdk'[promise'[j]].state = "starting" /\ sdk'[promise'[j]].fresh
    <3>1. promise'[j] = promise[j] /\ promise[j] \in Streams /\ Kind(promise[j]) = j
      BY <1>1, <2>2 DEF IInv, StreamsTyped, Named, PromisesStart
    <3>2. promise[j] # s
      BY <1>1, <3>1
    <3>3. QED BY <1>3, <2>2, <3>1, <3>2 DEF IInv, PromisesStart
  <2>3. QED BY <2>1, <2>2 DEF PromisesStart
<1>7. HandlersAreTasks'
  BY <1>1, <1>2, <1>3 DEF IInv, HandlersAreTasks, SameStep, Free
<1>8. QED BY <1>2, <1>4, <1>5, <1>6, <1>7 DEF IInv

\* A start resolves: its stream is used if the start is still current.
LEMMA StreamStartsKeeps == ASSUME IInv, NEW s \in Streams, StreamStarts(s) PROVE IInv'
<1>1. CASE IsCurrent(s)
  BY <1>1, AttachKeeps
<1>2. CASE ~IsCurrent(s)
  <2>1. /\ sdk[s].state = "starting" /\ sdk' = [sdk EXCEPT ![s] = Free] /\ Answer(s, "ready")
        /\ UNCHANGED <<client, created, loop, queued, wanted, late, field, task, history, gap, faults>>
    BY <1>2 DEF StreamStarts
  <2>2. QED BY <2>1, StartEndsKeeps DEF IInv, LifecycleTyped
<1>3. QED BY <1>1, <1>2

\* A start is rejected.
LEMMA StreamStartFailsKeeps == ASSUME IInv, NEW s \in Streams, StreamStartFails(s) PROVE IInv'
<1>1. /\ sdk[s].state = "starting" /\ sdk' = [sdk EXCEPT ![s] = Free] /\ Answer(s, "failed")
      /\ UNCHANGED <<client, created, loop, queued, wanted, late, field, task, history, gap>>
      /\ faults' \in 0..MaxFaults
  BY FaultCounts DEF StreamStartFails, IInv
<1>2. QED BY <1>1, StartEndsKeeps

\* The deadline of a start passes: its answer comes too late.
LEMMA StartTimesOutKeeps == ASSUME IInv, NEW k \in Kinds, StartTimesOut(k) PROVE IInv'
<1>1. /\ op' = [op EXCEPT !.waits[k] = "failed"] /\ faults' \in 0..MaxFaults
      /\ UNCHANGED <<client, created, loop, queued, wanted, late, streams, history, gap>>
  BY FaultCounts DEF StartTimesOut, IInv
<1>2. op' \in Ops /\ SameStep
  <2> DEFINE w == [op.waits EXCEPT ![k] = "failed"]
  <2>1. w \in [Kinds -> Results] /\ op' = [op EXCEPT !.waits = w]
    BY <1>1 DEF IInv, LifecycleTyped, Ops, Results
  <2> HIDE DEF w
  <2>2. QED BY <2>1 DEF IInv, LifecycleTyped, Ops, SameStep
<1>3. LifecycleTyped' /\ StepsAgree' /\ HistoryTyped' /\ PublishedCools'
  BY <1>1, <1>2, SameStepKeeps DEF IInv, LifecycleTyped
<1>4. StreamsTyped' /\ FreshIsConnected' /\ PromisesStart' /\ FreshIsOwned' /\ HandlersAreTasks'
  BY <1>1, <1>2, StreamsKeep DEF SameStep
<1>5. QED BY <1>3, <1>4 DEF IInv

\* A loop that returns gives up its field and its task, and no other's.
LEMMA LoopReturnsKeeps ==
  ASSUME IInv, NEW s \in Streams, sdk[s].state \in {"waiting", "handling", "ended"}, LoopReturns(s),
         faults' \in 0..MaxFaults
  PROVE  IInv'
<1> DEFINE k == Kind(s)
<1>1. /\ sdk' = [sdk EXCEPT ![s] = Free]
      /\ field' = [field EXCEPT ![k] = IF @ = s THEN None ELSE @]
      /\ task' = [task EXCEPT ![k] = IF @ = s THEN None ELSE @]
      /\ UNCHANGED <<op, client, created, loop, late, promise, history>>
      /\ LoseStream(s) /\ (ScheduleRecovery \/ UNCHANGED <<queued, wanted>>)
  BY DEF LoopReturns
<1>2. k \in Kinds
  BY KindsAreTyped
<1>3. op' \in Ops /\ SameStep /\ gap' \in {"none", "stream", "missed"}
      /\ queued' \in Clients \cup {None} /\ wanted' \in BOOLEAN
  BY <1>1, LoseIsTyped, ScheduleIsTyped DEF IInv, LifecycleTyped, SameStep
<1>4. LifecycleTyped' /\ StepsAgree' /\ HistoryTyped' /\ PublishedCools' /\ Stopped' = Stopped
  BY <1>1, <1>3, SameStepKeeps
<1> HIDE DEF k
<1>5. /\ sdk' \in [Streams -> Sdks] /\ sdk'[s] = Free /\ \A r \in Streams : r # s => sdk'[r] = sdk[r]
  <2>1. Free \in Sdks
    BY DEF Free, Sdks
  <2>2. QED BY <1>1, <2>1 DEF IInv, StreamsTyped
<1>6. /\ field' \in Named /\ task' \in Named
      /\ \A j \in Kinds : /\ field'[j] = field[j] \/ (field[j] = s /\ field'[j] = None)
                          /\ task'[j] = task[j] \/ (task[j] = s /\ task'[j] = None)
  BY <1>1, <1>2 DEF IInv, StreamsTyped, Named
<1>7. StreamsTyped'
  BY <1>1, <1>5, <1>6 DEF IInv, StreamsTyped
<1>8. FreshIsConnected'
  BY <1>1, <1>5 DEF IInv, FreshIsConnected, Free
<1>9. PromisesStart'
  <2>1. \A r \in Streams : sdk'[r].fresh /\ sdk'[r].state = "starting" => promise'[Kind(r)] = r
    BY <1>1, <1>5 DEF IInv, PromisesStart, Free
  <2>2. ASSUME NEW j \in Kinds, promise[j] # None
        PROVE  /\ task'[j] = None /\ field'[j] = None /\ Kind(promise[j]) = j
               /\ sdk'[promise[j]].state = "starting" /\ sdk'[promise[j]].fresh
    <3>1. promise[j] \in Streams /\ promise[j] # s
      BY <2>2 DEF IInv, StreamsTyped, Named, PromisesStart
    <3>2. QED BY <1>5, <1>6, <2>2, <3>1 DEF IInv, PromisesStart
  <2>3. QED BY <1>1, <2>1, <2>2 DEF PromisesStart
<1>10. FreshIsOwned'
  BY <1>5, <1>6, KindsAreTyped DEF IInv, FreshIsOwned, Free
<1>11. HandlersAreTasks'
  BY <1>1, <1>4, <1>5, <1>6, KindsAreTyped DEF IInv, HandlersAreTasks, Free
<1>12. QED BY <1>4, <1>7, <1>8, <1>9, <1>10, <1>11 DEF IInv

\* A loop ends, with its stream or by itself.
LEMMA LoopEndsKeeps ==
  ASSUME IInv, NEW s \in Streams, StreamEnds(s) \/ BreakLoop(s) \/ HandledLast(s)
  PROVE  IInv'
<1>1. sdk[s].state \in {"waiting", "handling", "ended"} /\ LoopReturns(s)
  BY DEF StreamEnds, BreakLoop, HandledLast
<1>2. faults' \in 0..MaxFaults
  BY FaultCounts DEF StreamEnds, BreakLoop, HandledLast, IInv, LifecycleTyped
<1>3. QED BY <1>1, <1>2, LoopReturnsKeeps

\* A value is handled by the loop that its field and its task name.
LEMMA DeliverKeeps ==
  ASSUME IInv, NEW s \in Streams, DeliverMessage(s) \/ DeliverDeletion(s) \/ Handled(s)
  PROVE  IInv'
<1>1. /\ UNCHANGED <<lifecycle, promise, field, task, history>> /\ gap' \in {"none", "stream", "missed"}
      /\ \/ /\ sdk[s].state = "waiting" /\ sdk[s].fresh /\ sdk[s].client = client
            /\ sdk' = [sdk EXCEPT ![s].state = "handling"]
         \/ sdk[s].state = "handling" /\ sdk' = [sdk EXCEPT ![s].state = "waiting"]
  BY DEF DeliverMessage, DeliverDeletion, Handled, IsCurrent, IInv, LifecycleTyped
<1>2. LifecycleTyped' /\ StepsAgree' /\ HistoryTyped' /\ PublishedCools' /\ UNCHANGED <<op, client, late>>
  BY <1>1 DEF IInv, LifecycleTyped, StepsAgree, HistoryTyped, PublishedCools, lifecycle, history
<1>3. /\ sdk' \in [Streams -> Sdks] /\ \A r \in Streams : r # s => sdk'[r] = sdk[r]
      /\ sdk'[s].fresh = sdk[s].fresh /\ sdk'[s].client = sdk[s].client
      /\ {sdk[s].state, sdk'[s].state} \subseteq {"waiting", "handling"}
      /\ sdk'[s].state = "handling" => sdk[s].fresh /\ sdk[s].client = client /\ sdk[s].state = "waiting"
  BY <1>1 DEF IInv, StreamsTyped, Sdks
<1>4. StreamsTyped'
  BY <1>1, <1>3 DEF IInv, StreamsTyped
<1>5. FreshIsConnected'
  BY <1>2, <1>3 DEF IInv, FreshIsConnected
<1>6. PromisesStart'
  <2>1. \A r \in Streams : sdk'[r].state = "starting" => r # s
    BY <1>3
  <2>2. \A j \in Kinds : promise[j] # None => promise[j] \in Streams /\ promise[j] # s
    BY <1>3 DEF IInv, PromisesStart, StreamsTyped, Named
  <2>3. QED BY <1>1, <1>3, <2>1, <2>2 DEF IInv, PromisesStart
<1>7. FreshIsOwned'
  BY <1>1, <1>3 DEF IInv, FreshIsOwned
<1>8. HandlersAreTasks'
  <2>1. sdk'[s].state = "handling" =>
          sdk[s].client = client /\ client # None /\ task[Kind(s)] = s /\ op.at \notin Stopping
    BY <1>3 DEF IInv, FreshIsConnected, FreshIsOwned
  <2>2. Stopped' = Stopped
    BY <1>2 DEF Stopped
  <2>3. QED BY <1>1, <1>2, <1>3, <2>1, <2>2 DEF IInv, HandlersAreTasks
<1>9. QED BY <1>2, <1>4, <1>5, <1>6, <1>7, <1>8 DEF IInv

\* A conversation arrives, the timer ticks, or someone sends a message.
LEMMA NudgeKeeps ==
  ASSUME IInv, (\E s \in Streams : DeliverConversation(s)) \/ Nudge \/ MessageSent
  PROVE  IInv'
<1>1. UNCHANGED <<op, client, created, faults, loop, late, streams, history>>
      /\ gap' \in {"none", "stream", "missed"} /\ (ScheduleRecovery \/ UNCHANGED <<queued, wanted>>)
  BY DEF DeliverConversation, Nudge, MessageSent, lifecycle, IInv, LifecycleTyped
<1>2. queued' \in Clients \cup {None} /\ wanted' \in BOOLEAN
  BY <1>1, ScheduleIsTyped DEF IInv, LifecycleTyped
<1>3. op' \in Ops /\ SameStep
  BY <1>1 DEF IInv, LifecycleTyped, SameStep
<1>4. LifecycleTyped' /\ StepsAgree' /\ HistoryTyped' /\ PublishedCools'
  BY <1>1, <1>2, <1>3, SameStepKeeps DEF IInv, LifecycleTyped
<1>5. StreamsTyped' /\ FreshIsConnected' /\ PromisesStart' /\ FreshIsOwned' /\ HandlersAreTasks'
  BY <1>1, StreamsKeep
<1>6. QED BY <1>4, <1>5 DEF IInv
-----------------------------------------------------------------------------
(* Theorems *)

\* The invariant holds at the start ...
LEMMA InitIInv == Init => IInv
<1> SUFFICES ASSUME Init PROVE IInv
  OBVIOUS
<1>1. op = Idle /\ op \in Ops /\ op.at = "none"
  BY DEF Init, Idle, Ops, Names, Results
<1>2. LifecycleTyped
  <2>1. 0 \in 0..MaxClients /\ 0 \in 0..MaxFaults
    BY ClientSessionAssumption
  <2>2. FALSE \in BOOLEAN /\ "none" \in {"none", "stream", "missed"} /\ {} \subseteq Clients
    OBVIOUS
  <2>3. /\ client = None /\ queued = None /\ created = 0 /\ faults = 0
        /\ loop = FALSE /\ wanted = FALSE /\ late = {} /\ gap = "none"
    BY DEF Init
  <2>4. loop \in BOOLEAN /\ wanted \in BOOLEAN
    BY <2>2, <2>3, Zenon
  <2>5. client \in Clients \cup {None} /\ queued \in Clients \cup {None}
    BY <2>3, Zenon
  <2>6. QED BY <1>1, <2>1, <2>2, <2>3, <2>4, <2>5 DEF LifecycleTyped
<1>3. Free \in Sdks /\ Free.state = "free" /\ ~Free.fresh
  BY DEF Free, Sdks
<1>4. /\ sdk \in [Streams -> Sdks] /\ \A s \in Streams : sdk[s].state = "free" /\ ~sdk[s].fresh
      /\ \A k \in Kinds : promise[k] = None
  BY <1>3 DEF Init
<1>5. StreamsTyped
  BY <1>4 DEF Init, StreamsTyped, Named
<1>6. HistoryTyped /\ PublishedCools
  BY DEF Init, HistoryTyped, PublishedCools
<1>7. StepsAgree
  BY <1>1 DEF StepsAgree, Stopping, Connected
<1>8. FreshIsConnected /\ PromisesStart /\ FreshIsOwned /\ HandlersAreTasks
  BY <1>4 DEF FreshIsConnected, PromisesStart, FreshIsOwned, HandlersAreTasks
<1>9. QED BY <1>2, <1>5, <1>6, <1>7, <1>8 DEF IInv

\* ... and in every step.
LEMMA NextIInv == IInv /\ [Next]_vars => IInv'
<1> SUFFICES ASSUME IInv, [Next]_vars PROVE IInv'
  OBVIOUS
<1>1. CASE UNCHANGED vars
  <2>1. UNCHANGED <<op, client, created, faults, loop, queued, wanted, late, streams, history, gap>>
    BY <1>1 DEF vars, lifecycle
  <2>2. op' \in Ops /\ SameStep
    BY <2>1 DEF IInv, LifecycleTyped, SameStep
  <2>3. LifecycleTyped' /\ StepsAgree' /\ HistoryTyped' /\ PublishedCools'
    BY <2>1, <2>2, SameStepKeeps DEF IInv, LifecycleTyped
  <2>4. StreamsTyped' /\ FreshIsConnected' /\ PromisesStart' /\ FreshIsOwned' /\ HandlersAreTasks'
    BY <2>1, StreamsKeep
  <2>5. QED BY <2>3, <2>4 DEF IInv
<1>2. CASE BeginDisconnect \/ BeginConnect \/ BeginReuse
  BY <1>2, BeginDisconnectKeeps, BeginConnectKeeps, BeginReuseKeeps
<1>3. CASE DisconnectStep
  BY <1>3, StopStreamKeeps, EndStreamSettlesKeeps, TimesOutKeeps, ConsumerReturnsKeeps,
     ClientClosesKeeps DEF DisconnectStep
<1>4. CASE ConnectStep
  BY <1>4, ConnectFailsKeeps, ActivateKeeps, SubscribedKeeps, BootstrapReadKeeps,
     BootstrappedKeeps DEF ConnectStep
<1>5. CASE ReuseStep
  BY <1>5, ReuseRefusedKeeps, ReuseSavedKeeps, BootstrappedKeeps DEF ReuseStep
<1>6. CASE RecoveryStep
  BY <1>6, SkipRecoveryKeeps, BeginRecoveryKeeps, SubscribedKeeps, RecoveryReadKeeps DEF RecoveryStep
<1>7. CASE RequestStep
  BY <1>7, RequestRefusedKeeps, PublishKeeps DEF RequestStep
<1>8. ASSUME NEW c \in Clients, PublicationSettles(c) PROVE IInv'
  BY <1>8, PublicationSettlesKeeps
<1>9. ASSUME NEW i \in Installations, CoolsDown(i) PROVE IInv'
  BY <1>9, CoolsDownKeeps
<1>10. ASSUME NEW s \in Streams,
              \/ StreamStarts(s) \/ StreamStartFails(s) \/ StreamEnds(s) \/ BreakLoop(s)
              \/ DeliverConversation(s) \/ DeliverMessage(s) \/ DeliverDeletion(s)
              \/ Handled(s) \/ HandledLast(s)
       PROVE  IInv'
  BY <1>10, StreamStartsKeeps, StreamStartFailsKeeps, LoopEndsKeeps, DeliverKeeps, NudgeKeeps
<1>11. ASSUME NEW k \in Kinds, StartTimesOut(k) PROVE IInv'
  BY <1>11, StartTimesOutKeeps
<1>12. CASE Nudge \/ MessageSent
  BY <1>12, NudgeKeeps
<1>13. QED
  BY <1>1, <1>2, <1>3, <1>4, <1>5, <1>6, <1>7, <1>8, <1>9, <1>10, <1>11, <1>12
     DEF Next, OperationStep

\* The inductive invariant holds in every state.
THEOREM Invariance == Spec => []IInv
<1>1. Init => IInv
  BY InitIInv
<1>2. IInv /\ [Next]_vars => IInv'
  BY NextIInv
<1>3. QED BY <1>1, <1>2, PTL DEF Spec

\* Every field keeps its type; the history request that is owed is never a
\* closed client's, and no page creates more clients than it is given.
THEOREM TypeCorrect == Spec => []TypeOK
<1>1. IInv => TypeOK
  BY DEF IInv, LifecycleTyped, StreamsTyped, HistoryTyped, TypeOK, Ops, Names, Stopping, Connected,
     Results, Sdks, Named
<1>2. QED BY <1>1, Invariance, PTL

\* Every consumer loop of the connected client is the one its field and task
\* name, and no loop handles a value for a closed client unless a shutdown
\* deadline of that client passed: whatever the starts, failures, reconnects
\* and late answers, and in whatever order the kinds are stopped.
THEOREM LoopsBelong == Spec => []LoopsAreOwned
<1>1. IInv => LoopsAreOwned
  <2> SUFFICES ASSUME IInv PROVE LoopsAreOwned
    OBVIOUS
  <2>1. LiveLoopsAreOwned
    BY DEF IInv, FreshIsOwned, LiveLoopsAreOwned, IsCurrent
  <2>2. ClosedClientsAreQuiet
    BY DEF IInv, HandlersAreTasks, ClosedClientsAreQuiet
  <2>3. QED BY <2>1, <2>2 DEF LoopsAreOwned
<1>2. QED BY <1>1, Invariance, PTL

\* The request that the connected client has out is the one in flight, until a shutdown
\* begins; a client that is created next has none out.
OneRequest ==
  /\ publishing \subseteq 1..created /\ (client # None => client \in 1..created)
  /\ client \in publishing /\ op.at \notin Stopping =>
       requests[InstallationOf[client]].inFlight = client

\* An operation or a stream that goes on without a request leaves it so.
LEMMA OneRequestStays ==
  ASSUME OneRequest, UNCHANGED <<client, created, requests, publishing>>,
         op'.at \in Stopping \/ op.at \notin Stopping
  PROVE  OneRequest'
BY DEF OneRequest

\* A step of a disconnect, or of a connect that disconnects first, stays one or closes
\* the client.
LEMMA StoppingStays ==
  ASSUME IInv, OneRequest, DisconnectStep
  PROVE  OneRequest'
<1>1. UNCHANGED <<created, requests, publishing>>
  BY DEF DisconnectStep, StopStream, EndStreamSettles, EndStreamTimesOut, ConsumerReturns,
     ConsumerTimesOut, ClientCloses, history
<1>2. op.at \in Stopping /\ op \in Ops
  BY DEF DisconnectStep, StopStream, EndStreamSettles, EndStreamTimesOut, ConsumerReturns,
     ConsumerTimesOut, ClientCloses, Stopping, IInv, LifecycleTyped
<1>3. CASE ClientCloses
  BY <1>1, <1>3, KindsAreTyped DEF OneRequest, ClientCloses, IInv, HistoryTyped
<1>4. CASE ~ClientCloses
  <2>1. client' = client
    BY <1>4 DEF DisconnectStep, StopStream, EndStreamSettles, EndStreamTimesOut,
       ConsumerReturns, ConsumerTimesOut
  <2>2. op'.at \in {"stopping", "ending", "draining"}
    BY <1>2, <1>4 DEF DisconnectStep, StopStream, EndStreamSettles, EndStreamTimesOut,
       ConsumerReturns, ConsumerTimesOut, NextStop, Go, Ops
  <2>3. QED BY <1>1, <2>1, <2>2, OneRequestStays DEF Stopping
<1>5. QED BY <1>3, <1>4

\* A connect or a disconnect that begins gives the client's request up, if it has a client.
LEMMA BeginningsStay ==
  ASSUME IInv, OneRequest, BeginDisconnect \/ BeginConnect \/ BeginReuse
  PROVE  OneRequest'
<1>1. UNCHANGED <<client, created, publishing>> /\ op = Idle
  BY DEF BeginDisconnect, BeginConnect, BeginReuse, history
<1>2. CASE client = None
  BY <1>1, <1>2, KindsAreTyped DEF OneRequest, IInv, HistoryTyped
<1>3. CASE BeginReuse
  <2>1. UNCHANGED requests /\ op.at \notin Stopping
    BY <1>1, <1>3 DEF BeginReuse, history, Idle, Stopping
  <2>2. QED BY <1>1, <2>1, OneRequestStays
<1>4. CASE client # None /\ ~BeginReuse
  <2>1. op'.at = "stopping"
    BY <1>4 DEF BeginDisconnect, BeginConnect, Begin, Idle
  <2>2. QED BY <1>1, <2>1 DEF OneRequest, Stopping
<1>5. QED BY <1>2, <1>3, <1>4

\* A client that is created is connected without a request.
LEMMA ActivateStays ==
  ASSUME IInv, OneRequest, Activate
  PROVE  OneRequest'
<1>1. created' = created + 1 /\ client' = created + 1 /\ created \in Nat /\ publishing' = publishing
  BY ClientSessionAssumption DEF Activate, IInv, LifecycleTyped
<1>2. client' \notin publishing'
  BY <1>1 DEF OneRequest
<1>3. QED BY <1>1, <1>2 DEF OneRequest

\* A request that is published is the one in flight.
LEMMA PublishStays ==
  ASSUME IInv, OneRequest, Publish
  PROVE  OneRequest' /\ client \notin publishing
<1>1. /\ op.at = "requesting" /\ Entry.inFlight = None
      /\ requests' = [requests EXCEPT ![InstallationOf[client]] =
                        [cooling |-> TRUE, inFlight |-> client]]
      /\ publishing' = publishing \cup {client} /\ UNCHANGED <<client, created>>
  BY DEF Publish
<1>2. client # None /\ client \in Clients /\ InstallationOf[client] \in Installations
  BY <1>1, ClientSessionAssumption DEF IInv, StepsAgree, LifecycleTyped, Connected
<1>3. client \notin publishing
  BY <1>1, <1>2, KindsAreTyped DEF OneRequest, Entry, Stopping
<1>4. requests'[InstallationOf[client]].inFlight = client
  BY <1>1, <1>2 DEF IInv, HistoryTyped
<1>5. QED BY <1>1, <1>2, <1>3, <1>4 DEF OneRequest

\* A request that settles takes away the entry of its own client only.
LEMMA SettlingStays ==
  ASSUME IInv, OneRequest, NEW c \in Clients, PublicationSettles(c)
  PROVE  OneRequest'
<1>1. /\ requests' = [requests EXCEPT ![InstallationOf[c]].inFlight = IF @ = c THEN None ELSE @]
      /\ publishing' = publishing \ {c} /\ UNCHANGED <<client, created>>
  BY DEF PublicationSettles, ClearPublication
<1>2. op.at \in Stopping => op' = op
  BY DEF PublicationSettles, Stopping
<1>3. ASSUME client \in publishing', op'.at \notin Stopping
      PROVE  requests'[InstallationOf[client]].inFlight = client
  <2>1. client \in publishing /\ client # c /\ op.at \notin Stopping
    BY <1>1, <1>2, <1>3
  <2>2. client \in Clients /\ InstallationOf[client] \in Installations
    BY <2>1, ClientSessionAssumption DEF IInv, HistoryTyped
  <2>3. requests[InstallationOf[client]].inFlight = client
    BY <2>1 DEF OneRequest
  <2>4. QED BY <1>1, <2>1, <2>2, <2>3 DEF IInv, HistoryTyped
<1>4. QED BY <1>1, <1>3 DEF OneRequest

\* A cooldown that ends leaves the request in flight.
LEMMA CoolingStays ==
  ASSUME IInv, OneRequest, NEW i \in Installations, CoolsDown(i)
  PROVE  OneRequest'
<1>1. /\ requests' = [requests EXCEPT ![i].cooling = FALSE]
      /\ UNCHANGED <<op, client, created, publishing>>
  BY DEF CoolsDown, lifecycle
<1>2. ASSUME client \in publishing
      PROVE  requests'[InstallationOf[client]].inFlight = requests[InstallationOf[client]].inFlight
  <2>1. InstallationOf[client] \in Installations
    BY <1>2, ClientSessionAssumption DEF IInv, HistoryTyped
  <2>2. QED BY <1>1, <2>1 DEF IInv, HistoryTyped
<1>3. QED BY <1>1, <1>2 DEF OneRequest

\* Whatever else happens leaves requests, clients and stops alone.
LEMMA OthersStay ==
  ASSUME IInv, OneRequest,
         \/ (ConnectStep /\ ~Activate) \/ ReuseStep \/ RecoveryStep
         \/ RequestRefused \/ PublicationTimesOut \/ Nudge \/ MessageSent
         \/ \E k \in Kinds : StartTimesOut(k)
         \/ \E s \in Streams :
              \/ StreamStarts(s) \/ StreamStartFails(s) \/ StreamEnds(s) \/ BreakLoop(s)
              \/ DeliverConversation(s) \/ DeliverMessage(s) \/ DeliverDeletion(s)
              \/ Handled(s) \/ HandledLast(s)
  PROVE  OneRequest'
<1>1. UNCHANGED <<client, created, requests, publishing>>
  BY DEF ConnectStep, ReuseStep, RecoveryStep, ConnectFails, Activate, Subscribed, BootstrapRead,
     Bootstrapped, ReuseRefused, ReuseSaved, ReuseSubscribed, SkipRecovery, BeginRecovery,
     RecoverySubscribed, RecoveryRead, RequestRefused, PublicationTimesOut, Nudge, MessageSent,
     StartTimesOut, StreamStarts, StreamStartFails, StreamEnds, BreakLoop, LoopReturns,
     DeliverConversation, DeliverMessage, DeliverDeletion, Handled, HandledLast, lifecycle, history
<1>2. op'.at \in Stopping \/ op.at \notin Stopping
  <2>1. CASE ConnectStep \/ ReuseStep \/ RecoveryStep \/ RequestRefused \/ PublicationTimesOut
    <3>1. CASE ConnectStep
      BY <3>1 DEF ConnectStep, ConnectFails, Activate, Subscribed, BootstrapRead, Bootstrapped, At,
         Stopping
    <3>2. CASE ReuseStep
      BY <3>2 DEF ReuseStep, ReuseRefused, ReuseSaved, ReuseSubscribed, At, Stopping
    <3>3. CASE RecoveryStep
      BY <3>3 DEF RecoveryStep, SkipRecovery, BeginRecovery, RecoverySubscribed, RecoveryRead, At,
         Idle, Stopping
    <3>4. CASE RequestRefused \/ PublicationTimesOut
      BY <3>4 DEF RequestRefused, PublicationTimesOut, Stopping
    <3>5. QED BY <2>1, <3>1, <3>2, <3>3, <3>4
  <2>2. CASE ~(ConnectStep \/ ReuseStep \/ RecoveryStep \/ RequestRefused \/ PublicationTimesOut)
    <3>1. op' = op \/ \E w : op' = [op EXCEPT !.waits = w]
      BY <2>2 DEF Nudge, MessageSent, StartTimesOut, StreamStarts, StreamStartFails, StreamEnds,
         BreakLoop, LoopReturns, DeliverConversation, DeliverMessage, DeliverDeletion, Handled,
         HandledLast, Answer, lifecycle
    <3>2. QED BY <3>1 DEF IInv, LifecycleTyped, Ops
  <2>3. QED BY <2>1, <2>2
<1>3. QED BY <1>1, <1>2, OneRequestStays

\* The request in flight is known in every state.
LEMMA RequestsAreSingle == Spec => []OneRequest
<1>1. Init => OneRequest
  BY ClientSessionAssumption DEF Init, OneRequest
<1>2. IInv /\ OneRequest /\ [Next]_vars => OneRequest'
  <2> SUFFICES ASSUME IInv, OneRequest, [Next]_vars PROVE OneRequest'
    OBVIOUS
  <2>1. CASE UNCHANGED vars
    BY <2>1 DEF OneRequest, vars, lifecycle, history
  <2>2. CASE BeginDisconnect \/ BeginConnect \/ BeginReuse
    BY <2>2, BeginningsStay
  <2>3. CASE OperationStep
    BY <2>3, StoppingStays, ActivateStays, PublishStays, OthersStay DEF OperationStep, RequestStep
  <2>4. CASE \E c \in Clients : PublicationSettles(c)
    BY <2>4, SettlingStays
  <2>5. CASE \E i \in Installations : CoolsDown(i)
    BY <2>5, CoolingStays
  <2>6. QED BY <2>1, <2>2, <2>3, <2>4, <2>5, OthersStay DEF Next
<1>3. QED BY <1>1, <1>2, Invariance, PTL DEF Spec

\* Across reconnects an installation asks for its history at most once per cooldown, and a
\* client never while a request of its own is out: a step that publishes finds the
\* installation rested and the client's last request settled.
THEOREM RequestsAreSpaced == Spec => HistoryRequestsPaced
<1>1. IInv /\ OneRequest /\ [Next]_vars =>
        [Publish => InstallationOf[client] \notin recent /\ client \notin publishing]_vars
  <2> SUFFICES ASSUME IInv, OneRequest, Publish
               PROVE  InstallationOf[client] \notin recent /\ client \notin publishing
    OBVIOUS
  <2>1. ~requests[InstallationOf[client]].cooling
    BY DEF Publish, Entry
  <2>2. client \notin publishing
    BY PublishStays
  <2>3. QED BY <2>1, <2>2 DEF IInv, PublishedCools
<1>2. QED BY <1>1, Invariance, RequestsAreSingle, PTL DEF Spec, HistoryRequestsPaced
=============================================================================
