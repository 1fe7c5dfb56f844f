---------------------------- MODULE ClientSession ----------------------------
(***************************************************************************)
(* One tab's connected client and what keeps it up to date                 *)
(* (src/src/lib/xmtp/client.ts): the message, conversation and deletion    *)
(* streams, the recovery pass that restarts them and reads what they       *)
(* missed, and the history request to the user's other installations.     *)
(*                                                                         *)
(* connect, reuse, disconnect and recovery are lifecycle operations: op is *)
(* the one that runs, at the await in op.at.  SDK streams, timers and      *)
(* publications go on beside it.  A stream is "starting" while the SDK     *)
(* call is pending; then its consumer loop waits for a value, handles one, *)
(* or, "ended", handles its last one.  Two of the source's counters        *)
(* (streamLifecycleGeneration, deviceHistoryRequestEpoch) matter only by   *)
(* being equal or not to the value captured before, so a stream carries    *)
(* the answer: fresh.                                                      *)
(***************************************************************************)
EXTENDS Naturals, Sequences, FiniteSets, SequencesExt

CONSTANTS
  StopOrder,       \* the kinds of stream, in the order disconnect ends them
  MaxClients,      \* bound: the clients one page creates
  MaxFaults,       \* bound: deadlines that pass and SDK streams that fail
  ReadsFail,       \* a soft sync or read may fail
  MaxStreams,      \* bound: SDK streams of a kind that exist at a time
  Installations,
  InstallationOf,  \* the installation each client signs in with
  None

Clients == 1..MaxClients
Kinds == ToSet(StopOrder)
Streams == Kinds \X (1..MaxStreams)
Kind(s) == s[1]

ASSUME ClientSessionAssumption ==
  /\ MaxClients \in Nat /\ MaxStreams \in Nat /\ MaxFaults \in Nat
  /\ ReadsFail \in BOOLEAN
  /\ Kinds \subseteq {"message", "conversation", "deletion"} /\ "message" \in Kinds
  /\ InstallationOf \in [Clients -> Installations]
  /\ None \notin Clients /\ None \notin Streams

VARIABLES
  op,       \* the running lifecycle operation; op.waits is what it knows of the
            \* starts it awaits
  client,   \* XmtpClient.client
  created,  \* the clients created so far
  faults,   \* the faults so far
  loop,     \* the discovery timer and the recovery listeners are installed
  queued,   \* recoveryQueued, with the client the queued recovery captured
  wanted,   \* pendingRecoveryReasons is not empty
  late      \* history: clients closed although a consumer missed its deadline

VARIABLES
  promise,  \* messageStreamStartPromise and its siblings, by the stream they start
  field,    \* messageStream ...
  task,     \* messageStreamTask ...
  sdk       \* the SDK streams and their consumer loops

VARIABLES
  requests,        \* deviceHistoryRequests
  pendingHistory,  \* pendingDeviceHistoryClient
  publishing,      \* clients whose sendSyncRequest() is outstanding
  recent,          \* history: installations that published within the cooldown
  gap              \* a message for this inbox: "none" is unread, or it waits in
                   \* the "stream", or it was "missed" by the stream

lifecycle == <<op, client, created, faults, loop, queued, wanted, late>>
streams   == <<promise, field, task, sdk>>
history   == <<requests, pendingHistory, publishing, recent>>
vars == <<lifecycle, streams, history, gap>>

Free == [state |-> "free", client |-> None, fresh |-> FALSE]
Starting(c) == [state |-> "starting", client |-> c, fresh |-> TRUE]

Idle == [name |-> "idle", at |-> "none", client |-> None, stop |-> 0,
         stream |-> None, waits |-> [k \in Kinds |-> "ready"]]

Init ==
  /\ op = Idle /\ client = None /\ created = 0 /\ faults = 0
  /\ loop = FALSE /\ queued = None /\ wanted = FALSE /\ late = {}
  /\ promise = [k \in Kinds |-> None] /\ field = [k \in Kinds |-> None]
  /\ task = [k \in Kinds |-> None] /\ sdk = [s \in Streams |-> Free]
  /\ requests = [i \in Installations |-> [cooling |-> FALSE, inFlight |-> None]]
  /\ pendingHistory = None /\ publishing = {} /\ recent = {}
  /\ gap = "none"
-----------------------------------------------------------------------------
(* Building blocks *)

At(name, at) == op.name = name /\ op.at = at
Go(at) == op' = [op EXCEPT !.at = at]
Begin(name, at, c) == op' = [Idle EXCEPT !.name = name, !.at = at, !.client = c]

Fault == faults < MaxFaults /\ faults' = faults + 1

\* scheduleInboxRecovery
ScheduleRecovery ==
  IF client = None THEN UNCHANGED <<queued, wanted>>
  ELSE /\ wanted' = TRUE
       /\ queued' = IF queued = None THEN client ELSE queued

\* stopBackgroundDiscoveryLoop
StopLoop == loop' = FALSE /\ wanted' = FALSE

\* startBackgroundDiscoveryLoop, then scheduleInboxRecovery for this client.
StartLoop == loop' = TRUE /\ wanted' = TRUE
             /\ queued' = IF queued = None THEN client ELSE queued

\* Mutant: the request a closed client owed is kept.
InvalidateFlightsOnly ==
  /\ requests' = [i \in Installations |-> [requests[i] EXCEPT !.inFlight = None]]
  /\ UNCHANGED pendingHistory

\* invalidateDeviceHistoryRequestFlights
InvalidateHistoryRequests ==
  /\ pendingHistory' = None
  /\ requests' = [i \in Installations |-> [requests[i] EXCEPT !.inFlight = None]]

\* The streams after invalidateStreamStartups.
Stale == [s \in Streams |-> [sdk[s] EXCEPT !.fresh = FALSE]]

\* ensureMessageStreamsBeforeHistoryRequest up to its await, given the streams
\* and the start promises it finds: a kind without stream and task is started,
\* or its pending start joined.  The operation waits at "at".
EnsureStreams(name, c, streamsNow, promiseNow, at) ==
  LET missing == {k \in Kinds : field[k] = None /\ task[k] = None}
      new == {k \in missing : promiseNow[k] = None}
      free(k) == {s \in Streams : Kind(s) = k /\ streamsNow[s].state = "free"}
      start == [k \in new |-> CHOOSE s \in free(k) : TRUE]
  IN /\ \A k \in new : free(k) # {}
     /\ sdk' = [s \in Streams |->
                  IF \E k \in new : start[k] = s THEN Starting(c) ELSE streamsNow[s]]
     /\ promise' = [k \in Kinds |-> IF k \in new THEN start[k] ELSE promiseNow[k]]
     /\ op' = [Idle EXCEPT !.name = name, !.at = at, !.client = c, !.waits =
                 [k \in Kinds |-> IF k \in missing THEN "pending" ELSE "ready"]]

StreamsReady == \A k \in Kinds \ {"conversation"} : op.waits[k] = "ready"
EnsureDone == \A k \in Kinds : op.waits[k] # "pending"

\* A stream that was live is gone: what it had not delivered is missed.
LoseStream(s) == gap' = IF s = field["message"] /\ gap = "stream" THEN "missed" ELSE gap

\* A read of the conversations' retained messages, which may fail.
ReadHistory == gap' \in {"none"} \cup {g \in {gap} : ReadsFail}
-----------------------------------------------------------------------------
(* disconnectInternal *)

BeginDisconnect ==
  /\ op = Idle /\ client # None
  /\ InvalidateHistoryRequests
  /\ sdk' = Stale /\ promise' = [k \in Kinds |-> None]
  /\ StopLoop
  /\ Begin("disconnect", "stopping", client)
  /\ UNCHANGED <<client, created, faults, queued, late, field, task,
                 publishing, recent, gap>>

NextToStop == StopOrder[op.stop + 1]

\* stopMessageDeletionStream, stopConversationStream, stopMessageStream: the
\* field is cleared before the stream is ended.
StopStream ==
  /\ op.at = "stopping" /\ op.stop < Len(StopOrder)
  /\ op' = [op EXCEPT !.at = "ending", !.stream = field[NextToStop]]
  /\ field' = [field EXCEPT ![NextToStop] = None]
  /\ IF NextToStop = "message" THEN LoseStream(field["message"]) ELSE UNCHANGED gap
  /\ UNCHANGED <<client, created, faults, loop, queued, wanted, late, promise, task, sdk,
                 history>>

NextStop(clearing) ==
  /\ op' = [op EXCEPT !.at = "stopping", !.stop = @ + 1, !.stream = None]
  /\ task' = [task EXCEPT ![clearing] = None]

\* stream.end() releases the loop's pending next(); a loop that is handling a
\* value is waited for.
EndStreamSettles ==
  /\ op.at = "ending"
  /\ LET k == NextToStop  s == task[k] IN
     IF s # None /\ sdk[s].state = "handling"
     THEN /\ sdk' = [sdk EXCEPT ![s].state = "ended"]
          /\ Go("draining")
          /\ UNCHANGED task
     ELSE /\ sdk' = IF s = None THEN sdk ELSE [sdk EXCEPT ![s] = Free]
          /\ NextStop(k)
  /\ UNCHANGED <<client, created, faults, loop, queued, wanted, late, promise, field,
                 history, gap>>

\* "client.close() is the remaining escape hatch": the loop is not waited for.
EndStreamTimesOut ==
  /\ Fault
  /\ op.at = "ending" /\ op.stream # None
  /\ NextStop(NextToStop)
  /\ late' = late \cup {op.client}
  /\ UNCHANGED <<client, created, loop, queued, wanted, promise, field, sdk,
                 history, gap>>

ConsumerReturns ==
  /\ op.at = "draining" /\ task[NextToStop] = None
  /\ NextStop(NextToStop)
  /\ UNCHANGED <<client, created, faults, loop, queued, wanted, late, promise, field, sdk,
                 history, gap>>

ConsumerTimesOut ==
  /\ Fault
  /\ op.at = "draining" /\ task[NextToStop] # None
  /\ NextStop(NextToStop)
  /\ late' = late \cup {op.client}
  /\ UNCHANGED <<client, created, loop, queued, wanted, promise, field, sdk,
                 history, gap>>

\* client.close() settled or passed its deadline; a reconnect goes on.
ClientCloses ==
  /\ op.at = "stopping" /\ op.stop = Len(StopOrder)
  /\ client' = None
  /\ op' = IF op.name = "connect" THEN [Idle EXCEPT !.name = "connect", !.at = "opening"]
           ELSE Idle
  /\ UNCHANGED <<created, faults, loop, queued, wanted, late, streams, history, gap>>
-----------------------------------------------------------------------------
(* connectInternal *)

\* Another signer, a client that is not ready, or none: the old one is
\* disconnected first.
BeginConnect ==
  /\ op = Idle /\ created < MaxClients
  /\ StopLoop
  /\ IF client = None
     THEN /\ Begin("connect", "opening", None)
          /\ UNCHANGED <<sdk, promise, requests, pendingHistory>>
     ELSE /\ InvalidateHistoryRequests
          /\ sdk' = Stale /\ promise' = [k \in Kinds |-> None]
          /\ Begin("connect", "stopping", client)
  /\ UNCHANGED <<client, created, faults, queued, late, field, task,
                 publishing, recent, gap>>

ConnectFails ==
  /\ Fault
  /\ At("connect", "opening")
  /\ op' = Idle
  /\ UNCHANGED <<client, created, loop, queued, wanted, late, streams, history, gap>>

\* activateVerifiedClient subscribes before it reads.
Activate ==
  /\ At("connect", "opening")
  /\ created' = created + 1 /\ client' = created + 1
  /\ InvalidateHistoryRequests
  /\ EnsureStreams("connect", created + 1, Stale, [k \in Kinds |-> None], "subscribing")
  /\ UNCHANGED <<faults, loop, queued, wanted, late, field, task, publishing, recent, gap>>

Subscribed ==
  /\ At("connect", "subscribing") /\ EnsureDone
  /\ Go("reading")
  /\ UNCHANGED <<client, created, faults, loop, queued, wanted, late, streams, history, gap>>

\* Failures of the first reads degrade the connection, they do not fail it.
\* Streams that are neither ready nor on their way are tried once more.
BootstrapRead ==
  /\ At("connect", "reading")
  /\ ReadHistory
  /\ IF ~StreamsReady /\ \A k \in Kinds \ {"conversation"} : promise[k] = None
     THEN EnsureStreams("connect", client, sdk, promise, "resubscribing")
     ELSE Go("resubscribing") /\ UNCHANGED <<sdk, promise>>
  /\ UNCHANGED <<client, created, faults, loop, queued, wanted, late, field, task, history>>

\* The loop is installed, a recovery requested, and the history of other
\* installations requested if it is needed.
Bootstrapped ==
  /\ At("connect", "resubscribing") /\ EnsureDone
  /\ StartLoop
  /\ \E required \in BOOLEAN :
       IF required /\ StreamsReady
       THEN Go("requesting") /\ UNCHANGED pendingHistory
       ELSE op' = Idle /\ pendingHistory' = IF required THEN client ELSE pendingHistory
  /\ UNCHANGED <<client, created, faults, late, streams, requests, publishing, recent, gap>>

\* A ready client of the same signer is reused.  A mismatch with the expected
\* inbox or installation, or a rejected onInstallationReady, ends the
\* operation after the loop was stopped.
BeginReuse ==
  /\ op = Idle /\ client # None
  /\ StopLoop
  /\ Begin("reuse", "saving", client)
  /\ UNCHANGED <<client, created, faults, queued, late, streams, history, gap>>

ReuseRefused ==
  /\ At("reuse", "saving")
  /\ op' = Idle
  /\ UNCHANGED <<client, created, faults, loop, queued, wanted, late, streams, history, gap>>

ReuseSaved ==
  /\ At("reuse", "saving")
  /\ EnsureStreams("reuse", client, sdk, promise, "subscribing")
  /\ UNCHANGED <<client, created, faults, loop, queued, wanted, late, field, task, history, gap>>

\* The history request comes before the loop here.
ReuseSubscribed ==
  /\ At("reuse", "subscribing") /\ EnsureDone
  /\ \E required \in BOOLEAN :
       IF required /\ StreamsReady
       THEN Go("requesting") /\ UNCHANGED <<pendingHistory, loop, wanted, queued>>
       ELSE /\ op' = Idle /\ StartLoop
            /\ pendingHistory' = IF required THEN client ELSE pendingHistory
  /\ UNCHANGED <<client, created, faults, late, streams, requests, publishing, recent, gap>>
-----------------------------------------------------------------------------
(* The recovery that scheduleInboxRecovery queued *)

\* The task's finally block.
AfterRecovery(wantedNow) == queued' = IF wantedNow /\ client # None THEN client ELSE None

\* Mutant: the early return leaves recoveryQueued set.
SkipRecoveryWithoutFinally ==
  op = Idle /\ queued # None /\ client # queued /\ UNCHANGED vars

\* A recovery queued for a client that is gone does nothing but reschedule.
SkipRecovery ==
  /\ op = Idle /\ queued # None /\ client # queued
  /\ AfterRecovery(wanted)
  /\ UNCHANGED <<op, client, created, faults, loop, wanted, late, streams, history, gap>>

BeginRecovery ==
  /\ op = Idle /\ queued # None /\ client = queued
  /\ wanted' = FALSE
  /\ EnsureStreams("recovery", client, sdk, promise, "subscribing")
  /\ UNCHANGED <<client, created, faults, loop, queued, late, field, task, history, gap>>

RecoverySubscribed ==
  /\ At("recovery", "subscribing") /\ EnsureDone
  /\ Go("reading")
  /\ UNCHANGED <<client, created, faults, loop, queued, wanted, late, streams, history, gap>>

\* The conversation sync and the read, then a history request still owed.
RecoveryRead ==
  /\ At("recovery", "reading")
  /\ ReadHistory
  /\ IF StreamsReady /\ pendingHistory = client
     THEN Go("requesting") /\ UNCHANGED queued
     ELSE op' = Idle /\ AfterRecovery(wanted)
  /\ UNCHANGED <<client, created, faults, loop, wanted, late, streams, history>>
-----------------------------------------------------------------------------
(* requestDeviceHistory *)

Entry == requests[InstallationOf[client]]

\* What the three callers do with the outcome.
RequestDone(published) ==
  /\ op' = Idle
  /\ IF op.name = "recovery"
     THEN /\ AfterRecovery(wanted)
          /\ pendingHistory' = IF published THEN None ELSE pendingHistory
          /\ UNCHANGED <<loop, wanted>>
     ELSE /\ pendingHistory' = IF published THEN pendingHistory ELSE client
          /\ IF op.name = "reuse" THEN StartLoop ELSE UNCHANGED <<loop, wanted, queued>>

RequestRefused ==
  /\ op.at = "requesting"
  /\ Entry.inFlight # None \/ Entry.cooling
  /\ RequestDone(FALSE)
  /\ UNCHANGED <<client, created, faults, late, streams, requests, publishing, recent, gap>>

\* Mutant: only the cooldown is looked at.
PublishOnceCooled ==
  /\ op.at = "requesting"
  /\ ~Entry.cooling
  /\ requests' = [requests EXCEPT ![InstallationOf[client]] =
                    [cooling |-> TRUE, inFlight |-> client]]
  /\ publishing' = publishing \cup {client}
  /\ recent' = recent \cup {InstallationOf[client]}
  /\ Go("publishing")
  /\ UNCHANGED <<client, created, faults, loop, queued, wanted, late, streams,
                 pendingHistory, gap>>

\* The cooldown is installed before the SDK is called.
Publish ==
  /\ op.at = "requesting"
  /\ Entry.inFlight = None /\ ~Entry.cooling
  /\ requests' = [requests EXCEPT ![InstallationOf[client]] =
                    [cooling |-> TRUE, inFlight |-> client]]
  /\ publishing' = publishing \cup {client}
  /\ recent' = recent \cup {InstallationOf[client]}
  /\ Go("publishing")
  /\ UNCHANGED <<client, created, faults, loop, queued, wanted, late, streams,
                 pendingHistory, gap>>

PublicationTimesOut ==
  /\ op.at = "publishing"
  /\ RequestDone(FALSE)
  /\ UNCHANGED <<client, created, faults, late, streams, requests, publishing, recent, gap>>

\* The entry is cleared only by the publication that owns it.
ClearPublication(c) ==
  /\ c \in publishing
  /\ publishing' = publishing \ {c}
  /\ requests' = [requests EXCEPT ![InstallationOf[c]].inFlight = IF @ = c THEN None ELSE @]

PublicationSettles(c) ==
  /\ ClearPublication(c)
  /\ IF op.at = "publishing" /\ op.client = c
     THEN \E published \in BOOLEAN : RequestDone(published)
     ELSE UNCHANGED <<op, loop, wanted, queued, pendingHistory>>
  /\ UNCHANGED <<client, created, faults, late, streams, recent, gap>>

CoolsDown(i) ==
  /\ requests[i].cooling
  /\ requests' = [requests EXCEPT ![i].cooling = FALSE]
  /\ recent' = recent \ {i}
  /\ UNCHANGED <<lifecycle, streams, pendingHistory, publishing, gap>>
-----------------------------------------------------------------------------
(* The SDK streams *)

IsCurrent(s) == sdk[s].fresh /\ sdk[s].client = client

\* The start promise of s resolves or rejects: the operation that awaits it
\* learns so, and the field is cleared.
Answer(s, result) ==
  LET k == Kind(s) IN
  IF promise[k] # s THEN UNCHANGED <<op, promise>>
  ELSE /\ promise' = [promise EXCEPT ![k] = None]
       /\ op' = [op EXCEPT !.waits[k] = IF @ = "pending" THEN result ELSE @]

\* Mutant: a stream that arrives late is attached to whatever client is there.
AttachUnchecked(s) ==
  /\ sdk[s].state = "starting"
  /\ sdk' = [sdk EXCEPT ![s].state = "waiting"]
  /\ field' = [field EXCEPT ![Kind(s)] = s]
  /\ task' = [task EXCEPT ![Kind(s)] = s]
  /\ Answer(s, "ready")
  /\ UNCHANGED <<client, created, faults, loop, queued, wanted, late, history, gap>>

\* The SDK call resolves: the stream is attached, or ended if its client or
\* generation was superseded meanwhile.
StreamStarts(s) ==
  /\ sdk[s].state = "starting"
  /\ IF IsCurrent(s)
     THEN /\ sdk' = [sdk EXCEPT ![s].state = "waiting"]
          /\ field' = [field EXCEPT ![Kind(s)] = s]
          /\ task' = [task EXCEPT ![Kind(s)] = s]
     ELSE /\ sdk' = [sdk EXCEPT ![s] = Free]
          /\ UNCHANGED <<field, task>>
  /\ Answer(s, "ready")
  /\ UNCHANGED <<client, created, faults, loop, queued, wanted, late, history, gap>>

StreamStartFails(s) ==
  /\ Fault
  /\ sdk[s].state = "starting"
  /\ sdk' = [sdk EXCEPT ![s] = Free]
  /\ Answer(s, "failed")
  /\ UNCHANGED <<client, created, loop, queued, wanted, late, field, task,
                 history, gap>>

\* The caller's eight seconds are over; the start goes on.
StartTimesOut(k) ==
  /\ Fault
  /\ op.waits[k] = "pending"
  /\ op' = [op EXCEPT !.waits[k] = "failed"]
  /\ UNCHANGED <<client, created, loop, queued, wanted, late, streams, history, gap>>

\* Mutant: clear forgets the task field.
LoopReturnsKeepingTask(s) ==
  LET k == Kind(s) IN
  /\ sdk' = [sdk EXCEPT ![s] = Free]
  /\ field' = [field EXCEPT ![k] = IF @ = s THEN None ELSE @]
  /\ LoseStream(s)
  /\ IF field[k] = s /\ k # "deletion" THEN ScheduleRecovery
     ELSE UNCHANGED <<queued, wanted>>
  /\ UNCHANGED <<op, client, created, loop, late, promise, task, history>>

\* A loop returns (the continuation called clear).  Only a message or
\* conversation stream that ended while it was in its field asks for recovery.
LoopReturns(s) ==
  LET k == Kind(s) IN
  /\ sdk' = [sdk EXCEPT ![s] = Free]
  /\ field' = [field EXCEPT ![k] = IF @ = s THEN None ELSE @]
  /\ task' = [task EXCEPT ![k] = IF @ = s THEN None ELSE @]
  /\ LoseStream(s)
  /\ IF field[k] = s /\ k # "deletion" THEN ScheduleRecovery
     ELSE UNCHANGED <<queued, wanted>>
  /\ UNCHANGED <<op, client, created, loop, late, promise, history>>

\* The transport ends the stream, the iterator throws, or the handler of a
\* value does (deleteLocalMessage, dispatchConvosJoinRequest).
StreamEnds(s) == Fault /\ sdk[s].state \in {"waiting", "handling"} /\ LoopReturns(s)

\* A value arrives at a loop whose client or generation is superseded.
BreakLoop(s) ==
  sdk[s].state = "waiting" /\ ~IsCurrent(s) /\ LoopReturns(s) /\ UNCHANGED faults

DeliverConversation(s) ==
  /\ sdk[s].state = "waiting" /\ Kind(s) = "conversation" /\ IsCurrent(s)
  /\ ScheduleRecovery
  /\ UNCHANGED <<op, client, created, faults, loop, late, streams, history, gap>>

DeliverMessage(s) ==
  /\ sdk[s].state = "waiting" /\ Kind(s) = "message" /\ IsCurrent(s)
  /\ gap = "stream"
  /\ sdk' = [sdk EXCEPT ![s].state = "handling"]
  /\ UNCHANGED <<lifecycle, promise, field, task, history, gap>>

DeliverDeletion(s) ==
  /\ sdk[s].state = "waiting" /\ Kind(s) = "deletion" /\ IsCurrent(s)
  /\ sdk' = [sdk EXCEPT ![s].state = "handling"]
  /\ UNCHANGED <<lifecycle, promise, field, task, history, gap>>

Handled(s) ==
  /\ sdk[s].state = "handling"
  /\ sdk' = [sdk EXCEPT ![s].state = "waiting"]
  /\ gap' = IF s = field["message"] THEN "none" ELSE gap
  /\ UNCHANGED <<lifecycle, promise, field, task, history>>

\* The stream was ended meanwhile: the loop returns after this value.
HandledLast(s) == sdk[s].state = "ended" /\ LoopReturns(s) /\ UNCHANGED faults

\* The timer, the browser's online and visibility events, a Layout that
\* mounts, and onRestart of a stream.
Nudge ==
  /\ loop
  /\ ScheduleRecovery
  /\ UNCHANGED <<op, client, created, faults, loop, late, streams, history, gap>>

\* Someone sends this inbox a message.
MessageSent ==
  /\ gap = "none"
  /\ gap' = IF field["message"] # None THEN "stream" ELSE "missed"
  /\ UNCHANGED <<lifecycle, streams, history>>
-----------------------------------------------------------------------------
DisconnectStep ==
  \/ StopStream \/ EndStreamSettles \/ EndStreamTimesOut
  \/ ConsumerReturns \/ ConsumerTimesOut \/ ClientCloses
ConnectStep ==
  \/ ConnectFails \/ Activate \/ Subscribed \/ BootstrapRead \/ Bootstrapped
ReuseStep == ReuseRefused \/ ReuseSaved \/ ReuseSubscribed
RecoveryStep == SkipRecovery \/ BeginRecovery \/ RecoverySubscribed \/ RecoveryRead
RequestStep == RequestRefused \/ Publish \/ PublicationTimesOut
OperationStep == DisconnectStep \/ ConnectStep \/ ReuseStep \/ RecoveryStep \/ RequestStep

Next ==
  \/ BeginDisconnect \/ BeginConnect \/ BeginReuse
  \/ OperationStep
  \/ \E c \in Clients : PublicationSettles(c)
  \/ \E i \in Installations : CoolsDown(i)
  \/ \E s \in Streams :
       \/ StreamStarts(s) \/ StreamStartFails(s) \/ StreamEnds(s) \/ BreakLoop(s)
       \/ DeliverConversation(s) \/ DeliverMessage(s) \/ DeliverDeletion(s)
       \/ Handled(s) \/ HandledLast(s)
  \/ \E k \in Kinds : StartTimesOut(k)
  \/ Nudge \/ MessageSent

Spec == Init /\ [][Next]_vars

(***************************************************************************)
(* Fairness.  A running operation goes on: its awaits have deadlines, or   *)
(* are reads that come back.  The lifecycle queue is first in, first out,  *)
(* so the queued recovery gets its turn however many operations are asked  *)
(* for.  Failures end (MaxFaults): a pending start resolves, a handler     *)
(* returns, and of reads tried again and again one succeeds.  The timer ticks. *)
(***************************************************************************)
ReadSucceeds == (BootstrapRead \/ RecoveryRead) /\ gap' = "none"

FairSpec ==
  /\ Spec
  /\ WF_vars(OperationStep)
  /\ \A k \in Kinds : WF_vars(\E s \in Streams : Kind(s) = k /\ StreamStarts(s))
  /\ WF_vars(\E s \in Streams : HandledLast(s))
  /\ SF_vars(SkipRecovery \/ BeginRecovery)
  /\ SF_vars(ReadSucceeds)
  /\ WF_vars(Nudge)
-----------------------------------------------------------------------------
(* Properties *)

TypeOK ==
  /\ op \in [name : {"idle", "connect", "reuse", "disconnect", "recovery"},
             at : {"none", "stopping", "ending", "draining", "opening", "saving",
                   "subscribing", "reading", "resubscribing", "requesting", "publishing"},
             client : Clients \cup {None}, stop : 0..Len(StopOrder),
             stream : Streams \cup {None},
             waits : [Kinds -> {"ready", "pending", "failed"}]]
  /\ client \in Clients \cup {None} /\ created \in 0..MaxClients /\ faults \in 0..MaxFaults
  /\ loop \in BOOLEAN /\ wanted \in BOOLEAN
  /\ queued \in Clients \cup {None} /\ late \subseteq Clients
  /\ promise \in [Kinds -> Streams \cup {None}]
  /\ field \in [Kinds -> Streams \cup {None}]
  /\ task \in [Kinds -> Streams \cup {None}]
  /\ sdk \in [Streams ->
        [state : {"free", "starting", "waiting", "handling", "ended"},
         client : Clients \cup {None}, fresh : BOOLEAN]]
  /\ requests \in [Installations ->
        [cooling : BOOLEAN, inFlight : Clients \cup {None}]]
  /\ pendingHistory \in {None, client}  \* never a closed client's
  /\ publishing \subseteq Clients /\ recent \subseteq Installations
  /\ gap \in {"none", "stream", "missed"}

LiveLoopsAreOwned ==
  \A s \in Streams :
    sdk[s].state \in {"waiting", "handling"} /\ IsCurrent(s) =>
      task[Kind(s)] = s /\ field[Kind(s)] = s
ClosedClientsAreQuiet ==
  \A s \in Streams :
    sdk[s].state \in {"handling", "ended"} =>
      sdk[s].client = client \/ sdk[s].client \in late

\* Every consumer loop of the connected client is the one its field and task
\* name, through starts that outlive their deadline, are joined, or resolve
\* after a reconnect: a message is not consumed by two loops, and disconnect
\* finds every loop it has to end.  And no loop handles a value for a closed
\* client, "Do not close the worker/database until that consumer has
\* returned", unless a shutdown deadline of that client passed.
LoopsAreOwned == LiveLoopsAreOwned /\ ClosedClientsAreQuiet

\* Across reconnects an installation asks for its history at most once per cooldown, and
\* a client does not ask while a request of its own is still out, although the caller of
\* that request gave up on it and its cooldown may be over (FEATURES.md: request
\* "single-flight"; invalidateDeviceHistoryRequestFlights keeps cooldowns).
HistoryRequestsPaced ==
  [][Publish => InstallationOf[client] \notin recent /\ client \notin publishing]_vars

\* Once a client stays connected with its loop installed, the streams come
\* back whatever ended them, hung or failed ...
StaysConnected == <>[](client # None /\ loop)
StreamsComeBack == StaysConnected => []<>(\A k \in Kinds : field[k] # None)

\* ... and what the message stream missed meanwhile is read from the network.
GapsAreClosed == StaysConnected => []<>(gap # "missed")
=============================================================================
