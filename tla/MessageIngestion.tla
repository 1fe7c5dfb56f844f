-------------------------- MODULE MessageIngestion --------------------------
(***************************************************************************)
(* The bridge between XMTP and the app's own database                      *)
(* (src/src/lib/xmtp/message-events.ts) and its one consumer, the Layout   *)
(* component (src/src/app/Layout.tsx).                                     *)
(*                                                                         *)
(* Decoded messages and side effects (reactions, system rows, group        *)
(* updates) are appended to one promise chain, ingestionTail, and handled  *)
(* one at a time; while no Layout is mounted they wait in two buffers.     *)
(* JavaScript runs a synchronous stretch without interruption, so mounting *)
(* a Layout, which registers both consumers in one effect, is one action.  *)
(*                                                                         *)
(* The session half models what a handler consults: the connected inbox,   *)
(* the authenticated identity and the storage namespace, while the inbox   *)
(* switcher adds an inbox (useAuth.ts createIdentity).                     *)
(***************************************************************************)
EXTENDS Naturals, Sequences, SequencesExt

CONSTANTS
  Messages, Effects,  \* decoded messages, and the side effects
  Inboxes, Layouts,
  NoInbox, NoLayout,
  OwnerOf,            \* the inbox whose client decoded an event
  TargetOf,           \* the message a side effect is about
  MaxPending,         \* bound on the events waiting in the bridge
  MaxFailures, MaxGeneration  \* bounds on the two monotonic counters

Events == Messages \cup Effects

ASSUME EventAssumption ==
  /\ Messages \cap Effects = {}
  /\ OwnerOf \in [Events -> Inboxes]
  /\ TargetOf \in [Effects -> Messages]
  /\ \A e \in Effects : OwnerOf[TargetOf[e]] = OwnerOf[e]
ASSUME BridgeAssumption ==
  /\ NoInbox \notin Inboxes /\ NoLayout \notin Layouts
  /\ MaxPending \in Nat /\ MaxFailures \in Nat /\ MaxGeneration \in Nat

VARIABLES
  consumer,       \* the Layout whose callbacks are registered
  mounted,        \* the Layouts on the page
  messageBuffer,  \* bufferedMessages: in order of first arrival, one per ID
  effectBuffer,   \* bufferedSideEffects
  tail,           \* the work chained on ingestionTail, the running one first
  handling,       \* the running work passed its owner check and is writing
  failures,       \* ingestionFailureCount
  generation      \* consumerGeneration

VARIABLES
  client,     \* the inbox of the connected XmtpClient
  identity,   \* useAuthStore identity.inboxId
  namespace,  \* the storage namespace getStorage() opens
  switching   \* the inbox addition in progress

VARIABLES
  stored,     \* the events written to each namespace
  handled     \* history: the events a handler has finished with

bridge  == <<consumer, mounted, messageBuffer, effectBuffer, tail, handling,
             failures, generation>>
session == <<client, identity, namespace, switching>>
vars    == <<bridge, session, stored, handled>>

Pending == ToSet(tail) \cup ToSet(messageBuffer) \cup ToSet(effectBuffer)
PendingCount == Len(tail) + Len(messageBuffer) + Len(effectBuffer)

SwitchSteps == {"none", "forgotten", "disconnected", "identified", "bound", "restoring"}
NotSwitching == [step |-> "none", from |-> NoInbox, to |-> NoInbox]

Init ==
  /\ consumer = NoLayout /\ mounted = {}
  /\ messageBuffer = <<>> /\ effectBuffer = <<>> /\ tail = <<>>
  /\ handling = FALSE /\ failures = 0 /\ generation = 0
  /\ \E i \in Inboxes : client = i /\ identity = i /\ namespace = i
  /\ switching = NotSwitching
  /\ stored = [i \in Inboxes |-> {}]
  /\ handled = {}
-----------------------------------------------------------------------------
(* message-events.ts *)

\* dispatchXmtpMessage, dispatchXmtpDurableSideEffect.  Only buffered messages
\* are deduplicated.
Dispatch(e) ==
  \/ /\ consumer # NoLayout
     /\ tail' = Append(tail, e)
     /\ UNCHANGED <<messageBuffer, effectBuffer>>
  \/ /\ consumer = NoLayout /\ e \in Messages
     /\ messageBuffer' = IF e \in ToSet(messageBuffer) THEN messageBuffer
                         ELSE Append(messageBuffer, e)
     /\ UNCHANGED <<tail, effectBuffer>>
  \/ /\ consumer = NoLayout /\ e \in Effects
     /\ effectBuffer' = Append(effectBuffer, e)
     /\ UNCHANGED <<tail, messageBuffer>>

\* Mutants: side effects first; the chain restarted.
DrainEffectsFirst == tail' = tail \o effectBuffer \o messageBuffer
                     /\ messageBuffer' = <<>> /\ effectBuffer' = <<>>
DrainIntoNewChain == tail' = messageBuffer \o effectBuffer
                     /\ messageBuffer' = <<>> /\ effectBuffer' = <<>>

\* What the buffers hand over, messages first.
Drain == tail' = tail \o messageBuffer \o effectBuffer
         /\ messageBuffer' = <<>> /\ effectBuffer' = <<>>

\* Layout's effect: registerXmtpMessageConsumer, then
\* registerXmtpDurableSideEffectConsumer, each draining its buffer.
Mount(l) ==
  /\ l \notin mounted
  /\ generation < MaxGeneration
  /\ mounted' = mounted \cup {l}
  /\ consumer' = l
  /\ Drain
  /\ generation' = generation + 1
  /\ UNCHANGED <<handling, failures, session, stored, handled>>

\* The effect's cleanup unregisters a consumer only by its own token.
Unmount(l) ==
  /\ l \in mounted
  /\ mounted' = mounted \ {l}
  /\ \/ /\ consumer = l /\ consumer' = NoLayout
        /\ generation < MaxGeneration /\ generation' = generation + 1
     \/ /\ consumer # l /\ UNCHANGED <<consumer, generation>>
  /\ UNCHANGED <<messageBuffer, effectBuffer, tail, handling, failures,
                 session, stored, handled>>
-----------------------------------------------------------------------------
(* The handlers Layout registers *)

\* getXmtpClient().getInboxId() ?? identity.inboxId
ActiveInbox == IF client # NoInbox THEN client ELSE identity

\* Mutant: the handler's state outlives its work.
NextWorkStillHandling ==
  /\ tail' = Tail(tail)
  /\ handling' = handling
  /\ handled' = handled \cup {Head(tail)}

NextWork ==
  /\ tail' = Tail(tail)
  /\ handling' = FALSE
  /\ handled' = handled \cup {Head(tail)}

\* The first lines of a handler: work queued by a superseded inbox is skipped.
SkipSuperseded ==
  /\ tail # <<>> /\ ~handling
  /\ OwnerOf[Head(tail)] # ActiveInbox
  /\ NextWork
  /\ UNCHANGED <<consumer, mounted, messageBuffer, effectBuffer, failures,
                 generation, session, stored>>

\* Mutant: a rejection is not caught, so the chain stays rejected.
StartHandlingUnlessRejected ==
  /\ tail # <<>> /\ ~handling /\ failures = 0
  /\ OwnerOf[Head(tail)] = ActiveInbox
  /\ handling' = TRUE
  /\ UNCHANGED <<consumer, mounted, messageBuffer, effectBuffer, tail, failures,
                 generation, session, stored, handled>>

StartHandling ==
  /\ tail # <<>> /\ ~handling
  /\ OwnerOf[Head(tail)] = ActiveInbox
  /\ handling' = TRUE
  /\ UNCHANGED <<consumer, mounted, messageBuffer, effectBuffer, tail, failures,
                 generation, session, stored, handled>>

\* The write goes to the namespace that getStorage() opens when it is reached,
\* several awaits after the check (useMessages.ts receiveMessage).
HandlerStores ==
  /\ handling
  /\ stored' = [stored EXCEPT ![namespace] = @ \cup {Head(tail)}]
  /\ NextWork
  /\ UNCHANGED <<consumer, mounted, messageBuffer, effectBuffer, failures,
                 generation, session>>

\* A rejected handler is counted and the chain goes on with the next work.
HandlerFails ==
  /\ handling
  /\ failures < MaxFailures
  /\ failures' = failures + 1
  /\ NextWork
  /\ UNCHANGED <<consumer, mounted, messageBuffer, effectBuffer, generation,
                 session, stored>>
-----------------------------------------------------------------------------
(* The session *)

\* The message stream or a history replay of the connected client decodes an
\* event; a side effect comes after the message it is about.
Decode(e) ==
  /\ client = OwnerOf[e]
  /\ PendingCount < MaxPending
  /\ e \in Effects => TargetOf[e] \in Pending \cup handled
  /\ Dispatch(e)
  /\ UNCHANGED <<consumer, mounted, handling, failures, generation, session,
                 stored, handled>>

Move(step) == switching' = [switching EXCEPT !.step = step]

\* createIdentity sets an identity whose inbox is not known yet ...
BeginAddInbox(to) ==
  /\ switching = NotSwitching
  /\ client # NoInbox /\ to # client
  /\ switching' = [step |-> "forgotten", from |-> client, to |-> to]
  /\ identity' = NoInbox
  /\ UNCHANGED <<bridge, client, namespace, stored, handled>>

\* ... connect() closes the client of the previous inbox ...
DisconnectPrevious ==
  /\ switching.step = "forgotten"
  /\ client' = NoInbox
  /\ Move("disconnected")
  /\ UNCHANGED <<bridge, identity, namespace, stored, handled>>

\* ... onInstallationReady saves the new inbox and moves the namespace ...
InstallationReady ==
  /\ switching.step = "disconnected"
  /\ identity' = switching.to
  /\ Move("identified")
  /\ UNCHANGED <<bridge, client, namespace, stored, handled>>

BindNamespace ==
  /\ switching.step = "identified"
  /\ namespace' = switching.to
  /\ Move("bound")
  /\ UNCHANGED <<bridge, client, identity, stored, handled>>

\* ... and the verified client is activated.  The switcher reloads the page
\* next, which is Reload.
ActivateNew ==
  /\ switching.step = "bound"
  /\ client' = switching.to
  /\ switching' = NotSwitching
  /\ UNCHANGED <<bridge, identity, namespace, stored, handled>>

\* A failed addition goes back: the namespace first, the identity after that,
\* and its client if it connects again.
RestoreNamespace ==
  /\ switching.step \in {"forgotten", "disconnected", "identified", "bound"}
  /\ namespace' = switching.from
  /\ Move("restoring")
  /\ UNCHANGED <<bridge, client, identity, stored, handled>>

RestoreSession ==
  /\ switching.step = "restoring"
  /\ identity' = switching.from
  /\ client' \in {client, switching.from}
  /\ switching' = NotSwitching
  /\ UNCHANGED <<bridge, namespace, stored, handled>>

\* Reload: what is in memory is gone, the databases stay.
Reload ==
  /\ consumer' = NoLayout /\ mounted' = {}
  /\ messageBuffer' = <<>> /\ effectBuffer' = <<>> /\ tail' = <<>>
  /\ handling' = FALSE /\ failures' = 0 /\ generation' = 0
  /\ client' = namespace /\ identity' = namespace
  /\ switching' = NotSwitching
  /\ UNCHANGED <<namespace, stored, handled>>
-----------------------------------------------------------------------------
Handle == SkipSuperseded \/ StartHandling \/ HandlerStores \/ HandlerFails

AddInbox ==
  \/ \E i \in Inboxes : BeginAddInbox(i)
  \/ DisconnectPrevious \/ InstallationReady \/ BindNamespace \/ ActivateNew
  \/ RestoreNamespace \/ RestoreSession

Next ==
  \/ \E e \in Events : Decode(e)
  \/ \E l \in Layouts : Mount(l) \/ Unmount(l)
  \/ Handle \/ AddInbox \/ Reload

Spec == Init /\ [][Next]_vars

\* Handlers come back: their awaits are IndexedDB transactions.
FairSpec == Spec /\ WF_vars(Handle)
-----------------------------------------------------------------------------
(* Properties *)

TypeOK ==
  /\ consumer \in Layouts \cup {NoLayout} /\ mounted \subseteq Layouts
  /\ messageBuffer \in Seq(Messages) /\ effectBuffer \in Seq(Effects)
  /\ tail \in Seq(Events)
  /\ handling \in BOOLEAN /\ (handling => tail # <<>>)
  /\ failures \in 0..MaxFailures /\ generation \in 0..MaxGeneration
  /\ client \in Inboxes \cup {NoInbox} /\ identity \in Inboxes \cup {NoInbox}
  /\ namespace \in Inboxes
  /\ switching \in [step : SwitchSteps, from : Inboxes \cup {NoInbox},
                    to : Inboxes \cup {NoInbox}]
  /\ stored \in [Inboxes -> SUBSET Events] /\ handled \subseteq Events

\* A side effect reaches its handler after the message it is about, whichever
\* of them had to wait for a Layout (one FIFO for both, and Layout's order of
\* registration): a reaction never finds its target still queued.
EffectsFollowTargets ==
  tail # <<>> /\ Head(tail) \in Effects => TargetOf[Head(tail)] \in handled

Queue == INSTANCE EventQueue
           WITH open <- consumer # NoLayout,
                waiting <- tail \o messageBuffer \o effectBuffer

\* Tail, buffers, registrations and stale cleanups together are one queue
\* (message-events.ts:131, "retained in memory and drained in FIFO order"): every
\* event is handled in its turn, only a reload forgets any, and no live event
\* overtakes one that had to wait for a Layout.
BridgeIsAQueue == Queue!QueueSpec

\* If a Layout stays mounted every waiting event is handled, unless the page
\* reloads: a failing handler does not block the ones behind it.
QueueDrains ==
  <>[](consumer # NoLayout) =>
    \A e \in Events : (e \in Pending) ~> (e \in handled \/ e \notin Pending)

\* FEATURES.md: "stale work from a previously selected inbox cannot write into
\* the active inbox".
StaleWorkStaysOut ==
  \A i \in Inboxes, e \in Events : e \in stored[i] => OwnerOf[e] = i
=============================================================================
