------------------------------- MODULE Reactions -------------------------------
(***************************************************************************)
(* The reactions of one message, with one emoji: the tap in the page       *)
(* (useMessages.ts, reactToMessage), the replays that bring the reactions  *)
(* of a conversation to the app shell (client.ts: syncHistory, and         *)
(* backfillReactionsForConversation each time a chat is loaded), and its   *)
(* handler (Layout.tsx, handleReaction), which the durable queue runs one  *)
(* event at a time.  The live message stream brings none: it passes a      *)
(* reaction on as a "system" row (client.ts:7857), which loads hide.       *)
(*                                                                         *)
(* The network keeps the reactions as a log of events.  The database and   *)
(* the screen each keep the set of people who reacted.                     *)
(***************************************************************************)
EXTENDS Naturals, Sequences

CONSTANTS
  Senders,   \* the inboxes of the conversation
  me,        \* this inbox
  Replays,   \* slots for the replays that may be under way together
  MaxEvents, \* bound: reaction events of the message
  MaxOpens,  \* bound: times the chat is loaded
  MaxSyncs,  \* bound: history syncs
  Absent

\* What the handler, a tap, a load and a replay have in hand.
Handlings == [shown : BOOLEAN, new : SUBSET Senders, by : Replays \cup {Absent},
              at : {"write", "publish"}]
Taps == [seen : SUBSET Senders, at : {"sending", "sent"}]
Loadings == [rows : {Absent} \cup SUBSET Senders]
Passes == [kind : {"open", "sync"}, next : Nat \ {0}, upTo : Nat, waits : BOOLEAN]

\* This inbox is one of the conversation, and "absent" is nothing else.
ASSUME ReactionsAssumption ==
  /\ me \in Senders
  /\ \A set \in SUBSET Senders : set # Absent
  /\ Absent \notin Handlings /\ Absent \notin Taps /\ Absent \notin Loadings
  /\ Absent \notin Passes /\ Absent \notin Replays

VARIABLES
  log,      \* the events in the order of the network: [who, add]
  covered,  \* the last event that a replay has handed over
  arrived,  \* reactions in the durable queue: [who, add, by: the replay that awaits it]
  handling, \* the event handleReaction has in hand, or Absent
  stored,   \* the reactions in the message's row; Absent: the message is not stored
  display,  \* those in useMessageStore; Absent: the chat is not loaded
  tap,      \* reactToMessage under way, or Absent
  loading,  \* loadMessages under way: the reactions it read, or Absent
  replays,  \* the replays under way: the events next .. upTo are still to come
  due,      \* replays that loads have started and that have read no events yet
  opens, syncs,
  doubtful, \* history: an event was missed, or an older value was written back
  alone     \* history: the replay that has had the message to itself, or Absent

reactionsVars == <<log, covered, arrived, handling, stored, display, tap, loading, replays, due,
                   opens, syncs, doubtful, alone>>

\* Mutant: the handler toggles, as the tap does, and does not ask what the event says.
Toggled(set, e) == IF e.who \in set THEN set \ {e.who} ELSE set \cup {e.who}

\* An event adds its sender or takes the sender away, however often it is handled.
Applied(set, e) == IF e.add THEN set \cup {e.who} ELSE set \ {e.who}

\* The person reacts, or takes a reaction back, between the events m and n.
ReactsIn(s, m, n) == \E k \in m .. n : log[k].who = s

\* Who has reacted after the first n events: those whose last event adds.
Reacted(n) ==
  {s \in Senders : \E k \in 1 .. n :
     /\ log[k].who = s /\ log[k].add
     /\ \A j \in k + 1 .. n : log[j].who # s}

\* A replay that stops here leaves events out that one has handed over before.
FallsShort(r) == replays[r].next <= replays[r].upTo /\ replays[r].next <= covered

ReactionsInit ==
  /\ log = <<>> /\ covered = 0 /\ arrived = <<>> /\ handling = Absent
  /\ stored \in {Absent, {}} /\ display = Absent
  /\ tap = Absent /\ loading = Absent
  /\ replays = [r \in Replays |-> Absent] /\ due = 0 /\ opens = 0 /\ syncs = 0
  /\ doubtful = FALSE /\ alone = Absent
-----------------------------------------------------------------------------
(* The network *)

PeerReacts(s) ==
  /\ s # me /\ Len(log) < MaxEvents
  /\ log' = Append(log, [who |-> s, add |-> s \notin Reacted(Len(log))])
  /\ UNCHANGED <<covered, arrived, handling, stored, display, tap, loading, replays, due, opens,
                 syncs, doubtful, alone>>

\* The message itself is stored, by a later history sync perhaps; an open chat shows it.
MessageStored ==
  /\ stored = Absent /\ stored' = {} /\ display' \in {Absent, {}}
  /\ UNCHANGED <<log, covered, arrived, handling, tap, loading, replays, due, opens, syncs,
                 doubtful, alone>>
-----------------------------------------------------------------------------
(* handleReaction *)

\* The replay that awaits the event goes on; a history sync gives the conversation up
\* when it was rejected.
Settled(by, failed) ==
  replays' = [r \in Replays |->
    IF r # by \/ replays[r] = Absent THEN replays[r]
    ELSE IF failed /\ replays[r].kind = "sync" THEN Absent
    ELSE [replays[r] EXCEPT !.waits = FALSE]]

\* The target on screen, or else its row, gives the reactions so far.
FindTarget ==
  /\ handling = Absent /\ arrived # <<>> /\ arrived' = Tail(arrived)
  /\ LET old == IF display # Absent THEN display ELSE stored IN
     /\ old # Absent
     /\ handling' = [shown |-> display # Absent, new |-> Applied(old, Head(arrived)),
                     by |-> Head(arrived).by, at |-> "write"]
  /\ UNCHANGED <<log, covered, stored, display, tap, loading, replays, due, opens, syncs,
                 doubtful, alone>>

\* Nothing comes of an event whose target is not stored, nor of one that was queued by an
\* inbox that is not the active one (any may be).
SkipEvent ==
  /\ handling = Absent /\ arrived # <<>> /\ arrived' = Tail(arrived)
  /\ Settled(Head(arrived).by, FALSE)
  /\ doubtful' = TRUE /\ alone' = Absent
  /\ UNCHANGED <<log, covered, handling, stored, display, tap, loading, due, opens, syncs>>

\* The database refuses the read or the write: the event is lost.
HandlerFails ==
  /\ \/ /\ handling = Absent /\ arrived # <<>> /\ arrived' = Tail(arrived)
        /\ Settled(Head(arrived).by, TRUE) /\ UNCHANGED handling
     \/ /\ handling # Absent /\ handling.at = "write" /\ handling' = Absent
        /\ Settled(handling.by, TRUE) /\ UNCHANGED arrived
  /\ doubtful' = TRUE /\ alone' = Absent
  /\ UNCHANGED <<log, covered, stored, display, tap, loading, due, opens, syncs>>

Write ==
  /\ handling # Absent /\ handling.at = "write"
  /\ stored' = IF stored = Absent THEN Absent ELSE handling.new
  /\ handling' = [handling EXCEPT !.at = "publish"]
  /\ UNCHANGED <<log, covered, arrived, display, tap, loading, replays, due, opens, syncs,
                 doubtful, alone>>

Publish ==
  /\ handling # Absent /\ handling.at = "publish"
  /\ display' = IF handling.shown /\ display # Absent THEN handling.new ELSE display
  /\ handling' = Absent
  /\ Settled(handling.by, FALSE)
  /\ UNCHANGED <<log, covered, arrived, stored, tap, loading, due, opens, syncs, doubtful, alone>>
-----------------------------------------------------------------------------
(* reactToMessage *)

\* The reactions on screen are read before the reaction is sent ...
Tap ==
  /\ tap = Absent /\ display # Absent /\ Len(log) < MaxEvents
  /\ tap' = [seen |-> display, at |-> "sending"]
  /\ UNCHANGED <<log, covered, arrived, handling, stored, display, loading, replays, due, opens,
                 syncs, doubtful, alone>>
TapSent ==
  /\ tap # Absent /\ tap.at = "sending" /\ Len(log) < MaxEvents
  /\ log' = Append(log, [who |-> me, add |-> me \notin tap.seen])
  /\ tap' = [tap EXCEPT !.at = "sent"]
  /\ UNCHANGED <<covered, arrived, handling, stored, display, loading, replays, due, opens,
                 syncs, doubtful, alone>>
TapFails ==
  /\ tap # Absent /\ tap' = Absent
  /\ UNCHANGED <<log, covered, arrived, handling, stored, display, loading, replays, due, opens,
                 syncs, doubtful, alone>>

\* ... and shown with the change when it has been: what came in between is gone.
TapShown ==
  /\ tap # Absent /\ tap.at = "sent" /\ tap' = Absent
  /\ LET new == IF me \in tap.seen THEN tap.seen \ {me} ELSE tap.seen \cup {me} IN
     display' = IF display = Absent THEN Absent ELSE new
  /\ doubtful' = (doubtful \/ (display # Absent /\ display # tap.seen))
  /\ alone' = Absent
  /\ UNCHANGED <<log, covered, arrived, handling, stored, loading, replays, due, opens, syncs>>
-----------------------------------------------------------------------------
(* loadMessages and the replays *)

LoadReads ==
  /\ loading = Absent /\ opens < MaxOpens /\ opens' = opens + 1
  /\ loading' = [rows |-> stored]
  /\ UNCHANGED <<log, covered, arrived, handling, stored, display, tap, replays, due, syncs,
                 doubtful, alone>>

\* setMessages; then backfillReactionsForConversation is started and not awaited.
LoadSets ==
  /\ loading # Absent /\ loading' = Absent
  /\ display' = loading.rows
  /\ due' = due + 1
  /\ doubtful' = (doubtful \/ loading.rows # stored \/ (handling # Absent /\ ~handling.shown))
  /\ alone' = Absent
  /\ UNCHANGED <<log, covered, arrived, handling, stored, tap, replays, opens, syncs>>

\* messages() answers: a window of what the device has synced, the last 300 messages for a
\* chat that was opened, those after a checkpoint for a history sync.  A backfill that finds
\* the client gone reads nothing.
BeginReplay(r) ==
  /\ replays[r] = Absent
  /\ \E kind \in {"open", "sync"}, upTo \in 1 .. Len(log) : \E from \in 1 .. upTo :
       /\ replays' = [replays EXCEPT
            ![r] = [kind |-> kind, next |-> from, upTo |-> upTo, waits |-> FALSE]]
       /\ \/ kind = "open" /\ due > 0 /\ due' = due - 1 /\ UNCHANGED syncs
          \/ kind = "sync" /\ syncs < MaxSyncs /\ syncs' = syncs + 1 /\ UNCHANGED due
       /\ doubtful' = (doubtful \/ from > covered + 1)
       /\ alone' = IF /\ from = 1 /\ covered <= upTo
                      /\ arrived = <<>> /\ handling = Absent
                      /\ \A q \in Replays : replays[q] = Absent
                      /\ stored # Absent /\ display \in {Absent, stored}
                   THEN r ELSE Absent
  /\ UNCHANGED <<log, covered, arrived, handling, stored, display, tap, loading, opens>>

\* One reaction after the other, each when the last one has been handled; while no Layout
\* listens the bridge buffers them and nobody waits.
Replay(r) ==
  /\ replays[r] # Absent /\ ~replays[r].waits /\ replays[r].next <= replays[r].upTo
  /\ LET n == replays[r].next IN
     /\ \E awaited \in BOOLEAN :
          /\ arrived' = Append(arrived, [who |-> log[n].who, add |-> log[n].add,
                                        by |-> IF awaited THEN r ELSE Absent])
          /\ replays' = [replays EXCEPT ![r] = [@ EXCEPT !.next = n + 1, !.waits = awaited]]
     /\ covered' = IF n > covered THEN n ELSE covered
  /\ doubtful' = (doubtful \/ covered > replays[r].upTo)
  /\ UNCHANGED <<log, handling, stored, display, tap, loading, due, opens, syncs, alone>>

\* A replay that had the message to itself leaves no doubt.
ReplayEnds(r) ==
  /\ replays[r] # Absent /\ ~replays[r].waits /\ replays[r].next > replays[r].upTo
  /\ replays' = [replays EXCEPT ![r] = Absent]
  /\ doubtful' = (doubtful /\ alone # r)
  /\ alone' = IF alone = r THEN Absent ELSE alone
  /\ UNCHANGED <<log, covered, arrived, handling, stored, display, tap, loading, due, opens, syncs>>

\* The client changed under a backfill, or another message of the conversation failed.
ReplayStops(r) ==
  /\ replays[r] # Absent /\ ~replays[r].waits /\ replays[r].next <= replays[r].upTo
  /\ replays' = [replays EXCEPT ![r] = Absent]
  /\ doubtful' = (doubtful \/ FallsShort(r))
  /\ alone' = IF alone = r THEN Absent ELSE alone
  /\ UNCHANGED <<log, covered, arrived, handling, stored, display, tap, loading, due, opens, syncs>>

\* The page goes: what it held in memory is lost, the queue with it.
Reload ==
  /\ display' = Absent /\ arrived' = <<>> /\ handling' = Absent
  /\ tap' = Absent /\ loading' = Absent
  /\ replays' = [r \in Replays |-> Absent] /\ due' = 0
  /\ doubtful' = (doubtful \/ arrived # <<>> \/ handling # Absent
                  \/ \E r \in Replays : replays[r] # Absent /\ FallsShort(r))
  /\ alone' = Absent
  /\ UNCHANGED <<log, covered, stored, opens, syncs>>

ReactionsNext ==
  \/ \E s \in Senders : PeerReacts(s)
  \/ MessageStored \/ FindTarget \/ SkipEvent \/ HandlerFails \/ Write \/ Publish
  \/ Tap \/ TapSent \/ TapFails \/ TapShown
  \/ LoadReads \/ LoadSets
  \/ \E r \in Replays : BeginReplay(r) \/ Replay(r) \/ ReplayEnds(r) \/ ReplayStops(r)
  \/ Reload

ReactionsSpec == ReactionsInit /\ [][ReactionsNext]_reactionsVars
-----------------------------------------------------------------------------
(* Properties *)

\* Every variable has its type.
ReactionsTypeOK ==
  /\ log \in Seq([who : Senders, add : BOOLEAN])
  /\ arrived \in Seq([who : Senders, add : BOOLEAN, by : Replays \cup {Absent}])
  /\ covered \in 0 .. Len(log)
  /\ stored \in {Absent} \cup SUBSET Senders /\ display \in {Absent} \cup SUBSET Senders
  /\ handling \in {Absent} \cup Handlings /\ tap \in {Absent} \cup Taps
  /\ loading \in {Absent} \cup Loadings /\ replays \in [Replays -> {Absent} \cup Passes]
  /\ due \in Nat /\ doubtful \in BOOLEAN /\ alone \in {Absent} \cup Replays

AtRest ==
  /\ arrived = <<>> /\ handling = Absent /\ tap = Absent /\ loading = Absent
  /\ \A r \in Replays : replays[r] = Absent

\* ARCHITECTURE.md, message ingestion: when all is quiet, whoever has no event left that no
\* replay has brought is in the row exactly if the last one adds, though the handler reads
\* its starting point from the screen, replays overlap, and each event comes again and again.
\* Exempt until a replay that nothing disturbs has gone through all events: what a handler
\* lost or skipped, a tap or a load that put back an older value, a window that began
\* too late, and a replay that stopped, or was overtaken, within what was handled before.
ReactionsSettle ==
  AtRest /\ stored # Absent /\ ~doubtful =>
    \A s \in Senders : ~ReactsIn(s, covered + 1, Len(log)) =>
      (s \in stored <=> s \in Reacted(Len(log)))
=============================================================================
