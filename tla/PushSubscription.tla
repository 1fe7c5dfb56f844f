--------------------------- MODULE PushSubscription ---------------------------
(***************************************************************************)
(* Web Push registrations of one browser (src/src/lib/push/subscribe.ts,   *)
(* state.ts, public/sw.js).                                                *)
(*                                                                         *)
(* The browser has one push subscription, IndexedDB a row per inbox        *)
(* installation, the relay a route per installation.  One tab runs its     *)
(* mutations one after another; a disable or a burn supersedes those that  *)
(* are under way or waiting.  pushMutationGeneration is only compared with *)
(* the value a call captured: `stale` says that they differ.               *)
(***************************************************************************)
EXTENDS Naturals, FiniteSets, Sequences

CONSTANTS
  Inboxes,
  MaxEndpoints,      \* bound: distinct subscription endpoints
  MaxInstallations,  \* bound: installations an inbox has had
  MaxCalls,          \* bound: calls of the interface
  MaxFaults,         \* bound: failed calls, closed pages, lost subscriptions
  None

VARIABLES
  rows,       \* ConvergePushState, registrations: [key -> row] for some keys
  prefs,      \* ConvergePushState, preferences
  activity,   \* ConvergePushState, inboxes with an activity hint
  sub,        \* the endpoint of the browser's subscription, or None
  relay,      \* vapid.party: key -> endpoint, or None
  loaded,     \* inboxes of the registry
  inst,       \* inbox -> its current installation
  current,    \* the inbox the page has open
  invalid,    \* invalidatedPushRegistrationKeys
  waiting,    \* enables waiting for the subscription or for topics
  queue, run, \* pushMutationTail and the mutation at work
  again,      \* the newer snapshot of the refresh queue, or None
  calls, faults

VARIABLES     \* history
  off,        \* a disable was asked for, then reported success
  burned,     \* inbox -> its burn was asked for, then reported success
  contested,  \* an enable was given a subscription that another call was to end
  forgot,     \* keys whose row was dropped while the route may have stayed
  cut         \* a deletion reached the relay, and its row stayed

store == <<rows, prefs, activity>>
page == <<current, invalid, waiting, queue, run, again>>
world == <<sub, relay, loaded, inst>>
history == <<off, burned, contested, forgot, cut>>
vars == <<store, page, world, calls, faults, history>>

Endpoints == 1..MaxEndpoints
RouteKeys == Inboxes \X (1..MaxInstallations)
Key(i) == <<i, inst[i]>>
Stored == DOMAIN rows
RowsOf(i) == {k \in Stored : k[1] = i}
Row(e, pending, deleting) == [endpoint |-> e, pending |-> pending, deleting |-> deleting]
Put(k, row) == [j \in Stored \cup {k} |-> IF j = k THEN row ELSE rows[j]]
Drop(k) == [j \in Stored \ {k} |-> rows[j]]
Off == [enabled |-> FALSE, endpoint |-> None]
On(e) == [enabled |-> TRUE, endpoint |-> e]

Idle == [kind |-> "none"]
Enabling(stale, e, created) == [kind |-> "enable", stale |-> stale, endpoint |-> e, created |-> created]
Refreshing == [kind |-> "refresh", stale |-> FALSE]
Registering(op, step, e) == [kind |-> op.kind, step |-> step, stale |-> op.stale, endpoint |-> e,
                             created |-> FALSE, todo |-> {}, old |-> {}, key |-> Key(current), done |-> 0]
Superseded(op) == IF op.kind \in {"enable", "refresh"} THEN [op EXCEPT !.stale = TRUE] ELSE op
Call == calls < MaxCalls /\ calls' = calls + 1
Fault == faults < MaxFaults /\ faults' = faults + 1

\* An earlier session may have registered every inbox.
Init ==
  /\ inst = [i \in Inboxes |-> 1] /\ loaded = Inboxes /\ current \in Inboxes
  /\ \/ rows = [k \in {} |-> None] /\ prefs = Off /\ sub = None /\ relay = [k \in RouteKeys |-> None]
     \/ /\ rows = [k \in Inboxes \X {1} |-> Row(1, FALSE, FALSE)] /\ prefs = On(1) /\ sub = 1
        /\ relay = [k \in RouteKeys |-> IF k[2] = 1 THEN 1 ELSE None]
  /\ activity = {} /\ invalid = {} /\ waiting = <<>> /\ queue = <<>> /\ run = Idle /\ again = None
  /\ calls = 0 /\ faults = 0
  /\ off = "no" /\ burned = [i \in Inboxes |-> "no"] /\ contested = FALSE /\ forgot = {} /\ cut = FALSE
-----------------------------------------------------------------------------
(* The relay and the browser *)

\* POST: an upsert; the newest endpoint replaces the former one.
Routed(k, e) == [relay EXCEPT ![k] = e]

\* DELETE: done, or failed, its answer being lost or the request refused.
Deleted(k, e) == IF relay[k] = e THEN [relay EXCEPT ![k] = None] ELSE relay
Unregister(k, e, onDone, onFailure) ==
  \/ relay' = Deleted(k, e) /\ onDone /\ UNCHANGED <<faults, cut>>
  \/ Fault /\ relay' \in {relay, Deleted(k, e)} /\ onFailure /\ cut' = (cut \/ relay' # relay)

\* unsubscribe(), which the callers let fail.
Unsubscribe(e) ==
  \/ sub' = (IF sub = e THEN None ELSE sub) /\ UNCHANGED faults
  \/ sub = e /\ Fault /\ UNCHANGED sub

\* A record's own endpoint, else the browser's or the preferred one.
EndpointOf(k) == IF k \in Stored /\ rows[k].endpoint # None THEN rows[k].endpoint ELSE run.endpoint

\* A row that names another endpoint than the browser's deletes no live route.
Misnamed(k, e) == IF e = sub THEN forgot ELSE forgot \cup {k}

Held == run.kind = "enable" \/ \E ops \in {waiting, queue} : \E n \in DOMAIN ops : ops[n].kind = "enable"

\* The browser forgets the subscription, which an enable may be holding.
LoseSubscription ==
  /\ sub # None /\ Fault /\ sub' = None
  /\ contested' = (contested \/ Held)
  /\ UNCHANGED <<store, page, relay, loaded, inst, calls, off, burned, forgot, cut>>

\* The service worker records a hint for the inbox the relay names.
Push(i) ==
  /\ sub # None /\ i \notin activity
  /\ \E k \in RouteKeys : k[1] = i /\ relay[k] = sub
  /\ activity' = activity \cup {i}
  /\ UNCHANGED <<rows, prefs, page, world, calls, faults, history>>

\* The synced inbox clears its own hint.
Seen ==
  /\ current \in activity /\ activity' = activity \ {current}
  /\ UNCHANGED <<rows, prefs, page, world, calls, faults, history>>

\* A reload or a switch of inbox, perhaps with a new installation, perhaps
\* right after the relay did what it was asked.
Leave(i, n) ==
  /\ i \in loaded /\ (Fault \/ (current \notin loaded /\ UNCHANGED faults))
  /\ current' = i /\ n \in {inst[i], inst[i] + 1} /\ inst' = [inst EXCEPT ![i] = n]
  /\ \/ relay' = relay /\ cut' = cut
     \/ run.kind \in {"enable", "refresh"} /\ run.step = "posting"
          /\ relay' = Routed(run.key, run.endpoint) /\ cut' = cut
     \/ run.kind \in {"disable", "remove"}
          /\ \E k \in run.todo : EndpointOf(k) # None /\ relay' = Deleted(k, EndpointOf(k))
          /\ cut' = TRUE
  /\ invalid' = {} /\ waiting' = <<>> /\ queue' = <<>> /\ run' = Idle /\ again' = None
  /\ UNCHANGED <<store, sub, loaded, calls, off, burned, contested, forgot>>
-----------------------------------------------------------------------------
(* The calls *)

\* enablePushForCurrentUser: the creation of a subscription is shared.
Enable ==
  /\ Call /\ waiting' = Append(waiting, Enabling(FALSE, None, FALSE))
  /\ off' = "no" /\ burned' = [burned EXCEPT ![current] = "no"]
  /\ UNCHANGED <<store, current, invalid, queue, run, again, world, faults, contested, forgot, cut>>

Asking == {n \in DOMAIN waiting : waiting[n].endpoint = None}
Resolved(e, created) ==
  [n \in DOMAIN waiting |-> IF n \in Asking THEN [waiting[n] EXCEPT !.endpoint = e, !.created = created]
                                            ELSE waiting[n]]

\* Calls that may yet unsubscribe an endpoint.
MayEnd(op, e) == op.kind = "disable" \/ (op.kind = "enable" /\ op.created /\ op.endpoint = e)
Ending(e) == MayEnd(run, e) \/ \E ops \in {waiting, queue} : \E n \in DOMAIN ops : MayEnd(ops[n], e)

\* The endpoints subscribeWithProviderRetry may come back with: one nobody knows yet.
\* (A subscription that appears between its attempts is reused like any other.)
Taken(e) == \E k \in RouteKeys : relay[k] = e \/ (k \in Stored /\ rows[k].endpoint = e)
Provided == {e \in Endpoints : ~Taken(e) /\ \A d \in 1..(e - 1) : Taken(d)}

\* An existing subscription is reused.
Subscribed ==
  /\ Asking # {} /\ UNCHANGED <<store, current, invalid, queue, run, again, relay, loaded, inst,
                                calls, faults, off, burned, forgot, cut>>
  /\ \/ sub # None /\ waiting' = Resolved(sub, FALSE) /\ contested' = (contested \/ Ending(sub)) /\ UNCHANGED sub
     \/ \E e \in Provided :
          /\ sub = None
          /\ sub' = e /\ waiting' = Resolved(e, TRUE)
          /\ contested' = (contested \/ Cardinality(Asking) > 1 \/ Ending(e))

\* Permission denied, or the push provider failed: then the preference goes off.
NotSubscribed ==
  /\ Asking # {} /\ sub = None /\ Fault
  /\ prefs' \in {prefs, Off}
  /\ waiting' = SelectSeq(waiting, LAMBDA op : op.endpoint # None)
  /\ UNCHANGED <<rows, activity, current, invalid, queue, run, again, world, calls, history>>

Without(s, n) == SubSeq(s, 1, n - 1) \o SubSeq(s, n + 1, Len(s))

\* The topics are there and the enable joins the queue.
Enqueue == \E n \in DOMAIN waiting \ Asking :
  /\ queue' = Append(queue, waiting[n]) /\ waiting' = Without(waiting, n)
  /\ UNCHANGED <<store, current, invalid, run, again, world, calls, faults, history>>

\* The topics cannot be collected: a subscription made for it goes away again.
CollectFails == \E n \in DOMAIN waiting \ Asking :
  /\ faults < MaxFaults /\ faults' = faults + 1
  /\ sub' = (IF waiting[n].created /\ sub = waiting[n].endpoint THEN None ELSE sub)
  /\ waiting' = Without(waiting, n)
  /\ UNCHANGED <<store, current, invalid, queue, run, again, relay, loaded, inst, calls, history>>

\* refreshPushRegistrationForInbox: one trailing snapshot is kept per key.
Refresh ==
  /\ Call
  /\ IF run.kind = "refresh" \/ \E n \in DOMAIN queue : queue[n].kind = "refresh"
     THEN again' = Refreshing /\ UNCHANGED queue
     ELSE queue' = Append(queue, Refreshing) /\ UNCHANGED again
  /\ UNCHANGED <<store, current, invalid, waiting, run, world, faults, history>>

\* supersedePushMutations: captured generations no longer match, and a
\* registration in flight is aborted.
Supersede(op) ==
  /\ waiting' = [n \in DOMAIN waiting |-> Superseded(waiting[n])]
  /\ queue' = Append([n \in DOMAIN queue |-> Superseded(queue[n])], op)
  /\ run' = Superseded(run)
  /\ again' = IF again = None THEN None ELSE Superseded(again)

\* Mutant: a disable waits for its turn and supersedes nothing.
DisableWaits ==
  /\ Call /\ queue' = Append(queue, [kind |-> "disable", inbox |-> None]) /\ off' = "asked"
  /\ UNCHANGED <<store, current, invalid, waiting, run, again, world, faults, burned, contested, forgot, cut>>

\* disablePush
Disable ==
  /\ Call /\ Supersede([kind |-> "disable", inbox |-> None]) /\ off' = "asked"
  /\ UNCHANGED <<store, current, invalid, world, faults, burned, contested, forgot, cut>>

\* removePushRegistrationForInbox, from a burn; an inbox is burned once.
Burning(op, i) == op.kind = "remove" /\ op.inbox = i

Remove(i) ==
  /\ i \in loaded /\ ~Burning(run, i) /\ ~\E n \in DOMAIN queue : Burning(queue[n], i)
  /\ Call /\ Supersede([kind |-> "remove", inbox |-> i])
  /\ invalid' = IF i = current THEN invalid \cup {Key(i)} ELSE invalid
  /\ burned' = [burned EXCEPT ![i] = "asked"]
  /\ UNCHANGED <<store, current, world, faults, off, contested, forgot, cut>>
-----------------------------------------------------------------------------
(* The mutations, one at a time *)

Next1(kind) == run = Idle /\ queue # <<>> /\ Head(queue).kind = kind /\ queue' = Tail(queue)

\* The refresh queue goes round again when a newer snapshot came in.
Finish ==
  /\ run' = Idle
  /\ IF run.kind = "refresh" /\ again # None
     THEN queue' = Append(queue, again) /\ again' = None
     ELSE UNCHANGED <<queue, again>>

\* cacheInboxPushRegistration keeps the endpoint and revives a tombstone.
Cached(k) == Put(k, IF k \in Stored THEN [rows[k] EXCEPT !.deleting = FALSE] ELSE Row(None, FALSE, FALSE))

Abandon(op) == IF op.created THEN Unsubscribe(op.endpoint) ELSE UNCHANGED <<sub, faults>>

\* performEnablePushForLoadedInboxes: the guard and the rows.
EnableBegin ==
  LET op == Head(queue)
  IN /\ Next1("enable")
     /\ IF op.stale
        THEN Abandon(op) /\ UNCHANGED <<rows, invalid, run>>
        ELSE /\ invalid' = invalid \ {Key(current)} /\ rows' = Cached(Key(current))
             /\ run' = [Registering(op, "cached", op.endpoint) EXCEPT !.created = op.created]
             /\ UNCHANGED <<sub, faults>>
     /\ UNCHANGED <<prefs, activity, current, waiting, again, relay, loaded, inst, calls, history>>

\* selectOneRegistrationPerInbox: the open inbox's own row, else the newest.
Newest(i) == LET live == {k \in RowsOf(i) : ~rows[k].deleting}
             IN {k \in live : k = Key(current) \/
                   (~(Key(current) \in live) /\ \A j \in live : j[2] <= k[2])}
Selection == UNION {Newest(i) : i \in loaded \cup {current}}

EnableSelect ==
  /\ run.kind = "enable" /\ run.step = "cached"
  /\ IF run.stale
     THEN Abandon(run) /\ Finish
     ELSE /\ run' = [run EXCEPT !.step = "next", !.todo = Selection]
          /\ UNCHANGED <<sub, faults, queue, again>>
  /\ UNCHANGED <<store, current, invalid, waiting, relay, loaded, inst, calls, history>>

\* A superseded enable fails every inbox it has not come to.
EnablePost ==
  /\ run.kind = "enable" /\ run.step = "next" /\ run.todo # {}
  /\ IF run.stale THEN run' = [run EXCEPT !.todo = {}]
     ELSE \E k \in run.todo :
            run' = [run EXCEPT !.step = "posting", !.key = k, !.todo = run.todo \ {k}]
  /\ UNCHANGED <<store, current, invalid, waiting, queue, again, world, calls, faults, history>>

\* registerWithVapidParty answers.
PostAnswered ==
  /\ run.kind \in {"enable", "refresh"} /\ run.step = "posting"
  /\ relay' = Routed(run.key, run.endpoint) /\ run' = [run EXCEPT !.step = "posted"]
  /\ UNCHANGED <<store, current, invalid, waiting, queue, again, sub, loaded, inst, calls, faults, history>>

\* It was aborted, timed out or refused; the relay may have accepted it.
PostLost ==
  /\ run.kind \in {"enable", "refresh"} /\ run.step = "posting"
  /\ IF run.stale THEN UNCHANGED faults ELSE Fault
  /\ relay' \in {relay, Routed(run.key, run.endpoint)}
  /\ IF run.kind = "refresh" THEN Finish
     ELSE run' = [run EXCEPT !.step = "next"] /\ UNCHANGED <<queue, again>>
  /\ UNCHANGED <<store, current, invalid, waiting, sub, loaded, inst, calls, history>>

Tidying == [run EXCEPT !.step = "tidy", !.old = RowsOf(run.key[1]) \ {run.key}, !.done = run.done + 1]

\* The row is stored; when that fails the route is kept and marked pending.
EnableSave ==
  /\ run.kind = "enable" /\ run.step = "posted" /\ ~run.stale
  /\ \/ rows' = Put(run.key, Row(run.endpoint, FALSE, FALSE)) /\ run' = Tidying /\ UNCHANGED faults
     \/ Fault /\ rows' = Put(run.key, Row(run.endpoint, TRUE, FALSE))
          /\ run' = [run EXCEPT !.step = "next", !.done = run.done + 1]
  /\ UNCHANGED <<prefs, activity, current, invalid, waiting, queue, again, world, calls, history>>

\* Superseded after the relay accepted: the route is taken back.
EnableRollback ==
  /\ run.kind = "enable" /\ run.step = "posted" /\ run.stale
  /\ run' = [run EXCEPT !.step = "next"]
  /\ Unregister(run.key, run.endpoint, rows' = Drop(run.key),
                rows' = Put(run.key, Row(run.endpoint, FALSE, TRUE)))
  /\ UNCHANGED <<prefs, activity, current, invalid, waiting, queue, again, sub, loaded, inst, calls, off, burned, contested, forgot>>

\* A refresh does not look whether it was superseded while it waited.
RefreshSave ==
  /\ run.kind = "refresh" /\ run.step = "posted"
  /\ \/ rows' = Put(run.key, Row(run.endpoint, FALSE, FALSE)) /\ run' = Tidying /\ UNCHANGED <<faults, queue, again>>
     \/ Fault /\ Finish /\ UNCHANGED rows
  /\ UNCHANGED <<prefs, activity, current, invalid, waiting, world, calls, history>>

\* removeSupersededInboxRegistrations
Tidy(k) ==
  /\ run.kind \in {"enable", "refresh"} /\ run.step = "tidy" /\ k \in run.old
  /\ run' = [run EXCEPT !.old = run.old \ {k}]
  /\ forgot' = Misnamed(k, rows[k].endpoint)
  /\ IF rows[k].endpoint = None
     THEN rows' = Drop(k) /\ UNCHANGED <<relay, faults, cut>>
     ELSE Unregister(k, rows[k].endpoint, rows' = Drop(k), rows' = Put(k, [rows[k] EXCEPT !.deleting = TRUE]))
  /\ UNCHANGED <<prefs, activity, current, invalid, waiting, queue, again, sub, loaded, inst, calls,
                 off, burned, contested>>

Tidied ==
  /\ run.kind \in {"enable", "refresh"} /\ run.step = "tidy" /\ run.old = {}
  /\ IF run.kind = "enable"
     THEN run' = [run EXCEPT !.step = "next"] /\ UNCHANGED <<prefs, queue, again>>
     ELSE prefs' = On(run.endpoint) /\ Finish
  /\ UNCHANGED <<rows, activity, current, invalid, waiting, world, calls, faults, history>>

\* With nothing registered, the preference is off and a new subscription goes.
EnableEnd ==
  /\ run.kind = "enable" /\ run.step = "next" /\ run.todo = {}
  /\ prefs' = (IF run.done > 0 THEN On(run.endpoint) ELSE Off)
  /\ IF run.done = 0 THEN Abandon(run) ELSE UNCHANGED <<sub, faults>>
  /\ Finish
  /\ UNCHANGED <<rows, activity, current, invalid, waiting, relay, loaded, inst, calls, history>>

\* performPushRegistrationRefresh never creates a subscription.
RefreshBegin ==
  LET op == Head(queue)  blocked == op.stale \/ Key(current) \in invalid \/ ~prefs.enabled
  IN /\ Next1("refresh")
     /\ rows' = IF blocked THEN rows ELSE Cached(Key(current))
     /\ run' = Registering(op, IF blocked \/ sub = None THEN "skip" ELSE "posting", sub)
     /\ UNCHANGED <<prefs, activity, current, invalid, waiting, again, world, calls, faults, history>>

RefreshSkip ==
  /\ run.kind = "refresh" /\ run.step = "skip" /\ Finish
  /\ UNCHANGED <<store, current, invalid, waiting, world, calls, faults, history>>

Known == IF sub # None THEN sub ELSE prefs.endpoint
Clearing(op, keys) == [kind |-> op.kind, inbox |-> op.inbox, todo |-> keys, endpoint |-> Known, ok |-> TRUE]

\* performDisablePush: every row, and the open inbox even without one.
DisableBegin ==
  /\ Next1("disable") /\ run' = Clearing(Head(queue), Stored \cup {Key(current)})
  /\ UNCHANGED <<store, current, invalid, waiting, again, world, calls, faults, history>>

\* A route that cannot be deleted keeps its row, as a tombstone.
DisableOne(k) ==
  /\ run.kind = "disable" /\ k \in run.todo
  /\ forgot' = Misnamed(k, EndpointOf(k))
  /\ IF EndpointOf(k) = None
     THEN rows' = Drop(k) /\ run' = [run EXCEPT !.todo = @ \ {k}] /\ UNCHANGED <<relay, faults, cut>>
     ELSE Unregister(k, EndpointOf(k),
                     rows' = Drop(k) /\ run' = [run EXCEPT !.todo = @ \ {k}],
                     rows' = Put(k, Row(EndpointOf(k), k \in Stored /\ rows[k].pending, TRUE))
                       /\ run' = [run EXCEPT !.todo = @ \ {k}, !.ok = FALSE])
  /\ UNCHANGED <<prefs, activity, current, invalid, waiting, queue, again, sub, loaded, inst, calls, off, burned, contested>>

DisableEnd ==
  /\ run.kind = "disable" /\ run.todo = {}
  /\ IF sub = None THEN UNCHANGED <<sub, faults>> ELSE Unsubscribe(sub)
  /\ prefs' = Off /\ activity' = {} /\ run' = Idle
  /\ off' = IF off = "asked" /\ run.ok /\ sub' = None THEN "done" ELSE off
  /\ UNCHANGED <<rows, current, invalid, waiting, queue, again, relay, loaded, inst, calls, burned, contested, forgot, cut>>

\* performRemovePushRegistrationForInbox; the burn then drops the inbox.
RemoveBegin ==
  LET op == Head(queue)
  IN /\ Next1("remove") /\ run' = Clearing(op, RowsOf(op.inbox))
     /\ invalid' = invalid \cup RowsOf(op.inbox)
     /\ UNCHANGED <<store, current, waiting, again, world, calls, faults, history>>

\* The row goes even when the route could not be deleted.
RemoveOne(k) ==
  /\ run.kind = "remove" /\ k \in run.todo /\ rows' = Drop(k)
  /\ IF EndpointOf(k) = None
     THEN run' = [run EXCEPT !.todo = @ \ {k}] /\ UNCHANGED <<relay, faults, forgot, cut>>
     ELSE Unregister(k, EndpointOf(k),
                     run' = [run EXCEPT !.todo = @ \ {k}]
                       /\ forgot' = Misnamed(k, EndpointOf(k)),
                     run' = [run EXCEPT !.todo = @ \ {k}, !.ok = FALSE] /\ forgot' = forgot \cup {k})
  /\ UNCHANGED <<prefs, activity, current, invalid, waiting, queue, again, sub, loaded, inst, calls,
                 off, burned, contested>>

RemoveEnd ==
  /\ run.kind = "remove" /\ run.todo = {} /\ run' = Idle
  /\ activity' = activity \ {run.inbox} /\ loaded' = loaded \ {run.inbox}
  /\ burned' = IF burned[run.inbox] = "asked" /\ run.ok THEN [burned EXCEPT ![run.inbox] = "done"] ELSE burned
  /\ UNCHANGED <<rows, prefs, current, invalid, waiting, queue, again, sub, relay, inst, calls, faults,
                 off, contested, forgot, cut>>

PushNext ==
  \/ LoseSubscription \/ Seen \/ Enable \/ Subscribed \/ NotSubscribed \/ Enqueue \/ CollectFails
  \/ Refresh \/ Disable \/ EnableBegin \/ EnableSelect \/ EnablePost \/ PostAnswered \/ PostLost
  \/ EnableSave \/ EnableRollback \/ RefreshSave \/ Tidied \/ EnableEnd \/ RefreshBegin \/ RefreshSkip
  \/ DisableBegin \/ DisableEnd \/ RemoveBegin \/ RemoveEnd
  \/ \E i \in Inboxes : Push(i) \/ Remove(i) \/ \E n \in 1..MaxInstallations : Leave(i, n)
  \/ \E k \in RouteKeys : Tidy(k) \/ DisableOne(k) \/ RemoveOne(k)

PushSpec == Init /\ [][PushNext]_vars
-----------------------------------------------------------------------------
\* getAppPushStatus
Registered(k) == k \in Stored /\ ~rows[k].deleting /\ sub # None /\ rows[k].endpoint = sub
ShownEnabled ==
  /\ prefs.enabled /\ sub # None /\ loaded # {}
  /\ \A i \in loaded : \E k \in RowsOf(i) : Registered(k)
  /\ \A k \in Stored : ~rows[k].deleting /\ (Registered(k) /\ k[1] \in loaded => ~rows[k].pending)
-----------------------------------------------------------------------------
(* Properties *)

(* Rows, routes and preferences stay within their ranges, and whatever runs
   or waits works on an endpoint the browser has had. *)
PushTypeOK ==
  /\ Stored \subseteq RouteKeys
  /\ \A k \in Stored : rows[k] \in [endpoint : Endpoints \cup {None}, pending : BOOLEAN, deleting : BOOLEAN]
  /\ prefs \in {Off} \cup {On(e) : e \in Endpoints}
  /\ sub \in Endpoints \cup {None} /\ relay \in [RouteKeys -> Endpoints \cup {None}]
  /\ loaded \subseteq Inboxes /\ activity \subseteq Inboxes /\ off \in {"no", "asked", "done"}
  /\ burned \in [Inboxes -> {"no", "asked", "done"}]
  /\ inst \in [Inboxes -> 1..MaxInstallations] /\ current \in Inboxes /\ invalid \subseteq RouteKeys
  /\ run.kind \in {"none", "enable", "refresh", "disable", "remove"}

NotificationsStayOff ==
  off = "done" => ~prefs.enabled /\ \A k \in RouteKeys : sub = None \/ relay[k] # sub

BurnedInboxIsSilent ==
  \A k \in RouteKeys \ forgot : burned[k[1]] = "done" => (sub = None \/ relay[k] # sub)

EnabledStatusIsTrue ==
  run = Idle /\ ShownEnabled /\ ~cut /\ ~contested =>
    \A i \in loaded : \E k \in RouteKeys : k[1] = i /\ relay[k] = sub

(* What the page reports of notifications is so at the relay.  A disable that
   reported success is final until the user enables again: whatever was under
   way or waiting when it was called, and whatever refresh comes later, the
   preference stays off and no route leads to a subscription of this browser
   (disablePush, supersedePushMutations).  A burn that reported success leaves
   no route that still reaches this browser, for any installation of the
   inbox, although refreshes of the inbox may have been at the relay or have
   been asked for while it ran (removePushRegistrationForInbox); routes given
   up before are left aside.  And Settings show "enabled" only when a route to
   this browser exists for every loaded inbox (getAppPushStatus), except after
   a deletion the relay carried out while its row stayed, and after two calls
   over one subscription. *)
PushReportsAreTrue == NotificationsStayOff /\ BurnedInboxIsSilent /\ EnabledStatusIsTrue

(* What FEATURES.md says of disable, burn and supersession: a route that
   could not be deleted leaves a tombstone behind.  So no route reaches this
   browser without a row that remembers it. *)
RoutesAreRemembered ==
  \A k \in RouteKeys : sub # None /\ relay[k] = sub => k \in Stored
=============================================================================
