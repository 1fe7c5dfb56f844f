---------------------------- MODULE InboxDatabase ----------------------------
(***************************************************************************)
(* Who has an inbox's OPFS database open (src/src/lib/xmtp/client.ts).     *)
(*                                                                         *)
(* Every browser tab runs one XmtpClient.  Its operations that open or     *)
(* close a database worker go through one promise chain (enqueueLifecycle),*)
(* so a tab executes one of them at a time: op[t].phase is the await at which it *)
(* is suspended, "idle" between operations.  Tabs interleave freely, and a *)
(* worker whose close() outlived its five second deadline may still settle *)
(* at any later moment.                                                    *)
(***************************************************************************)
EXTENDS Naturals, FiniteSets

CONSTANTS
  Tabs, Inboxes, Workers,
  NoInbox, NoWorker, Closed,
  Operations,     \* the lifecycle operations the environment may request
  PlanSizes       \* how many databases a reconnect may probe: 1, or 4 when both paths exist

ASSUME SentinelAssumption ==
  /\ NoInbox \notin Inboxes
  /\ NoWorker \notin Workers
  /\ Closed \notin [tab : Tabs, inbox : Inboxes, guarded : BOOLEAN]
ASSUME PlanAssumption == PlanSizes \subseteq Nat \ {0}

VARIABLES
  op,            \* the lifecycle operation the tab is executing, at the await in op[t].phase
  client,        \* XmtpClient.client
  candidate,     \* the local variable of the running operation that holds a fresh worker
  retained,      \* retainedInstallationRepairClient
  closePending,  \* databaseClosePending, named by the worker whose close() is awaited
  abandoned,     \* workers whose close() passed its deadline and has not settled
  lock,          \* the inbox whose Web Lock the tab holds (databaseLockRelease)
  db             \* what each SDK worker has open

vars == <<op, client, candidate, retained, closePending, abandoned, lock, db>>

ConnectPhases == {"starting", "opening", "verifying", "swapping", "failing"}
RepairPhases  == {"repairing", "repairOpening", "session", "journaled",
                  "durabilityClose", "reopening", "reopened", "repairClosing"}
BorrowPhases  == {"borrowing", "borrowed"}
Returns       == {"idle", "starting", "repairing", "borrowing"}
Phases        == {"idle", "closeRetained", "closeClient"}
                   \cup ConnectPhases \cup RepairPhases \cup BorrowPhases

Operation == [phase : Phases,
              inbox : Inboxes \cup {NoInbox},  \* the inbox it works on
              then : Returns,       \* where disconnectInternal returns to
              covered : BOOLEAN,    \* the Web Lock was granted to this connect
              attempts : Nat]       \* database attempts this connect has left

Idle == [phase |-> "idle", inbox |-> NoInbox, then |-> "idle",
         covered |-> FALSE, attempts |-> 0]

OpenDatabase == [tab : Tabs, inbox : Inboxes, guarded : BOOLEAN]

Init ==
  /\ op = [t \in Tabs |-> Idle]
  /\ client = [t \in Tabs |-> NoWorker]
  /\ candidate = [t \in Tabs |-> NoWorker]
  /\ retained = [t \in Tabs |-> NoWorker]
  /\ closePending = [t \in Tabs |-> NoWorker]
  /\ abandoned = [t \in Tabs |-> {}]
  /\ lock = [t \in Tabs |-> NoInbox]
  /\ db = [w \in Workers |-> Closed]
-----------------------------------------------------------------------------
(* Building blocks *)

\* t's operation is suspended at a phase; "idle" ends it.
Suspend(t, phase, i, then, covered, attempts) ==
  op' = [op EXCEPT ![t] =
           IF phase = "idle" THEN Idle
           ELSE [phase |-> phase, inbox |-> i, then |-> then,
                 covered |-> covered, attempts |-> attempts]]

Goto(t, phase) ==
  Suspend(t, phase, op[t].inbox, op[t].then, op[t].covered, op[t].attempts)

\* enqueueLifecycle runs the next operation when the previous one has ended.
Begin(t, i, then, phase) ==
  /\ op[t] = Idle
  /\ Suspend(t, phase, i, then, FALSE, 0)

\* releaseInboxDatabaseLock
ReleaseLock(t) == lock' = [lock EXCEPT ![t] = NoInbox]

\* Client.create / Client.build: a fresh worker opens i for tab t.
OpenWorker(t, i, w, isGuarded) ==
  /\ db[w] = Closed
  /\ db' = [db EXCEPT ![w] = [tab |-> t, inbox |-> i, guarded |-> isGuarded]]
  /\ candidate' = [candidate EXCEPT ![t] = w]

\* client.close() that settles before its deadline.
CloseWorker(w) == db' = [db EXCEPT ![w] = Closed]

\* withTimeout(close, 5s) fires: retainDatabaseLockUntilCloseSettles.  A close
\* that was pending before is forgotten: databaseClosePending is overwritten.
AbandonWorker(t, w) ==
  /\ abandoned' = [abandoned EXCEPT ![t] = @ \cup {w}]
  /\ closePending' = [closePending EXCEPT ![t] = w]

\* The first step of disconnectInternal that has something to wait for.
FirstClose(t, return) ==
  IF retained[t] # NoWorker THEN "closeRetained"
  ELSE IF client[t] # NoWorker THEN "closeClient"
  ELSE return
-----------------------------------------------------------------------------
(* disconnectInternal *)

CloseRetainedSettles(t) ==
  /\ op[t].phase = "closeRetained"
  /\ CloseWorker(retained[t])
  /\ retained' = [retained EXCEPT ![t] = NoWorker]
  /\ Goto(t, IF client[t] # NoWorker THEN "closeClient" ELSE op[t].then)
  /\ UNCHANGED <<client, candidate, closePending, abandoned, lock>>

CloseRetainedTimesOut(t) ==
  /\ op[t].phase = "closeRetained"
  /\ AbandonWorker(t, retained[t])
  /\ retained' = [retained EXCEPT ![t] = NoWorker]
  /\ Goto(t, IF client[t] # NoWorker THEN "closeClient" ELSE op[t].then)
  /\ UNCHANGED <<client, candidate, lock, db>>

CloseClientSettles(t) ==
  /\ op[t].phase = "closeClient"
  /\ CloseWorker(client[t])
  /\ ReleaseLock(t)
  /\ client' = [client EXCEPT ![t] = NoWorker]
  /\ Goto(t, op[t].then)
  /\ UNCHANGED <<candidate, retained, closePending, abandoned>>

\* Mutant: disconnect waits for close() without a deadline.
CloseClientWithoutDeadline(t) == op[t].phase = "closeClient" /\ UNCHANGED vars

CloseClientTimesOut(t) ==
  /\ op[t].phase = "closeClient"
  /\ AbandonWorker(t, client[t])
  /\ client' = [client EXCEPT ![t] = NoWorker]
  /\ Goto(t, op[t].then)
  /\ UNCHANGED <<candidate, retained, lock, db>>

\* disconnect(); revokeCurrentInstallation() closes the same way before its
\* static revocation, which touches no database.
BeginDisconnect(t) ==
  /\ "disconnect" \in Operations
  /\ retained[t] # NoWorker \/ client[t] # NoWorker
  /\ Begin(t, NoInbox, "idle", FirstClose(t, "idle"))
  /\ UNCHANGED <<client, candidate, retained, closePending, abandoned, lock, db>>
-----------------------------------------------------------------------------
(* connectInternal *)

\* A ready client of the same signer is reused without touching the database
\* (a stutter here); any other client is disconnected first.  A retained
\* repair client makes connect throw before it changes anything.
BeginConnect(t, i) ==
  /\ "connect" \in Operations
  /\ retained[t] = NoWorker
  /\ Begin(t, i, "starting", FirstClose(t, "starting"))
  /\ UNCHANGED <<client, candidate, retained, closePending, abandoned, lock, db>>

\* The catch block with no client to close.  It is reached from an identity
\* cooldown, a signer failure, a pending close ("did not finish closing"), a
\* lock that another tab holds, or a failed Client.create, and releases the
\* tab's Web Lock whatever the lock was being kept for.
ConnectFailsWithoutClient(t) ==
  /\ op[t].phase \in {"starting", "opening"}
  /\ ReleaseLock(t)
  /\ Goto(t, "idle")
  /\ UNCHANGED <<client, candidate, retained, closePending, abandoned, db>>

\* acquireInboxDatabaseLock grants the lock (ifAvailable), giving up the
\* tab's previous one first.
AcquireLock(t) ==
  /\ op[t].phase = "starting"
  /\ closePending[t] = NoWorker
  /\ \A u \in Tabs \ {t} : lock[u] # op[t].inbox
  /\ lock' = [lock EXCEPT ![t] = op[t].inbox]
  /\ \E n \in PlanSizes :
       Suspend(t, "opening", op[t].inbox, op[t].then, TRUE, n)
  /\ UNCHANGED <<client, candidate, retained, closePending, abandoned, db>>

\* A legacy-address identity whose inbox ID was never saved: no lock is asked
\* for, the pending close is not looked at, and only the saved path is opened.
SkipLock(t) ==
  /\ "legacyConnect" \in Operations
  /\ op[t].phase = "starting"
  /\ Suspend(t, "opening", op[t].inbox, op[t].then, FALSE, 1)
  /\ UNCHANGED <<client, candidate, retained, closePending, abandoned, lock, db>>

OpenDatabaseAttempt(t, w) ==
  /\ op[t].phase = "opening"
  /\ OpenWorker(t, op[t].inbox, w, op[t].covered)
  /\ Goto(t, "verifying")
  /\ UNCHANGED <<client, retained, closePending, abandoned, lock>>

\* ensureClientRegistration accepted the database: activateVerifiedClient.
ActivateClient(t) ==
  /\ op[t].phase \in {"verifying", "reopened"}
  /\ client' = [client EXCEPT ![t] = candidate[t]]
  /\ candidate' = [candidate EXCEPT ![t] = NoWorker]
  /\ Goto(t, "idle")
  /\ UNCHANGED <<retained, closePending, abandoned, lock, db>>

\* Mutant: the next database is opened without closing this one.
TryOtherDatabaseUnclosed(t) ==
  /\ op[t].phase = "verifying" /\ op[t].attempts > 1
  /\ Suspend(t, "opening", op[t].inbox, op[t].then, op[t].covered, op[t].attempts - 1)
  /\ UNCHANGED <<client, candidate, retained, closePending, abandoned, lock, db>>

\* Installation recovery required and another planned database is left.
TryOtherDatabase(t) ==
  /\ op[t].phase = "verifying"
  /\ op[t].attempts > 1
  /\ Suspend(t, "swapping", op[t].inbox, op[t].then, op[t].covered, op[t].attempts - 1)
  /\ UNCHANGED <<client, candidate, retained, closePending, abandoned, lock, db>>

\* "await client.close()" between two attempts has no deadline.
SwapCloseSettles(t) ==
  /\ op[t].phase = "swapping"
  /\ CloseWorker(candidate[t])
  /\ candidate' = [candidate EXCEPT ![t] = NoWorker]
  /\ Goto(t, "opening")
  /\ UNCHANGED <<client, retained, closePending, abandoned, lock>>

VerificationFails(t) ==
  /\ op[t].phase = "verifying"
  /\ Goto(t, "failing")
  /\ UNCHANGED <<client, candidate, retained, closePending, abandoned, lock, db>>

FailedClientCloseSettles(t) ==
  /\ op[t].phase = "failing"
  /\ CloseWorker(candidate[t])
  /\ candidate' = [candidate EXCEPT ![t] = NoWorker]
  /\ ReleaseLock(t)
  /\ Goto(t, "idle")
  /\ UNCHANGED <<client, retained, closePending, abandoned>>

\* Mutant: the pending close is recorded for this.client, not the local client.
FailedClientForgotten(t) ==
  /\ op[t].phase = "failing"
  /\ AbandonWorker(t, client[t])
  /\ candidate' = [candidate EXCEPT ![t] = NoWorker]
  /\ Goto(t, "idle")
  /\ UNCHANGED <<client, retained, lock, db>>

FailedClientCloseTimesOut(t) ==
  /\ op[t].phase = "failing"
  /\ AbandonWorker(t, candidate[t])
  /\ candidate' = [candidate EXCEPT ![t] = NoWorker]
  /\ Goto(t, "idle")
  /\ UNCHANGED <<client, retained, lock, db>>
-----------------------------------------------------------------------------
(* repairInstallation *)

InRepair(t) ==
  \/ op[t].phase \in RepairPhases
  \/ op[t].phase \in {"closeRetained", "closeClient"} /\ op[t].then = "repairing"

\* Mutant: a repair starts beside the connected client.
BeginRepairConnected(t, i) ==
  /\ "repair" \in Operations
  /\ \A u \in Tabs \ {t} : ~(InRepair(u) /\ op[u].inbox = i)
  /\ Begin(t, i, "repairing", "repairing")
  /\ UNCHANGED <<client, candidate, retained, closePending, abandoned, lock, db>>

\* withInstallationRepairLock admits one tab per inbox; the database lock is
\* not asked for.  A client is disconnected first; without one the retained
\* candidate survives until it is taken.
BeginRepair(t, i) ==
  /\ "repair" \in Operations
  /\ \A u \in Tabs \ {t} : ~(InRepair(u) /\ op[u].inbox = i)
  /\ Begin(t, i, "repairing",
           IF client[t] # NoWorker THEN FirstClose(t, "repairing") ELSE "repairing")
  /\ UNCHANGED <<client, candidate, retained, closePending, abandoned, lock, db>>

NothingRetained(t) ==
  /\ op[t].phase = "repairing"
  /\ retained[t] = NoWorker
  /\ Goto(t, "repairOpening")
  /\ UNCHANGED <<client, candidate, retained, closePending, abandoned, lock, db>>

\* takeRetainedInstallationRepairClient: the journaled candidate is reused.
TakeRetained(t) ==
  /\ op[t].phase = "repairing"
  /\ retained[t] # NoWorker
  /\ db[retained[t]].inbox = op[t].inbox
  /\ candidate' = [candidate EXCEPT ![t] = retained[t]]
  /\ retained' = [retained EXCEPT ![t] = NoWorker]
  /\ Goto(t, "journaled")
  /\ UNCHANGED <<client, closePending, abandoned, lock, db>>

\* ... or it does not match the journal and is closed, within a deadline; the
\* repair goes on either way.
SupersededCloseSettles(t) ==
  /\ op[t].phase = "repairing"
  /\ retained[t] # NoWorker
  /\ CloseWorker(retained[t])
  /\ retained' = [retained EXCEPT ![t] = NoWorker]
  /\ Goto(t, "repairOpening")
  /\ UNCHANGED <<client, candidate, closePending, abandoned, lock>>

SupersededCloseTimesOut(t) ==
  /\ op[t].phase = "repairing"
  /\ retained[t] # NoWorker
  /\ AbandonWorker(t, retained[t])
  /\ retained' = [retained EXCEPT ![t] = NoWorker]
  /\ Goto(t, "repairOpening")
  /\ UNCHANGED <<client, candidate, lock, db>>

\* Client.create of the candidate, and of the fresh worker that must prove
\* the registered candidate durable.
OpenRepairCandidate(t, w) ==
  /\ op[t].phase \in {"repairOpening", "reopening"}
  /\ OpenWorker(t, op[t].inbox, w, FALSE)
  /\ Goto(t, IF op[t].phase = "repairOpening" THEN "session" ELSE "reopened")
  /\ UNCHANGED <<client, retained, closePending, abandoned, lock>>

RepairOpenFails(t) ==
  /\ op[t].phase \in {"repairOpening", "reopening"}
  /\ Goto(t, "idle")
  /\ UNCHANGED <<client, candidate, retained, closePending, abandoned, lock, db>>

\* runInstallationRepairSession journals the candidate (onCandidateReady).
JournalCandidate(t) ==
  /\ op[t].phase = "session"
  /\ Goto(t, "journaled")
  /\ UNCHANGED <<client, candidate, retained, closePending, abandoned, lock, db>>

\* The candidate registered; verifyCandidateDurability closes it to reopen it.
ProveDurable(t) ==
  /\ op[t].phase = "journaled"
  /\ Goto(t, "durabilityClose")
  /\ UNCHANGED <<client, candidate, retained, closePending, abandoned, lock, db>>

\* "await repairCandidate.close()" has no deadline.
DurabilityCloseSettles(t) ==
  /\ op[t].phase = "durabilityClose"
  /\ CloseWorker(candidate[t])
  /\ candidate' = [candidate EXCEPT ![t] = NoWorker]
  /\ Goto(t, "reopening")
  /\ UNCHANGED <<client, retained, closePending, abandoned, lock>>

\* The repair fails after the candidate was journaled: it is kept alive for a
\* retry in this tab.
RetainCandidate(t) ==
  /\ op[t].phase \in {"journaled", "reopened"}
  /\ retained' = [retained EXCEPT ![t] = candidate[t]]
  /\ candidate' = [candidate EXCEPT ![t] = NoWorker]
  /\ Goto(t, "idle")
  /\ UNCHANGED <<client, closePending, abandoned, lock, db>>

\* It fails before, or the reopened database holds another installation: the
\* candidate is closed, without a deadline.
RepairFails(t) ==
  /\ op[t].phase \in {"session", "reopened"}
  /\ Goto(t, "repairClosing")
  /\ UNCHANGED <<client, candidate, retained, closePending, abandoned, lock, db>>

RepairCloseSettles(t) ==
  /\ op[t].phase = "repairClosing"
  /\ CloseWorker(candidate[t])
  /\ candidate' = [candidate EXCEPT ![t] = NoWorker]
  /\ Goto(t, "idle")
  /\ UNCHANGED <<client, retained, closePending, abandoned, lock>>
-----------------------------------------------------------------------------
(* provisionExternalWalletDevice and migrateDeviceJoinIdentity: a worker is  *)
(* opened, used and closed, once or several times.  A retained repair client *)
(* is closed only when there is a client to disconnect.                      *)

BeginBorrow(t, i) ==
  /\ "borrow" \in Operations
  /\ Begin(t, i, "borrowing",
           IF client[t] # NoWorker THEN FirstClose(t, "borrowing") ELSE "borrowing")
  /\ UNCHANGED <<client, candidate, retained, closePending, abandoned, lock, db>>

BorrowWorker(t, w) ==
  /\ op[t].phase = "borrowing"
  /\ OpenWorker(t, op[t].inbox, w, FALSE)
  /\ Goto(t, "borrowed")
  /\ UNCHANGED <<client, retained, closePending, abandoned, lock>>

\* "finally { await manager.close() }", without a deadline; a second round
\* follows a stale installation reset or the next migration mutation.
ReturnWorker(t) ==
  /\ op[t].phase = "borrowed"
  /\ CloseWorker(candidate[t])
  /\ candidate' = [candidate EXCEPT ![t] = NoWorker]
  /\ \E next \in {"borrowing", "idle"} : Goto(t, next)
  /\ UNCHANGED <<client, retained, closePending, abandoned, lock>>

BorrowFails(t) ==
  /\ op[t].phase = "borrowing"
  /\ Goto(t, "idle")
  /\ UNCHANGED <<client, candidate, retained, closePending, abandoned, lock, db>>
-----------------------------------------------------------------------------
(* What happens outside the lifecycle queue *)

\* Mutant: any late close releases the lock, also one that was superseded.
LateCloseReleasesLock(t, w) ==
  /\ w \in abandoned[t]
  /\ abandoned' = [abandoned EXCEPT ![t] = @ \ {w}]
  /\ CloseWorker(w)
  /\ closePending' = [closePending EXCEPT ![t] = IF @ = w THEN NoWorker ELSE @]
  /\ ReleaseLock(t)
  /\ UNCHANGED <<op, client, candidate, retained>>

\* A close that missed its deadline settles after all.  Only the close the
\* tab still remembers clears databaseClosePending and releases the lock.
LateClose(t, w) ==
  /\ w \in abandoned[t]
  /\ abandoned' = [abandoned EXCEPT ![t] = @ \ {w}]
  /\ CloseWorker(w)
  /\ IF closePending[t] = w
       THEN closePending' = [closePending EXCEPT ![t] = NoWorker] /\ ReleaseLock(t)
       ELSE UNCHANGED <<closePending, lock>>
  /\ UNCHANGED <<op, client, candidate, retained>>

\* Reload or tab teardown: the browser ends the tab's workers and locks.
Reload(t) ==
  /\ \E w \in Workers : db[w] # Closed /\ db[w].tab = t
  /\ op' = [op EXCEPT ![t] = Idle]
  /\ client' = [client EXCEPT ![t] = NoWorker]
  /\ candidate' = [candidate EXCEPT ![t] = NoWorker]
  /\ retained' = [retained EXCEPT ![t] = NoWorker]
  /\ closePending' = [closePending EXCEPT ![t] = NoWorker]
  /\ abandoned' = [abandoned EXCEPT ![t] = {}]
  /\ ReleaseLock(t)
  /\ db' = [w \in Workers |-> IF db[w] # Closed /\ db[w].tab = t THEN Closed ELSE db[w]]
-----------------------------------------------------------------------------
DisconnectStep(t) ==
  \/ CloseRetainedSettles(t) \/ CloseRetainedTimesOut(t)
  \/ CloseClientSettles(t) \/ CloseClientTimesOut(t)

ConnectStep(t) ==
  \/ ConnectFailsWithoutClient(t) \/ AcquireLock(t) \/ SkipLock(t)
  \/ \E w \in Workers : OpenDatabaseAttempt(t, w)
  \/ ActivateClient(t) \/ TryOtherDatabase(t) \/ SwapCloseSettles(t)
  \/ VerificationFails(t) \/ FailedClientCloseSettles(t) \/ FailedClientCloseTimesOut(t)

RepairStep(t) ==
  \/ NothingRetained(t) \/ TakeRetained(t)
  \/ SupersededCloseSettles(t) \/ SupersededCloseTimesOut(t)
  \/ \E w \in Workers : OpenRepairCandidate(t, w)
  \/ RepairOpenFails(t) \/ JournalCandidate(t) \/ ProveDurable(t)
  \/ DurabilityCloseSettles(t) \/ RetainCandidate(t)
  \/ RepairFails(t) \/ RepairCloseSettles(t)

BorrowStep(t) ==
  \/ \E w \in Workers : BorrowWorker(t, w)
  \/ ReturnWorker(t) \/ BorrowFails(t)

Request(t) ==
  \/ BeginDisconnect(t)
  \/ \E i \in Inboxes : BeginConnect(t, i) \/ BeginRepair(t, i) \/ BeginBorrow(t, i)

Next == \E t \in Tabs :
  \/ Request(t)
  \/ DisconnectStep(t) \/ ConnectStep(t) \/ RepairStep(t) \/ BorrowStep(t)
  \/ \E w \in Workers : LateClose(t, w)
  \/ Reload(t)

Spec == Init /\ [][Next]_vars

(***************************************************************************)
(* Fairness: timers fire and SDK calls other than close() come back, so    *)
(* a running operation takes its steps.  close() may never settle          *)
(* (client-stream-lifecycle.test.ts, "client close never settles"), hence  *)
(* no fairness on the close steps without a deadline, on LateClose, on     *)
(* Reload or on requests.                                                  *)
(***************************************************************************)
BoundedStep(t) ==
  \/ CloseRetainedTimesOut(t) \/ CloseClientTimesOut(t)
  \/ ConnectFailsWithoutClient(t) \/ AcquireLock(t) \/ SkipLock(t)
  \/ \E w \in Workers : OpenDatabaseAttempt(t, w)
  \/ ActivateClient(t) \/ VerificationFails(t) \/ FailedClientCloseTimesOut(t)
  \/ NothingRetained(t) \/ TakeRetained(t) \/ SupersededCloseTimesOut(t)
  \/ \E w \in Workers : OpenRepairCandidate(t, w)
  \/ RepairOpenFails(t) \/ JournalCandidate(t) \/ ProveDurable(t)
  \/ RetainCandidate(t) \/ RepairFails(t)
  \/ \E w \in Workers : BorrowWorker(t, w)
  \/ BorrowFails(t)

FairSpec == Spec /\ \A t \in Tabs : WF_vars(BoundedStep(t))
-----------------------------------------------------------------------------
(* Properties *)

TypeOK ==
  /\ op \in [Tabs -> Operation]
  /\ client \in [Tabs -> Workers \cup {NoWorker}]
  /\ candidate \in [Tabs -> Workers \cup {NoWorker}]
  /\ retained \in [Tabs -> Workers \cup {NoWorker}]
  /\ closePending \in [Tabs -> Workers \cup {NoWorker}]
  /\ abandoned \in [Tabs -> SUBSET Workers]
  /\ lock \in [Tabs -> Inboxes \cup {NoInbox}]
  /\ db \in [Workers -> OpenDatabase \cup {Closed}]

\* t is using a worker it opened on i under the Web Lock.
UsesUnderLock(t, i) ==
  \E w \in {client[t], candidate[t]} \ {NoWorker} :
    db[w] # Closed /\ db[w].guarded /\ db[w].inbox = i

\* Two tabs never both use a database of one inbox that each opened under the
\* Web Lock, whatever closes timed out, settled late or were forgotten on the
\* way (acquireInboxDatabaseLock, retainDatabaseLockUntilCloseSettles).
LockedUseIsExclusive ==
  \A t, u \in Tabs, i \in Inboxes :
    UsesUnderLock(t, i) /\ UsesUnderLock(u, i) => t = u

\* Every running worker is the tab's client, the candidate of its running
\* operation, its retained repair client, or one whose close is outstanding:
\* no failure path of connect, repair or provisioning drops an open worker.
NoWorkerLeaks ==
  \A w \in Workers : db[w] # Closed =>
    LET t == db[w].tab IN
    w \in {client[t], candidate[t], retained[t]} \cup abandoned[t]

\* A tab keeps at most one worker in use: connecting and repairing close or
\* take over the previous client and the retained candidate before opening.
\* (Provisioning and migration do open beside a retained repair client.)
OneWorkerInUse ==
  \A t \in Tabs : op[t].phase \notin BorrowPhases =>
    Cardinality({<<"client", client[t]>>, <<"candidate", candidate[t]>>,
                 <<"retained", retained[t]>>}
      \ ({"client", "candidate", "retained"} \X {NoWorker})) <= 1

\* A lifecycle operation ends, so the ones queued behind it get their turn
\* (enqueueLifecycle), although SDK closes may never settle: only the closes
\* that the code awaits without a deadline can keep it.
UnboundedCloses == {"swapping", "durabilityClose", "repairClosing", "borrowed"}
OperationsEnd ==
  \A t \in Tabs :
    op[t] # Idle ~> op[t] = Idle \/ op[t].phase \in UnboundedCloses

Opens(t, i) ==
  \E w \in Workers :
    db[w] = Closed /\ db'[w] # Closed /\ db'[w].tab = t /\ db'[w].inbox = i

\* ARCHITECTURE.md: while a close that timed out is pending, "only a successful
\* late close or tab teardown releases" the retained Web Lock, and the pending
\* close "blocks another same-tab client open".
PendingCloseIsGuarded ==
  [][\A t \in Tabs : closePending[t] # NoWorker =>
       /\ lock[t] # NoInbox /\ lock'[t] = NoInbox => db'[closePending[t]] = Closed
       /\ \A i \in Inboxes : ~Opens(t, i)]_vars
=============================================================================
