------------------------- MODULE InboxDatabaseProofs -------------------------
(***************************************************************************)
(* Theorems about InboxDatabase for any sets of tabs, inboxes and workers, *)
(* any requested operations and any database plan.                         *)
(***************************************************************************)
EXTENDS InboxDatabase, FiniteSetTheorems, TLAPS

CandidatePhases == {"verifying", "swapping", "failing", "session", "journaled",
                    "durabilityClose", "reopened", "repairClosing", "borrowed"}

\* A Web Lock has one holder.
LockHasOneHolder ==
  \A t, u \in Tabs : lock[t] = lock[u] /\ lock[t] # NoInbox => t = u

\* What a tab refers to is running, and is its own.
RefersToOwnWorkers ==
  \A t \in Tabs, w \in Workers :
    \/ w = client[t] \/ w = candidate[t] \/ w = retained[t] \/ w \in abandoned[t]
    => db[w] # Closed /\ db[w].tab = t

\* No worker plays two parts.
PartsAreSeparate ==
  \A t \in Tabs :
    /\ client[t] \notin abandoned[t]
    /\ candidate[t] \notin abandoned[t]
    /\ retained[t] \notin abandoned[t]
    /\ candidate[t] # NoWorker => client[t] = NoWorker /\ candidate[t] # retained[t]
    /\ client[t] # NoWorker => retained[t] = NoWorker

\* What the phase of the running operation says about the tab's references.
PhaseAgrees(t) ==
  /\ candidate[t] # NoWorker <=> op[t].phase \in CandidatePhases
  /\ op[t].phase = "closeRetained" => retained[t] # NoWorker
  /\ op[t].phase = "closeClient" => client[t] # NoWorker
  /\ op[t].phase \in ConnectPhases \cup RepairPhases \cup BorrowPhases
       => client[t] = NoWorker
  /\ op[t].phase \in ConnectPhases \cup (RepairPhases \ {"repairing"})
       => retained[t] = NoWorker
  /\ op[t].covered => op[t].phase \in {"opening", "verifying", "swapping", "failing"}
  /\ op[t].phase \in ConnectPhases \cup RepairPhases \cup BorrowPhases
       => op[t].then # "idle"
  /\ op[t].then # "idle" => op[t].inbox \in Inboxes

PhasesAgree == \A t \in Tabs : PhaseAgrees(t)

\* The lock stays with whoever opened, or is about to open, under it.
LockCoversUse ==
  \A t \in Tabs :
    /\ op[t].covered => lock[t] = op[t].inbox /\ closePending[t] = NoWorker
    /\ \A i \in Inboxes :
         UsesUnderLock(t, i) => lock[t] = i /\ closePending[t] = NoWorker

\* Repair, provisioning and migration open without the lock.
RepairIsUnguarded ==
  \A t \in Tabs :
    /\ retained[t] # NoWorker => ~db[retained[t]].guarded
    /\ op[t].phase \in RepairPhases \cup BorrowPhases /\ candidate[t] # NoWorker
         => ~db[candidate[t]].guarded

IInv ==
  /\ TypeOK
  /\ LockHasOneHolder
  /\ RefersToOwnWorkers
  /\ PartsAreSeparate
  /\ PhasesAgree
  /\ LockCoversUse
  /\ RepairIsUnguarded
  /\ NoWorkerLeaks

-----------------------------------------------------------------------------
USE DEF Phases, ConnectPhases, RepairPhases, BorrowPhases, Returns

\* What suspending, beginning and ending an operation do to op.
LEMMA GotoEffect ==
  ASSUME op \in [Tabs -> Operation], NEW t \in Tabs, NEW phase \in Phases \ {"idle"},
         Goto(t, phase)
  PROVE  /\ op' \in [Tabs -> Operation]
         /\ op'[t].phase = phase
         /\ op'[t].inbox = op[t].inbox
         /\ op'[t].then = op[t].then
         /\ op'[t].covered = op[t].covered
         /\ \A u \in Tabs : u # t => op'[u] = op[u]
BY DEF Goto, Suspend, Operation, Idle

\* Ending an operation leaves Idle, which has no phase to agree with.
LEMMA EndEffect ==
  ASSUME op \in [Tabs -> Operation], NEW t \in Tabs, Goto(t, "idle")
  PROVE  /\ op' \in [Tabs -> Operation]
         /\ op'[t].phase = "idle"
         /\ op'[t].then = "idle"
         /\ ~op'[t].covered
         /\ \A u \in Tabs : u # t => op'[u] = op[u]
BY DEF Goto, Suspend, Operation, Idle

\* A step that only moves t's operation keeps the invariant when the new phase
\* agrees with the references and no new claim on the lock is made.
LEMMA MoveKeepsIInv ==
  ASSUME IInv, NEW t \in Tabs,
         op' \in [Tabs -> Operation],
         \A u \in Tabs : u # t => op'[u] = op[u],
         UNCHANGED <<client, candidate, retained, closePending, abandoned, lock, db>>,
         PhaseAgrees(t)',
         op'[t].covered => op[t].covered /\ op'[t].inbox = op[t].inbox,
         op'[t].phase \in RepairPhases \cup BorrowPhases /\ candidate[t] # NoWorker
           => op[t].phase \in RepairPhases \cup BorrowPhases
  PROVE  IInv'
<1>1. TypeOK'
  BY DEF IInv, TypeOK
<1>2. LockHasOneHolder' /\ RefersToOwnWorkers' /\ PartsAreSeparate' /\ NoWorkerLeaks'
  BY DEF IInv, LockHasOneHolder, RefersToOwnWorkers, PartsAreSeparate, NoWorkerLeaks
<1>3. PhasesAgree'
  BY DEF IInv, PhasesAgree, PhaseAgrees
<1>4. LockCoversUse'
  BY DEF IInv, LockCoversUse, UsesUnderLock
<1>5. RepairIsUnguarded'
  BY DEF IInv, TypeOK, PhasesAgree, PhaseAgrees, RepairIsUnguarded, CandidatePhases
<1>6. QED BY <1>1, <1>2, <1>3, <1>4, <1>5 DEF IInv

\* A failed verification keeps the candidate, which "failing" still refers to.
LEMMA VerificationFailsKeepsIInv ==
  ASSUME IInv, NEW t \in Tabs, VerificationFails(t) PROVE IInv'
<1>1. /\ op' \in [Tabs -> Operation]
      /\ op'[t].phase = "failing"
      /\ op'[t].covered = op[t].covered /\ op'[t].inbox = op[t].inbox
      /\ op'[t].then = op[t].then
      /\ \A u \in Tabs : u # t => op'[u] = op[u]
  BY GotoEffect DEF VerificationFails, IInv, TypeOK
<1>2. PhaseAgrees(t)'
  BY <1>1 DEF VerificationFails, IInv, PhasesAgree, PhaseAgrees, CandidatePhases
<1>3. QED BY <1>1, <1>2, MoveKeepsIInv DEF VerificationFails, IInv, PhasesAgree, PhaseAgrees, CandidatePhases

\* A repair goes on to open a worker only when nothing is retained.
LEMMA NothingRetainedKeepsIInv ==
  ASSUME IInv, NEW t \in Tabs, NothingRetained(t) PROVE IInv'
<1>1. /\ op' \in [Tabs -> Operation]
      /\ op'[t].phase = "repairOpening"
      /\ op'[t].covered = op[t].covered /\ op'[t].inbox = op[t].inbox
      /\ op'[t].then = op[t].then
      /\ \A u \in Tabs : u # t => op'[u] = op[u]
  BY GotoEffect DEF NothingRetained, IInv, TypeOK
<1>2. PhaseAgrees(t)'
  BY <1>1 DEF NothingRetained, IInv, PhasesAgree, PhaseAgrees, CandidatePhases
<1>3. QED BY <1>1, <1>2, MoveKeepsIInv DEF NothingRetained, IInv, PhasesAgree, PhaseAgrees, CandidatePhases

\* Journaling changes the phase, not who refers to the candidate.
LEMMA JournalCandidateKeepsIInv ==
  ASSUME IInv, NEW t \in Tabs, JournalCandidate(t) PROVE IInv'
<1>1. /\ op' \in [Tabs -> Operation]
      /\ op'[t].phase = "journaled"
      /\ op'[t].covered = op[t].covered /\ op'[t].inbox = op[t].inbox
      /\ op'[t].then = op[t].then
      /\ \A u \in Tabs : u # t => op'[u] = op[u]
  BY GotoEffect DEF JournalCandidate, IInv, TypeOK
<1>2. PhaseAgrees(t)'
  BY <1>1 DEF JournalCandidate, IInv, PhasesAgree, PhaseAgrees, CandidatePhases
<1>3. QED BY <1>1, <1>2, MoveKeepsIInv DEF JournalCandidate, IInv, PhasesAgree, PhaseAgrees, CandidatePhases

\* The candidate stays referred to until the durability close settles.
LEMMA ProveDurableKeepsIInv ==
  ASSUME IInv, NEW t \in Tabs, ProveDurable(t) PROVE IInv'
<1>1. /\ op' \in [Tabs -> Operation]
      /\ op'[t].phase = "durabilityClose"
      /\ op'[t].covered = op[t].covered /\ op'[t].inbox = op[t].inbox
      /\ op'[t].then = op[t].then
      /\ \A u \in Tabs : u # t => op'[u] = op[u]
  BY GotoEffect DEF ProveDurable, IInv, TypeOK
<1>2. PhaseAgrees(t)'
  BY <1>1 DEF ProveDurable, IInv, PhasesAgree, PhaseAgrees, CandidatePhases
<1>3. QED BY <1>1, <1>2, MoveKeepsIInv DEF ProveDurable, IInv, PhasesAgree, PhaseAgrees, CandidatePhases

\* A repair that fails still refers to the candidate it is about to close.
LEMMA RepairFailsKeepsIInv ==
  ASSUME IInv, NEW t \in Tabs, RepairFails(t) PROVE IInv'
<1>1. /\ op' \in [Tabs -> Operation]
      /\ op'[t].phase = "repairClosing"
      /\ op'[t].covered = op[t].covered /\ op'[t].inbox = op[t].inbox
      /\ op'[t].then = op[t].then
      /\ \A u \in Tabs : u # t => op'[u] = op[u]
  BY GotoEffect DEF RepairFails, IInv, TypeOK
<1>2. PhaseAgrees(t)'
  BY <1>1 DEF RepairFails, IInv, PhasesAgree, PhaseAgrees, CandidatePhases
<1>3. QED BY <1>1, <1>2, MoveKeepsIInv DEF RepairFails, IInv, PhasesAgree, PhaseAgrees, CandidatePhases

\* A repair that opened nothing ends with nothing to close.
LEMMA RepairOpenFailsKeepsIInv ==
  ASSUME IInv, NEW t \in Tabs, RepairOpenFails(t) PROVE IInv'
<1>1. /\ op' \in [Tabs -> Operation]
      /\ op'[t].phase = "idle"
      /\ op'[t].then = "idle"
      /\ ~op'[t].covered
      /\ \A u \in Tabs : u # t => op'[u] = op[u]
  BY EndEffect DEF RepairOpenFails, IInv, TypeOK
<1>2. PhaseAgrees(t)'
  BY <1>1 DEF RepairOpenFails, IInv, PhasesAgree, PhaseAgrees, CandidatePhases
<1>3. QED BY <1>1, <1>2, MoveKeepsIInv DEF RepairOpenFails, IInv, PhasesAgree, PhaseAgrees, CandidatePhases

\* A provisioning that opened nothing ends with nothing to close.
LEMMA BorrowFailsKeepsIInv ==
  ASSUME IInv, NEW t \in Tabs, BorrowFails(t) PROVE IInv'
<1>1. /\ op' \in [Tabs -> Operation]
      /\ op'[t].phase = "idle"
      /\ op'[t].then = "idle"
      /\ ~op'[t].covered
      /\ \A u \in Tabs : u # t => op'[u] = op[u]
  BY EndEffect DEF BorrowFails, IInv, TypeOK
<1>2. PhaseAgrees(t)'
  BY <1>1 DEF BorrowFails, IInv, PhasesAgree, PhaseAgrees, CandidatePhases
<1>3. QED BY <1>1, <1>2, MoveKeepsIInv DEF BorrowFails, IInv, PhasesAgree, PhaseAgrees, CandidatePhases

\* A connect that skips the lock makes no claim on it.
LEMMA SkipLockKeepsIInv ==
  ASSUME IInv, NEW t \in Tabs, SkipLock(t) PROVE IInv'
<1>1. /\ op' \in [Tabs -> Operation]
      /\ op'[t].phase = "opening"
      /\ ~op'[t].covered
      /\ op'[t].inbox = op[t].inbox
      /\ op'[t].then = op[t].then
      /\ \A u \in Tabs : u # t => op'[u] = op[u]
  BY DEF SkipLock, IInv, TypeOK, Suspend, Operation
<1>2. PhaseAgrees(t)'
  BY <1>1 DEF SkipLock, IInv, PhasesAgree, PhaseAgrees, CandidatePhases
<1>3. QED BY <1>1, <1>2, MoveKeepsIInv DEF SkipLock, IInv, PhasesAgree, PhaseAgrees, CandidatePhases

\* The probed worker stays the candidate until its close settles.
LEMMA TryOtherDatabaseKeepsIInv ==
  ASSUME IInv, NEW t \in Tabs, TryOtherDatabase(t) PROVE IInv'
<1>1. /\ op' \in [Tabs -> Operation]
      /\ op'[t].phase = "swapping"
      /\ op'[t].covered = op[t].covered /\ op'[t].inbox = op[t].inbox
      /\ op'[t].then = op[t].then
      /\ \A u \in Tabs : u # t => op'[u] = op[u]
  BY DEF TryOtherDatabase, IInv, TypeOK, Suspend, Operation
<1>2. PhaseAgrees(t)'
  BY <1>1 DEF TryOtherDatabase, IInv, PhasesAgree, PhaseAgrees, CandidatePhases
<1>3. QED BY <1>1, <1>2, MoveKeepsIInv DEF TryOtherDatabase, IInv, PhasesAgree, PhaseAgrees, CandidatePhases

\* A disconnect starts with the first close that has something to close.
LEMMA BeginDisconnectKeepsIInv ==
  ASSUME IInv, NEW t \in Tabs, BeginDisconnect(t) PROVE IInv'
<1>1. /\ op[t].phase = "idle"
      /\ op' \in [Tabs -> Operation]
      /\ op'[t].phase \in {"closeRetained", "closeClient"}
      /\ op'[t].phase = "closeRetained" => retained[t] # NoWorker
      /\ op'[t].phase = "closeClient" => client[t] # NoWorker
      /\ op'[t].phase \notin {"closeRetained", "closeClient"} => client[t] = NoWorker
      /\ op'[t].covered = FALSE
      /\ op'[t].then = "idle"
      /\ \A u \in Tabs : u # t => op'[u] = op[u]
  BY DEF BeginDisconnect, Begin, Suspend, FirstClose, IInv, TypeOK, Operation, Idle
<1>2. PhaseAgrees(t)'
  BY <1>1 DEF BeginDisconnect, IInv, PhasesAgree, PhaseAgrees, CandidatePhases
<1>3. QED BY <1>1, <1>2, MoveKeepsIInv DEF BeginDisconnect, IInv, PhasesAgree, PhaseAgrees, CandidatePhases

\* A connect reaches "starting" only without client or retained candidate.
LEMMA BeginConnectKeepsIInv ==
  ASSUME IInv, NEW t \in Tabs, NEW i \in Inboxes, BeginConnect(t, i) PROVE IInv'
<1>1. /\ op[t].phase = "idle"
      /\ op' \in [Tabs -> Operation]
      /\ op'[t].phase \in {"closeRetained", "closeClient", "starting"}
      /\ op'[t].phase = "closeRetained" => retained[t] # NoWorker
      /\ op'[t].phase = "closeClient" => client[t] # NoWorker
      /\ op'[t].phase \notin {"closeRetained", "closeClient"} => client[t] = NoWorker /\ retained[t] = NoWorker
      /\ op'[t].covered = FALSE
      /\ op'[t].then # "idle" /\ op'[t].inbox \in Inboxes
      /\ \A u \in Tabs : u # t => op'[u] = op[u]
  BY DEF BeginConnect, Begin, Suspend, FirstClose, IInv, TypeOK, Operation, Idle
<1>2. PhaseAgrees(t)'
  BY <1>1 DEF BeginConnect, IInv, PhasesAgree, PhaseAgrees, CandidatePhases
<1>3. QED BY <1>1, <1>2, MoveKeepsIInv DEF BeginConnect, IInv, PhasesAgree, PhaseAgrees, CandidatePhases

\* A repair disconnects the client first; a retained candidate may stay.
LEMMA BeginRepairKeepsIInv ==
  ASSUME IInv, NEW t \in Tabs, NEW i \in Inboxes, BeginRepair(t, i) PROVE IInv'
<1>1. /\ op[t].phase = "idle"
      /\ op' \in [Tabs -> Operation]
      /\ op'[t].phase \in {"closeRetained", "closeClient", "repairing"}
      /\ op'[t].phase = "closeRetained" => retained[t] # NoWorker
      /\ op'[t].phase = "closeClient" => client[t] # NoWorker
      /\ op'[t].phase \notin {"closeRetained", "closeClient"} => client[t] = NoWorker
      /\ op'[t].covered = FALSE
      /\ op'[t].then # "idle" /\ op'[t].inbox \in Inboxes
      /\ \A u \in Tabs : u # t => op'[u] = op[u]
  BY DEF BeginRepair, Begin, Suspend, FirstClose, IInv, TypeOK, Operation, Idle
<1>2. PhaseAgrees(t)'
  BY <1>1 DEF BeginRepair, IInv, PhasesAgree, PhaseAgrees, CandidatePhases
<1>3. QED BY <1>1, <1>2, MoveKeepsIInv DEF BeginRepair, IInv, PhasesAgree, PhaseAgrees, CandidatePhases

\* Provisioning disconnects the client first; a retained candidate may stay.
LEMMA BeginBorrowKeepsIInv ==
  ASSUME IInv, NEW t \in Tabs, NEW i \in Inboxes, BeginBorrow(t, i) PROVE IInv'
<1>1. /\ op[t].phase = "idle"
      /\ op' \in [Tabs -> Operation]
      /\ op'[t].phase \in {"closeRetained", "closeClient", "borrowing"}
      /\ op'[t].phase = "closeRetained" => retained[t] # NoWorker
      /\ op'[t].phase = "closeClient" => client[t] # NoWorker
      /\ op'[t].phase \notin {"closeRetained", "closeClient"} => client[t] = NoWorker
      /\ op'[t].covered = FALSE
      /\ op'[t].then # "idle" /\ op'[t].inbox \in Inboxes
      /\ \A u \in Tabs : u # t => op'[u] = op[u]
  BY DEF BeginBorrow, Begin, Suspend, FirstClose, IInv, TypeOK, Operation, Idle
<1>2. PhaseAgrees(t)'
  BY <1>1 DEF BeginBorrow, IInv, PhasesAgree, PhaseAgrees, CandidatePhases
<1>3. QED BY <1>1, <1>2, MoveKeepsIInv DEF BeginBorrow, IInv, PhasesAgree, PhaseAgrees, CandidatePhases

\* A retained worker whose close timed out becomes an abandoned one.
LEMMA CloseRetainedTimesOutKeepsIInv ==
  ASSUME IInv, NEW t \in Tabs, CloseRetainedTimesOut(t) PROVE IInv'
<1>1. /\ op[t].then \in Returns
      /\ op[t].then # "idle" => op[t].inbox \in Inboxes
      /\ retained[t] \in Workers
      /\ client[t] = NoWorker
      /\ candidate[t] = NoWorker
      /\ ~op[t].covered
  BY SentinelAssumption DEF CloseRetainedTimesOut, IInv, TypeOK, RefersToOwnWorkers, PartsAreSeparate,
        PhasesAgree, PhaseAgrees, CandidatePhases, Operation, AbandonWorker
<1>2. /\ op' \in [Tabs -> Operation]
      /\ op'[t].phase = op[t].then
      /\ ~op'[t].covered
      /\ op'[t].phase # "idle" => op'[t].then = op[t].then /\ op'[t].inbox = op[t].inbox
      /\ op'[t].phase = "idle" => op'[t].then = "idle"
      /\ \A u \in Tabs : u # t => op'[u] = op[u]
  BY <1>1 DEF CloseRetainedTimesOut, Goto, Suspend, Operation, Idle, IInv, TypeOK
<1>3. TypeOK'
  BY <1>1, <1>2, SentinelAssumption DEF CloseRetainedTimesOut, IInv, TypeOK, AbandonWorker
<1>4. LockHasOneHolder'
  BY DEF CloseRetainedTimesOut, IInv, TypeOK, LockHasOneHolder
<1>5. RefersToOwnWorkers'
  BY <1>1, SentinelAssumption DEF CloseRetainedTimesOut, IInv, TypeOK, RefersToOwnWorkers, PartsAreSeparate, AbandonWorker
<1>6. PartsAreSeparate'
  BY <1>1, SentinelAssumption DEF CloseRetainedTimesOut, IInv, TypeOK, RefersToOwnWorkers, PartsAreSeparate, AbandonWorker
<1>7. PhasesAgree'
  BY <1>1, <1>2, SentinelAssumption DEF CloseRetainedTimesOut, IInv, TypeOK, PhasesAgree, PhaseAgrees, CandidatePhases, AbandonWorker
<1>8. LockCoversUse'
  BY <1>1, <1>2, SentinelAssumption DEF CloseRetainedTimesOut, IInv, TypeOK, PartsAreSeparate,
        RefersToOwnWorkers, RepairIsUnguarded, LockCoversUse, UsesUnderLock, AbandonWorker
<1>9. NoWorkerLeaks'
  BY <1>1, SentinelAssumption DEF CloseRetainedTimesOut, IInv, TypeOK, NoWorkerLeaks, RefersToOwnWorkers, PartsAreSeparate, AbandonWorker
<1>10. RepairIsUnguarded'
  BY <1>1, <1>2, SentinelAssumption DEF CloseRetainedTimesOut, IInv, TypeOK, PartsAreSeparate,
        RefersToOwnWorkers, PhasesAgree, PhaseAgrees, RepairIsUnguarded, AbandonWorker
<1>11. QED BY <1>3, <1>4, <1>5, <1>6, <1>7, <1>8, <1>9, <1>10 DEF IInv

\* A client whose close timed out is abandoned, and the tab keeps the lock.
LEMMA CloseClientTimesOutKeepsIInv ==
  ASSUME IInv, NEW t \in Tabs, CloseClientTimesOut(t) PROVE IInv'
<1>1. /\ op[t].then \in Returns
      /\ op[t].then # "idle" => op[t].inbox \in Inboxes
      /\ client[t] \in Workers
      /\ retained[t] = NoWorker
      /\ candidate[t] = NoWorker
      /\ ~op[t].covered
  BY SentinelAssumption DEF CloseClientTimesOut, IInv, TypeOK, RefersToOwnWorkers, PartsAreSeparate,
        PhasesAgree, PhaseAgrees, CandidatePhases, Operation, AbandonWorker
<1>2. /\ op' \in [Tabs -> Operation]
      /\ op'[t].phase = op[t].then
      /\ ~op'[t].covered
      /\ op'[t].phase # "idle" => op'[t].then = op[t].then /\ op'[t].inbox = op[t].inbox
      /\ op'[t].phase = "idle" => op'[t].then = "idle"
      /\ \A u \in Tabs : u # t => op'[u] = op[u]
  BY <1>1 DEF CloseClientTimesOut, Goto, Suspend, Operation, Idle, IInv, TypeOK
<1>3. TypeOK'
  BY <1>1, <1>2, SentinelAssumption DEF CloseClientTimesOut, IInv, TypeOK, AbandonWorker
<1>4. LockHasOneHolder'
  BY DEF CloseClientTimesOut, IInv, TypeOK, LockHasOneHolder
<1>5. RefersToOwnWorkers'
  BY <1>1, SentinelAssumption DEF CloseClientTimesOut, IInv, TypeOK, RefersToOwnWorkers, PartsAreSeparate, AbandonWorker
<1>6. PartsAreSeparate'
  BY <1>1, SentinelAssumption DEF CloseClientTimesOut, IInv, TypeOK, RefersToOwnWorkers, PartsAreSeparate, AbandonWorker
<1>7. PhasesAgree'
  BY <1>1, <1>2, SentinelAssumption DEF CloseClientTimesOut, IInv, TypeOK, PhasesAgree, PhaseAgrees, CandidatePhases, AbandonWorker
<1>8. LockCoversUse'
  BY <1>1, <1>2, SentinelAssumption DEF CloseClientTimesOut, IInv, TypeOK, PartsAreSeparate,
        RefersToOwnWorkers, RepairIsUnguarded, LockCoversUse, UsesUnderLock, AbandonWorker
<1>9. NoWorkerLeaks'
  BY <1>1, SentinelAssumption DEF CloseClientTimesOut, IInv, TypeOK, NoWorkerLeaks, RefersToOwnWorkers, PartsAreSeparate, AbandonWorker
<1>10. RepairIsUnguarded'
  BY <1>1, <1>2, SentinelAssumption DEF CloseClientTimesOut, IInv, TypeOK, PartsAreSeparate,
        RefersToOwnWorkers, PhasesAgree, PhaseAgrees, RepairIsUnguarded, AbandonWorker
<1>11. QED BY <1>3, <1>4, <1>5, <1>6, <1>7, <1>8, <1>9, <1>10 DEF IInv

\* A failed candidate whose close timed out is abandoned.
LEMMA FailedClientCloseTimesOutKeepsIInv ==
  ASSUME IInv, NEW t \in Tabs, FailedClientCloseTimesOut(t) PROVE IInv'
<1>1. /\ candidate[t] \in Workers
      /\ client[t] = NoWorker
      /\ retained[t] = NoWorker
  BY SentinelAssumption DEF FailedClientCloseTimesOut, IInv, TypeOK, RefersToOwnWorkers, PartsAreSeparate,
        PhasesAgree, PhaseAgrees, CandidatePhases, Operation, AbandonWorker
<1>2. /\ op' \in [Tabs -> Operation]
      /\ op'[t].phase = "idle"
      /\ op'[t].then = "idle"
      /\ ~op'[t].covered
      /\ \A u \in Tabs : u # t => op'[u] = op[u]
  BY EndEffect DEF FailedClientCloseTimesOut, IInv, TypeOK
<1>3. TypeOK'
  BY <1>1, <1>2, SentinelAssumption DEF FailedClientCloseTimesOut, IInv, TypeOK, AbandonWorker
<1>4. LockHasOneHolder'
  BY DEF FailedClientCloseTimesOut, IInv, TypeOK, LockHasOneHolder
<1>5. RefersToOwnWorkers'
  BY <1>1, SentinelAssumption DEF FailedClientCloseTimesOut, IInv, TypeOK, RefersToOwnWorkers, PartsAreSeparate, AbandonWorker
<1>6. PartsAreSeparate'
  BY <1>1, SentinelAssumption DEF FailedClientCloseTimesOut, IInv, TypeOK, RefersToOwnWorkers, PartsAreSeparate, AbandonWorker
<1>7. PhasesAgree'
  BY <1>1, <1>2, SentinelAssumption DEF FailedClientCloseTimesOut, IInv, TypeOK, PhasesAgree, PhaseAgrees, CandidatePhases, AbandonWorker
<1>8. LockCoversUse'
  BY <1>1, <1>2, SentinelAssumption DEF FailedClientCloseTimesOut, IInv, TypeOK, PartsAreSeparate,
        RefersToOwnWorkers, RepairIsUnguarded, LockCoversUse, UsesUnderLock, AbandonWorker
<1>9. NoWorkerLeaks'
  BY <1>1, SentinelAssumption DEF FailedClientCloseTimesOut, IInv, TypeOK, NoWorkerLeaks, RefersToOwnWorkers, PartsAreSeparate, AbandonWorker
<1>10. RepairIsUnguarded'
  BY <1>1, <1>2, SentinelAssumption DEF FailedClientCloseTimesOut, IInv, TypeOK, PartsAreSeparate,
        RefersToOwnWorkers, PhasesAgree, PhaseAgrees, RepairIsUnguarded, AbandonWorker
<1>11. QED BY <1>3, <1>4, <1>5, <1>6, <1>7, <1>8, <1>9, <1>10 DEF IInv

\* A superseded candidate whose close timed out is abandoned.
LEMMA SupersededCloseTimesOutKeepsIInv ==
  ASSUME IInv, NEW t \in Tabs, SupersededCloseTimesOut(t) PROVE IInv'
<1>1. /\ retained[t] \in Workers
      /\ client[t] = NoWorker
      /\ candidate[t] = NoWorker
      /\ ~op[t].covered
  BY SentinelAssumption DEF SupersededCloseTimesOut, IInv, TypeOK, RefersToOwnWorkers, PartsAreSeparate,
        PhasesAgree, PhaseAgrees, CandidatePhases, Operation, AbandonWorker
<1>2. /\ op' \in [Tabs -> Operation]
      /\ op'[t].phase = "repairOpening"
      /\ op'[t].covered = op[t].covered /\ op'[t].inbox = op[t].inbox
      /\ op'[t].then = op[t].then
      /\ \A u \in Tabs : u # t => op'[u] = op[u]
  BY GotoEffect DEF SupersededCloseTimesOut, IInv, TypeOK
<1>3. TypeOK'
  BY <1>1, <1>2, SentinelAssumption DEF SupersededCloseTimesOut, IInv, TypeOK, AbandonWorker
<1>4. LockHasOneHolder'
  BY DEF SupersededCloseTimesOut, IInv, TypeOK, LockHasOneHolder
<1>5. RefersToOwnWorkers'
  BY <1>1, SentinelAssumption DEF SupersededCloseTimesOut, IInv, TypeOK, RefersToOwnWorkers, PartsAreSeparate, AbandonWorker
<1>6. PartsAreSeparate'
  BY <1>1, SentinelAssumption DEF SupersededCloseTimesOut, IInv, TypeOK, RefersToOwnWorkers, PartsAreSeparate, AbandonWorker
<1>7. PhasesAgree'
  BY <1>1, <1>2, SentinelAssumption DEF SupersededCloseTimesOut, IInv, TypeOK, PhasesAgree, PhaseAgrees, CandidatePhases, AbandonWorker
<1>8. LockCoversUse'
  BY <1>1, <1>2, SentinelAssumption DEF SupersededCloseTimesOut, IInv, TypeOK, PartsAreSeparate,
        RefersToOwnWorkers, RepairIsUnguarded, LockCoversUse, UsesUnderLock, AbandonWorker
<1>9. NoWorkerLeaks'
  BY <1>1, SentinelAssumption DEF SupersededCloseTimesOut, IInv, TypeOK, NoWorkerLeaks, RefersToOwnWorkers, PartsAreSeparate, AbandonWorker
<1>10. RepairIsUnguarded'
  BY <1>1, <1>2, SentinelAssumption DEF SupersededCloseTimesOut, IInv, TypeOK, PartsAreSeparate,
        RefersToOwnWorkers, PhasesAgree, PhaseAgrees, RepairIsUnguarded, AbandonWorker
<1>11. QED BY <1>3, <1>4, <1>5, <1>6, <1>7, <1>8, <1>9, <1>10 DEF IInv

\* A settled close of the retained worker ends it and the reference.
LEMMA CloseRetainedSettlesKeepsIInv ==
  ASSUME IInv, NEW t \in Tabs, CloseRetainedSettles(t) PROVE IInv'
<1>1. /\ op[t].then \in Returns
      /\ op[t].then # "idle" => op[t].inbox \in Inboxes
      /\ retained[t] \in Workers
      /\ client[t] = NoWorker
      /\ candidate[t] = NoWorker
      /\ ~op[t].covered
  BY SentinelAssumption DEF CloseRetainedSettles, IInv, TypeOK, RefersToOwnWorkers, PartsAreSeparate,
        PhasesAgree, PhaseAgrees, CandidatePhases, Operation, CloseWorker
<1>2. /\ op' \in [Tabs -> Operation]
      /\ op'[t].phase = op[t].then
      /\ ~op'[t].covered
      /\ op'[t].phase # "idle" => op'[t].then = op[t].then /\ op'[t].inbox = op[t].inbox
      /\ op'[t].phase = "idle" => op'[t].then = "idle"
      /\ \A u \in Tabs : u # t => op'[u] = op[u]
  BY <1>1 DEF CloseRetainedSettles, Goto, Suspend, Operation, Idle, IInv, TypeOK
<1>3. TypeOK'
  BY <1>1, <1>2, SentinelAssumption DEF CloseRetainedSettles, IInv, TypeOK, CloseWorker
<1>4. LockHasOneHolder'
  BY DEF CloseRetainedSettles, IInv, TypeOK, LockHasOneHolder
<1>5. RefersToOwnWorkers'
  BY <1>1, SentinelAssumption DEF CloseRetainedSettles, IInv, TypeOK, RefersToOwnWorkers, PartsAreSeparate, CloseWorker
<1>6. PartsAreSeparate'
  BY <1>1, SentinelAssumption DEF CloseRetainedSettles, IInv, TypeOK, RefersToOwnWorkers, PartsAreSeparate, CloseWorker
<1>7. PhasesAgree'
  BY <1>1, <1>2, SentinelAssumption DEF CloseRetainedSettles, IInv, TypeOK, PhasesAgree, PhaseAgrees, CandidatePhases, CloseWorker
<1>8. LockCoversUse'
  BY <1>1, <1>2, SentinelAssumption DEF CloseRetainedSettles, IInv, TypeOK, PartsAreSeparate,
        RefersToOwnWorkers, RepairIsUnguarded, LockCoversUse, UsesUnderLock, CloseWorker
<1>9. NoWorkerLeaks'
  BY <1>1, SentinelAssumption DEF CloseRetainedSettles, IInv, TypeOK, NoWorkerLeaks, RefersToOwnWorkers, PartsAreSeparate, CloseWorker
<1>10. RepairIsUnguarded'
  BY <1>1, <1>2, SentinelAssumption DEF CloseRetainedSettles, IInv, TypeOK, PartsAreSeparate,
        RefersToOwnWorkers, PhasesAgree, PhaseAgrees, RepairIsUnguarded, CloseWorker
<1>11. QED BY <1>3, <1>4, <1>5, <1>6, <1>7, <1>8, <1>9, <1>10 DEF IInv

\* A settled close ends the client, and the lock has no use left to cover.
LEMMA CloseClientSettlesKeepsIInv ==
  ASSUME IInv, NEW t \in Tabs, CloseClientSettles(t) PROVE IInv'
<1>1. /\ op[t].then \in Returns
      /\ op[t].then # "idle" => op[t].inbox \in Inboxes
      /\ client[t] \in Workers
      /\ retained[t] = NoWorker
      /\ candidate[t] = NoWorker
      /\ ~op[t].covered
  BY SentinelAssumption DEF CloseClientSettles, IInv, TypeOK, RefersToOwnWorkers, PartsAreSeparate,
        PhasesAgree, PhaseAgrees, CandidatePhases, Operation, CloseWorker, ReleaseLock
<1>2. /\ op' \in [Tabs -> Operation]
      /\ op'[t].phase = op[t].then
      /\ ~op'[t].covered
      /\ op'[t].phase # "idle" => op'[t].then = op[t].then /\ op'[t].inbox = op[t].inbox
      /\ op'[t].phase = "idle" => op'[t].then = "idle"
      /\ \A u \in Tabs : u # t => op'[u] = op[u]
  BY <1>1 DEF CloseClientSettles, Goto, Suspend, Operation, Idle, IInv, TypeOK
<1>3. TypeOK'
  BY <1>1, <1>2, SentinelAssumption DEF CloseClientSettles, IInv, TypeOK, CloseWorker, ReleaseLock
<1>4. LockHasOneHolder'
  BY DEF CloseClientSettles, IInv, TypeOK, LockHasOneHolder, ReleaseLock
<1>5. RefersToOwnWorkers'
  BY <1>1, SentinelAssumption DEF CloseClientSettles, IInv, TypeOK, RefersToOwnWorkers, PartsAreSeparate, CloseWorker, ReleaseLock
<1>6. PartsAreSeparate'
  BY <1>1, SentinelAssumption DEF CloseClientSettles, IInv, TypeOK, RefersToOwnWorkers, PartsAreSeparate, CloseWorker, ReleaseLock
<1>7. PhasesAgree'
  BY <1>1, <1>2, SentinelAssumption DEF CloseClientSettles, IInv, TypeOK, PhasesAgree, PhaseAgrees, CandidatePhases, CloseWorker, ReleaseLock
<1>8. LockCoversUse'
  BY <1>1, <1>2, SentinelAssumption DEF CloseClientSettles, IInv, TypeOK, PartsAreSeparate,
        RefersToOwnWorkers, RepairIsUnguarded, LockCoversUse, UsesUnderLock, CloseWorker, ReleaseLock
<1>9. NoWorkerLeaks'
  BY <1>1, SentinelAssumption DEF CloseClientSettles, IInv, TypeOK, NoWorkerLeaks, RefersToOwnWorkers, PartsAreSeparate, CloseWorker, ReleaseLock
<1>10. RepairIsUnguarded'
  BY <1>1, <1>2, SentinelAssumption DEF CloseClientSettles, IInv, TypeOK, PartsAreSeparate,
        RefersToOwnWorkers, PhasesAgree, PhaseAgrees, RepairIsUnguarded, CloseWorker, ReleaseLock
<1>11. QED BY <1>3, <1>4, <1>5, <1>6, <1>7, <1>8, <1>9, <1>10 DEF IInv

\* A settled close ends the failed candidate, and the lock is free.
LEMMA FailedClientCloseSettlesKeepsIInv ==
  ASSUME IInv, NEW t \in Tabs, FailedClientCloseSettles(t) PROVE IInv'
<1>1. /\ candidate[t] \in Workers
      /\ client[t] = NoWorker
      /\ retained[t] = NoWorker
  BY SentinelAssumption DEF FailedClientCloseSettles, IInv, TypeOK, RefersToOwnWorkers, PartsAreSeparate,
        PhasesAgree, PhaseAgrees, CandidatePhases, Operation, CloseWorker, ReleaseLock
<1>2. /\ op' \in [Tabs -> Operation]
      /\ op'[t].phase = "idle"
      /\ op'[t].then = "idle"
      /\ ~op'[t].covered
      /\ \A u \in Tabs : u # t => op'[u] = op[u]
  BY EndEffect DEF FailedClientCloseSettles, IInv, TypeOK
<1>3. TypeOK'
  BY <1>1, <1>2, SentinelAssumption DEF FailedClientCloseSettles, IInv, TypeOK, CloseWorker, ReleaseLock
<1>4. LockHasOneHolder'
  BY DEF FailedClientCloseSettles, IInv, TypeOK, LockHasOneHolder, ReleaseLock
<1>5. RefersToOwnWorkers'
  BY <1>1, SentinelAssumption DEF FailedClientCloseSettles, IInv, TypeOK, RefersToOwnWorkers, PartsAreSeparate, CloseWorker, ReleaseLock
<1>6. PartsAreSeparate'
  BY <1>1, SentinelAssumption DEF FailedClientCloseSettles, IInv, TypeOK, RefersToOwnWorkers, PartsAreSeparate, CloseWorker, ReleaseLock
<1>7. PhasesAgree'
  BY <1>1, <1>2, SentinelAssumption DEF FailedClientCloseSettles, IInv, TypeOK, PhasesAgree, PhaseAgrees, CandidatePhases, CloseWorker, ReleaseLock
<1>8. LockCoversUse'
  BY <1>1, <1>2, SentinelAssumption DEF FailedClientCloseSettles, IInv, TypeOK, PartsAreSeparate,
        RefersToOwnWorkers, RepairIsUnguarded, LockCoversUse, UsesUnderLock, CloseWorker, ReleaseLock
<1>9. NoWorkerLeaks'
  BY <1>1, SentinelAssumption DEF FailedClientCloseSettles, IInv, TypeOK, NoWorkerLeaks, RefersToOwnWorkers, PartsAreSeparate, CloseWorker, ReleaseLock
<1>10. RepairIsUnguarded'
  BY <1>1, <1>2, SentinelAssumption DEF FailedClientCloseSettles, IInv, TypeOK, PartsAreSeparate,
        RefersToOwnWorkers, PhasesAgree, PhaseAgrees, RepairIsUnguarded, CloseWorker, ReleaseLock
<1>11. QED BY <1>3, <1>4, <1>5, <1>6, <1>7, <1>8, <1>9, <1>10 DEF IInv

\* Between two attempts no worker is open and the lock is still held.
LEMMA SwapCloseSettlesKeepsIInv ==
  ASSUME IInv, NEW t \in Tabs, SwapCloseSettles(t) PROVE IInv'
<1>1. /\ candidate[t] \in Workers
      /\ client[t] = NoWorker
      /\ retained[t] = NoWorker
  BY SentinelAssumption DEF SwapCloseSettles, IInv, TypeOK, RefersToOwnWorkers, PartsAreSeparate,
        PhasesAgree, PhaseAgrees, CandidatePhases, Operation, CloseWorker
<1>2. /\ op' \in [Tabs -> Operation]
      /\ op'[t].phase = "opening"
      /\ op'[t].covered = op[t].covered /\ op'[t].inbox = op[t].inbox
      /\ op'[t].then = op[t].then
      /\ \A u \in Tabs : u # t => op'[u] = op[u]
  BY GotoEffect DEF SwapCloseSettles, IInv, TypeOK
<1>3. TypeOK'
  BY <1>1, <1>2, SentinelAssumption DEF SwapCloseSettles, IInv, TypeOK, CloseWorker
<1>4. LockHasOneHolder'
  BY DEF SwapCloseSettles, IInv, TypeOK, LockHasOneHolder
<1>5. RefersToOwnWorkers'
  BY <1>1, SentinelAssumption DEF SwapCloseSettles, IInv, TypeOK, RefersToOwnWorkers, PartsAreSeparate, CloseWorker
<1>6. PartsAreSeparate'
  BY <1>1, SentinelAssumption DEF SwapCloseSettles, IInv, TypeOK, RefersToOwnWorkers, PartsAreSeparate, CloseWorker
<1>7. PhasesAgree'
  BY <1>1, <1>2, SentinelAssumption DEF SwapCloseSettles, IInv, TypeOK, PhasesAgree, PhaseAgrees, CandidatePhases, CloseWorker
<1>8. LockCoversUse'
  BY <1>1, <1>2, SentinelAssumption DEF SwapCloseSettles, IInv, TypeOK, PartsAreSeparate,
        RefersToOwnWorkers, RepairIsUnguarded, LockCoversUse, UsesUnderLock, CloseWorker
<1>9. NoWorkerLeaks'
  BY <1>1, SentinelAssumption DEF SwapCloseSettles, IInv, TypeOK, NoWorkerLeaks, RefersToOwnWorkers, PartsAreSeparate, CloseWorker
<1>10. RepairIsUnguarded'
  BY <1>1, <1>2, SentinelAssumption DEF SwapCloseSettles, IInv, TypeOK, PartsAreSeparate,
        RefersToOwnWorkers, PhasesAgree, PhaseAgrees, RepairIsUnguarded, CloseWorker
<1>11. QED BY <1>3, <1>4, <1>5, <1>6, <1>7, <1>8, <1>9, <1>10 DEF IInv

\* A settled close ends the superseded candidate.
LEMMA SupersededCloseSettlesKeepsIInv ==
  ASSUME IInv, NEW t \in Tabs, SupersededCloseSettles(t) PROVE IInv'
<1>1. /\ retained[t] \in Workers
      /\ client[t] = NoWorker
      /\ candidate[t] = NoWorker
      /\ ~op[t].covered
  BY SentinelAssumption DEF SupersededCloseSettles, IInv, TypeOK, RefersToOwnWorkers, PartsAreSeparate,
        PhasesAgree, PhaseAgrees, CandidatePhases, Operation, CloseWorker
<1>2. /\ op' \in [Tabs -> Operation]
      /\ op'[t].phase = "repairOpening"
      /\ op'[t].covered = op[t].covered /\ op'[t].inbox = op[t].inbox
      /\ op'[t].then = op[t].then
      /\ \A u \in Tabs : u # t => op'[u] = op[u]
  BY GotoEffect DEF SupersededCloseSettles, IInv, TypeOK
<1>3. TypeOK'
  BY <1>1, <1>2, SentinelAssumption DEF SupersededCloseSettles, IInv, TypeOK, CloseWorker
<1>4. LockHasOneHolder'
  BY DEF SupersededCloseSettles, IInv, TypeOK, LockHasOneHolder
<1>5. RefersToOwnWorkers'
  BY <1>1, SentinelAssumption DEF SupersededCloseSettles, IInv, TypeOK, RefersToOwnWorkers, PartsAreSeparate, CloseWorker
<1>6. PartsAreSeparate'
  BY <1>1, SentinelAssumption DEF SupersededCloseSettles, IInv, TypeOK, RefersToOwnWorkers, PartsAreSeparate, CloseWorker
<1>7. PhasesAgree'
  BY <1>1, <1>2, SentinelAssumption DEF SupersededCloseSettles, IInv, TypeOK, PhasesAgree, PhaseAgrees, CandidatePhases, CloseWorker
<1>8. LockCoversUse'
  BY <1>1, <1>2, SentinelAssumption DEF SupersededCloseSettles, IInv, TypeOK, PartsAreSeparate,
        RefersToOwnWorkers, RepairIsUnguarded, LockCoversUse, UsesUnderLock, CloseWorker
<1>9. NoWorkerLeaks'
  BY <1>1, SentinelAssumption DEF SupersededCloseSettles, IInv, TypeOK, NoWorkerLeaks, RefersToOwnWorkers, PartsAreSeparate, CloseWorker
<1>10. RepairIsUnguarded'
  BY <1>1, <1>2, SentinelAssumption DEF SupersededCloseSettles, IInv, TypeOK, PartsAreSeparate,
        RefersToOwnWorkers, PhasesAgree, PhaseAgrees, RepairIsUnguarded, CloseWorker
<1>11. QED BY <1>3, <1>4, <1>5, <1>6, <1>7, <1>8, <1>9, <1>10 DEF IInv

\* The candidate is ended before the same database is opened again.
LEMMA DurabilityCloseSettlesKeepsIInv ==
  ASSUME IInv, NEW t \in Tabs, DurabilityCloseSettles(t) PROVE IInv'
<1>1. /\ candidate[t] \in Workers
      /\ client[t] = NoWorker
      /\ retained[t] = NoWorker
      /\ ~op[t].covered
  BY SentinelAssumption DEF DurabilityCloseSettles, IInv, TypeOK, RefersToOwnWorkers, PartsAreSeparate,
        PhasesAgree, PhaseAgrees, CandidatePhases, Operation, CloseWorker
<1>2. /\ op' \in [Tabs -> Operation]
      /\ op'[t].phase = "reopening"
      /\ op'[t].covered = op[t].covered /\ op'[t].inbox = op[t].inbox
      /\ op'[t].then = op[t].then
      /\ \A u \in Tabs : u # t => op'[u] = op[u]
  BY GotoEffect DEF DurabilityCloseSettles, IInv, TypeOK
<1>3. TypeOK'
  BY <1>1, <1>2, SentinelAssumption DEF DurabilityCloseSettles, IInv, TypeOK, CloseWorker
<1>4. LockHasOneHolder'
  BY DEF DurabilityCloseSettles, IInv, TypeOK, LockHasOneHolder
<1>5. RefersToOwnWorkers'
  BY <1>1, SentinelAssumption DEF DurabilityCloseSettles, IInv, TypeOK, RefersToOwnWorkers, PartsAreSeparate, CloseWorker
<1>6. PartsAreSeparate'
  BY <1>1, SentinelAssumption DEF DurabilityCloseSettles, IInv, TypeOK, RefersToOwnWorkers, PartsAreSeparate, CloseWorker
<1>7. PhasesAgree'
  BY <1>1, <1>2, SentinelAssumption DEF DurabilityCloseSettles, IInv, TypeOK, PhasesAgree, PhaseAgrees, CandidatePhases, CloseWorker
<1>8. LockCoversUse'
  BY <1>1, <1>2, SentinelAssumption DEF DurabilityCloseSettles, IInv, TypeOK, PartsAreSeparate,
        RefersToOwnWorkers, RepairIsUnguarded, LockCoversUse, UsesUnderLock, CloseWorker
<1>9. NoWorkerLeaks'
  BY <1>1, SentinelAssumption DEF DurabilityCloseSettles, IInv, TypeOK, NoWorkerLeaks, RefersToOwnWorkers, PartsAreSeparate, CloseWorker
<1>10. RepairIsUnguarded'
  BY <1>1, <1>2, SentinelAssumption DEF DurabilityCloseSettles, IInv, TypeOK, PartsAreSeparate,
        RefersToOwnWorkers, PhasesAgree, PhaseAgrees, RepairIsUnguarded, CloseWorker
<1>11. QED BY <1>3, <1>4, <1>5, <1>6, <1>7, <1>8, <1>9, <1>10 DEF IInv

\* A failed repair ends with its candidate closed.
LEMMA RepairCloseSettlesKeepsIInv ==
  ASSUME IInv, NEW t \in Tabs, RepairCloseSettles(t) PROVE IInv'
<1>1. /\ candidate[t] \in Workers
      /\ client[t] = NoWorker
      /\ retained[t] = NoWorker
  BY SentinelAssumption DEF RepairCloseSettles, IInv, TypeOK, RefersToOwnWorkers, PartsAreSeparate,
        PhasesAgree, PhaseAgrees, CandidatePhases, Operation, CloseWorker
<1>2. /\ op' \in [Tabs -> Operation]
      /\ op'[t].phase = "idle"
      /\ op'[t].then = "idle"
      /\ ~op'[t].covered
      /\ \A u \in Tabs : u # t => op'[u] = op[u]
  BY EndEffect DEF RepairCloseSettles, IInv, TypeOK
<1>3. TypeOK'
  BY <1>1, <1>2, SentinelAssumption DEF RepairCloseSettles, IInv, TypeOK, CloseWorker
<1>4. LockHasOneHolder'
  BY DEF RepairCloseSettles, IInv, TypeOK, LockHasOneHolder
<1>5. RefersToOwnWorkers'
  BY <1>1, SentinelAssumption DEF RepairCloseSettles, IInv, TypeOK, RefersToOwnWorkers, PartsAreSeparate, CloseWorker
<1>6. PartsAreSeparate'
  BY <1>1, SentinelAssumption DEF RepairCloseSettles, IInv, TypeOK, RefersToOwnWorkers, PartsAreSeparate, CloseWorker
<1>7. PhasesAgree'
  BY <1>1, <1>2, SentinelAssumption DEF RepairCloseSettles, IInv, TypeOK, PhasesAgree, PhaseAgrees, CandidatePhases, CloseWorker
<1>8. LockCoversUse'
  BY <1>1, <1>2, SentinelAssumption DEF RepairCloseSettles, IInv, TypeOK, PartsAreSeparate,
        RefersToOwnWorkers, RepairIsUnguarded, LockCoversUse, UsesUnderLock, CloseWorker
<1>9. NoWorkerLeaks'
  BY <1>1, SentinelAssumption DEF RepairCloseSettles, IInv, TypeOK, NoWorkerLeaks, RefersToOwnWorkers, PartsAreSeparate, CloseWorker
<1>10. RepairIsUnguarded'
  BY <1>1, <1>2, SentinelAssumption DEF RepairCloseSettles, IInv, TypeOK, PartsAreSeparate,
        RefersToOwnWorkers, PhasesAgree, PhaseAgrees, RepairIsUnguarded, CloseWorker
<1>11. QED BY <1>3, <1>4, <1>5, <1>6, <1>7, <1>8, <1>9, <1>10 DEF IInv

\* The retained worker becomes the candidate: one reference for another.
LEMMA TakeRetainedKeepsIInv ==
  ASSUME IInv, NEW t \in Tabs, TakeRetained(t) PROVE IInv'
<1>1. /\ retained[t] \in Workers
      /\ client[t] = NoWorker
      /\ candidate[t] = NoWorker
      /\ ~op[t].covered
  BY SentinelAssumption DEF TakeRetained, IInv, TypeOK, RefersToOwnWorkers, PartsAreSeparate,
        PhasesAgree, PhaseAgrees, CandidatePhases, Operation
<1>2. /\ op' \in [Tabs -> Operation]
      /\ op'[t].phase = "journaled"
      /\ op'[t].covered = op[t].covered /\ op'[t].inbox = op[t].inbox
      /\ op'[t].then = op[t].then
      /\ \A u \in Tabs : u # t => op'[u] = op[u]
  BY GotoEffect DEF TakeRetained, IInv, TypeOK
<1>3. TypeOK'
  BY <1>1, <1>2, SentinelAssumption DEF TakeRetained, IInv, TypeOK
<1>4. LockHasOneHolder'
  BY DEF TakeRetained, IInv, TypeOK, LockHasOneHolder
<1>5. RefersToOwnWorkers'
  BY <1>1, SentinelAssumption DEF TakeRetained, IInv, TypeOK, RefersToOwnWorkers, PartsAreSeparate
<1>6. PartsAreSeparate'
  BY <1>1, SentinelAssumption DEF TakeRetained, IInv, TypeOK, RefersToOwnWorkers, PartsAreSeparate
<1>7. PhasesAgree'
  BY <1>1, <1>2, SentinelAssumption DEF TakeRetained, IInv, TypeOK, PhasesAgree, PhaseAgrees, CandidatePhases
<1>8. LockCoversUse'
  BY <1>1, <1>2, SentinelAssumption DEF TakeRetained, IInv, TypeOK, PartsAreSeparate,
        RefersToOwnWorkers, RepairIsUnguarded, LockCoversUse, UsesUnderLock
<1>9. NoWorkerLeaks'
  BY <1>1, SentinelAssumption DEF TakeRetained, IInv, TypeOK, NoWorkerLeaks, RefersToOwnWorkers, PartsAreSeparate
<1>10. RepairIsUnguarded'
  BY <1>1, <1>2, SentinelAssumption DEF TakeRetained, IInv, TypeOK, PartsAreSeparate,
        RefersToOwnWorkers, PhasesAgree, PhaseAgrees, RepairIsUnguarded
<1>11. QED BY <1>3, <1>4, <1>5, <1>6, <1>7, <1>8, <1>9, <1>10 DEF IInv

\* The candidate becomes the retained worker, opened without the lock.
LEMMA RetainCandidateKeepsIInv ==
  ASSUME IInv, NEW t \in Tabs, RetainCandidate(t) PROVE IInv'
<1>1. /\ candidate[t] \in Workers
      /\ client[t] = NoWorker
      /\ retained[t] = NoWorker
  BY SentinelAssumption DEF RetainCandidate, IInv, TypeOK, RefersToOwnWorkers, PartsAreSeparate,
        PhasesAgree, PhaseAgrees, CandidatePhases, Operation
<1>2. /\ op' \in [Tabs -> Operation]
      /\ op'[t].phase = "idle"
      /\ op'[t].then = "idle"
      /\ ~op'[t].covered
      /\ \A u \in Tabs : u # t => op'[u] = op[u]
  BY EndEffect DEF RetainCandidate, IInv, TypeOK
<1>3. TypeOK'
  BY <1>1, <1>2, SentinelAssumption DEF RetainCandidate, IInv, TypeOK
<1>4. LockHasOneHolder'
  BY DEF RetainCandidate, IInv, TypeOK, LockHasOneHolder
<1>5. RefersToOwnWorkers'
  BY <1>1, SentinelAssumption DEF RetainCandidate, IInv, TypeOK, RefersToOwnWorkers, PartsAreSeparate
<1>6. PartsAreSeparate'
  BY <1>1, SentinelAssumption DEF RetainCandidate, IInv, TypeOK, RefersToOwnWorkers, PartsAreSeparate
<1>7. PhasesAgree'
  BY <1>1, <1>2, SentinelAssumption DEF RetainCandidate, IInv, TypeOK, PhasesAgree, PhaseAgrees, CandidatePhases
<1>8. LockCoversUse'
  BY <1>1, <1>2, SentinelAssumption DEF RetainCandidate, IInv, TypeOK, PartsAreSeparate,
        RefersToOwnWorkers, RepairIsUnguarded, LockCoversUse, UsesUnderLock
<1>9. NoWorkerLeaks'
  BY <1>1, SentinelAssumption DEF RetainCandidate, IInv, TypeOK, NoWorkerLeaks, RefersToOwnWorkers, PartsAreSeparate
<1>10. RepairIsUnguarded'
  BY <1>1, <1>2, SentinelAssumption DEF RetainCandidate, IInv, TypeOK, PartsAreSeparate,
        RefersToOwnWorkers, PhasesAgree, PhaseAgrees, RepairIsUnguarded
<1>11. QED BY <1>3, <1>4, <1>5, <1>6, <1>7, <1>8, <1>9, <1>10 DEF IInv

\* The candidate becomes the client, under the lock it was opened under.
LEMMA ActivateClientKeepsIInv ==
  ASSUME IInv, NEW t \in Tabs, ActivateClient(t) PROVE IInv'
<1>1. /\ candidate[t] \in Workers
      /\ client[t] = NoWorker
      /\ retained[t] = NoWorker
  BY SentinelAssumption DEF ActivateClient, IInv, TypeOK, RefersToOwnWorkers, PartsAreSeparate,
        PhasesAgree, PhaseAgrees, CandidatePhases, Operation
<1>2. /\ op' \in [Tabs -> Operation]
      /\ op'[t].phase = "idle"
      /\ op'[t].then = "idle"
      /\ ~op'[t].covered
      /\ \A u \in Tabs : u # t => op'[u] = op[u]
  BY EndEffect DEF ActivateClient, IInv, TypeOK
<1>3. TypeOK'
  BY <1>1, <1>2, SentinelAssumption DEF ActivateClient, IInv, TypeOK
<1>4. LockHasOneHolder'
  BY DEF ActivateClient, IInv, TypeOK, LockHasOneHolder
<1>5. RefersToOwnWorkers'
  BY <1>1, SentinelAssumption DEF ActivateClient, IInv, TypeOK, RefersToOwnWorkers, PartsAreSeparate
<1>6. PartsAreSeparate'
  BY <1>1, SentinelAssumption DEF ActivateClient, IInv, TypeOK, RefersToOwnWorkers, PartsAreSeparate
<1>7. PhasesAgree'
  BY <1>1, <1>2, SentinelAssumption DEF ActivateClient, IInv, TypeOK, PhasesAgree, PhaseAgrees, CandidatePhases
<1>8. LockCoversUse'
  BY <1>1, <1>2, SentinelAssumption DEF ActivateClient, IInv, TypeOK, PartsAreSeparate,
        RefersToOwnWorkers, RepairIsUnguarded, LockCoversUse, UsesUnderLock
<1>9. NoWorkerLeaks'
  BY <1>1, SentinelAssumption DEF ActivateClient, IInv, TypeOK, NoWorkerLeaks, RefersToOwnWorkers, PartsAreSeparate
<1>10. RepairIsUnguarded'
  BY <1>1, <1>2, SentinelAssumption DEF ActivateClient, IInv, TypeOK, PartsAreSeparate,
        RefersToOwnWorkers, PhasesAgree, PhaseAgrees, RepairIsUnguarded
<1>11. QED BY <1>3, <1>4, <1>5, <1>6, <1>7, <1>8, <1>9, <1>10 DEF IInv

\* The released lock covered no use: neither client nor candidate is open.
LEMMA ConnectFailsWithoutClientKeepsIInv ==
  ASSUME IInv, NEW t \in Tabs, ConnectFailsWithoutClient(t) PROVE IInv'
<1>1. /\ client[t] = NoWorker
      /\ candidate[t] = NoWorker
      /\ retained[t] = NoWorker
  BY SentinelAssumption DEF ConnectFailsWithoutClient, IInv, TypeOK, RefersToOwnWorkers, PartsAreSeparate,
        PhasesAgree, PhaseAgrees, CandidatePhases, Operation, ReleaseLock
<1>2. /\ op' \in [Tabs -> Operation]
      /\ op'[t].phase = "idle"
      /\ op'[t].then = "idle"
      /\ ~op'[t].covered
      /\ \A u \in Tabs : u # t => op'[u] = op[u]
  BY EndEffect DEF ConnectFailsWithoutClient, IInv, TypeOK
<1>3. TypeOK'
  BY <1>1, <1>2, SentinelAssumption DEF ConnectFailsWithoutClient, IInv, TypeOK, ReleaseLock
<1>4. LockHasOneHolder'
  BY DEF ConnectFailsWithoutClient, IInv, TypeOK, LockHasOneHolder, ReleaseLock
<1>5. RefersToOwnWorkers'
  BY <1>1, SentinelAssumption DEF ConnectFailsWithoutClient, IInv, TypeOK, RefersToOwnWorkers, PartsAreSeparate, ReleaseLock
<1>6. PartsAreSeparate'
  BY <1>1, SentinelAssumption DEF ConnectFailsWithoutClient, IInv, TypeOK, RefersToOwnWorkers, PartsAreSeparate, ReleaseLock
<1>7. PhasesAgree'
  BY <1>1, <1>2, SentinelAssumption DEF ConnectFailsWithoutClient, IInv, TypeOK, PhasesAgree, PhaseAgrees, CandidatePhases, ReleaseLock
<1>8. LockCoversUse'
  BY <1>1, <1>2, SentinelAssumption DEF ConnectFailsWithoutClient, IInv, TypeOK, PartsAreSeparate,
        RefersToOwnWorkers, RepairIsUnguarded, LockCoversUse, UsesUnderLock, ReleaseLock
<1>9. NoWorkerLeaks'
  BY <1>1, SentinelAssumption DEF ConnectFailsWithoutClient, IInv, TypeOK, NoWorkerLeaks, RefersToOwnWorkers, PartsAreSeparate, ReleaseLock
<1>10. RepairIsUnguarded'
  BY <1>1, <1>2, SentinelAssumption DEF ConnectFailsWithoutClient, IInv, TypeOK, PartsAreSeparate,
        RefersToOwnWorkers, PhasesAgree, PhaseAgrees, RepairIsUnguarded, ReleaseLock
<1>11. QED BY <1>3, <1>4, <1>5, <1>6, <1>7, <1>8, <1>9, <1>10 DEF IInv

\* A granted lock was free, and the tab that gives one up uses nothing under it.
LEMMA AcquireLockKeepsIInv ==
  ASSUME IInv, NEW t \in Tabs, AcquireLock(t) PROVE IInv'
<1>1. /\ client[t] = NoWorker
      /\ candidate[t] = NoWorker
      /\ retained[t] = NoWorker
      /\ op[t].inbox \in Inboxes \cup {NoInbox}
  BY SentinelAssumption DEF AcquireLock, IInv, TypeOK, RefersToOwnWorkers, PartsAreSeparate,
        PhasesAgree, PhaseAgrees, CandidatePhases, Operation
<1>2. /\ op' \in [Tabs -> Operation]
      /\ op'[t].phase = "opening"
      /\ op'[t].inbox = op[t].inbox
      /\ op'[t].then = op[t].then
      /\ \A u \in Tabs : u # t => op'[u] = op[u]
  BY PlanAssumption DEF AcquireLock, Suspend, Operation, IInv, TypeOK
<1>3. TypeOK'
  BY <1>1, <1>2, SentinelAssumption DEF AcquireLock, IInv, TypeOK
<1>4. LockHasOneHolder'
  BY DEF AcquireLock, IInv, TypeOK, LockHasOneHolder
<1>5. RefersToOwnWorkers'
  BY <1>1, SentinelAssumption DEF AcquireLock, IInv, TypeOK, RefersToOwnWorkers, PartsAreSeparate
<1>6. PartsAreSeparate'
  BY <1>1, SentinelAssumption DEF AcquireLock, IInv, TypeOK, RefersToOwnWorkers, PartsAreSeparate
<1>7. PhasesAgree'
  BY <1>1, <1>2, SentinelAssumption DEF AcquireLock, IInv, TypeOK, PhasesAgree, PhaseAgrees, CandidatePhases
<1>8. LockCoversUse'
  BY <1>1, <1>2, SentinelAssumption DEF AcquireLock, IInv, TypeOK, PartsAreSeparate,
        RefersToOwnWorkers, RepairIsUnguarded, LockCoversUse, UsesUnderLock
<1>9. NoWorkerLeaks'
  BY <1>1, SentinelAssumption DEF AcquireLock, IInv, TypeOK, NoWorkerLeaks, RefersToOwnWorkers, PartsAreSeparate
<1>10. RepairIsUnguarded'
  BY <1>1, <1>2, SentinelAssumption DEF AcquireLock, IInv, TypeOK, PartsAreSeparate,
        RefersToOwnWorkers, PhasesAgree, PhaseAgrees, RepairIsUnguarded
<1>11. QED BY <1>3, <1>4, <1>5, <1>6, <1>7, <1>8, <1>9, <1>10 DEF IInv

\* Opening a fresh worker as the candidate keeps the invariant when the tab has
\* neither client nor candidate: connect opens under its lock, the others
\* without one.
LEMMA OpenWorkerKeepsIInv ==
  ASSUME IInv, NEW t \in Tabs, NEW w \in Workers,
         OpenWorker(t, op[t].inbox, w, op[t].covered),
         op[t].inbox \in Inboxes, client[t] = NoWorker, candidate[t] = NoWorker,
         UNCHANGED <<client, retained, closePending, abandoned, lock>>,
         op' \in [Tabs -> Operation],
         op'[t].covered = op[t].covered, op'[t].inbox = op[t].inbox,
         \A u \in Tabs : u # t => op'[u] = op[u],
         op'[t].phase \in RepairPhases \cup BorrowPhases => ~op[t].covered,
         PhaseAgrees(t)'
  PROVE  IInv'
<1> USE SentinelAssumption
<1>1. PICK opened \in OpenDatabase :
        opened = [tab |-> t, inbox |-> op[t].inbox, guarded |-> op[t].covered]
  BY DEF OpenDatabase, IInv, TypeOK, Operation
<1>2. /\ opened # Closed
      /\ opened.tab = t /\ opened.inbox = op[t].inbox /\ opened.guarded = op[t].covered
  BY <1>1 DEF OpenDatabase
<1>3. /\ db[w] = Closed
      /\ db' = [db EXCEPT ![w] = opened]
      /\ candidate' = [candidate EXCEPT ![t] = w]
  BY <1>1 DEF OpenWorker
<1>4. \A u \in Tabs : w # client[u] /\ w # candidate[u] /\ w # retained[u] /\ w \notin abandoned[u]
  BY <1>3 DEF IInv, RefersToOwnWorkers
<1>5. TypeOK'
  BY <1>2, <1>3 DEF IInv, TypeOK
<1>6. LockHasOneHolder'
  BY DEF IInv, LockHasOneHolder
<1>7. RefersToOwnWorkers'
  BY <1>2, <1>3, <1>4 DEF IInv, TypeOK, RefersToOwnWorkers
<1>8. PartsAreSeparate'
  BY <1>3, <1>4 DEF IInv, TypeOK, PartsAreSeparate
<1>9. PhasesAgree'
  BY <1>3 DEF IInv, TypeOK, PhasesAgree, PhaseAgrees
<1>10. LockCoversUse'
  <2>1. ASSUME NEW u \in Tabs
        PROVE  op'[u].covered => lock'[u] = op'[u].inbox /\ closePending'[u] = NoWorker
    BY DEF IInv, LockCoversUse
  <2>2. ASSUME NEW u \in Tabs, NEW i \in Inboxes, UsesUnderLock(u, i)'
        PROVE  lock'[u] = i /\ closePending'[u] = NoWorker
    <3>1. CASE u = t
      BY <1>2, <1>3, <2>2, <3>1 DEF IInv, TypeOK, LockCoversUse, UsesUnderLock
    <3>2. CASE u # t
      BY <1>3, <1>4, <2>2, <3>2 DEF IInv, TypeOK, LockCoversUse, UsesUnderLock
    <3>3. QED BY <3>1, <3>2
  <2>3. QED BY <2>1, <2>2 DEF LockCoversUse
<1>11. RepairIsUnguarded'
  BY <1>2, <1>3, <1>4 DEF IInv, TypeOK, RepairIsUnguarded
<1>12. NoWorkerLeaks'
  BY <1>2, <1>3, <1>4 DEF IInv, TypeOK, NoWorkerLeaks
<1>13. QED BY <1>5, <1>6, <1>7, <1>8, <1>9, <1>10, <1>11, <1>12 DEF IInv

\* Connect opens under the lock it was granted, if it was.
LEMMA OpenDatabaseAttemptKeepsIInv ==
  ASSUME IInv, NEW t \in Tabs, NEW w \in Workers, OpenDatabaseAttempt(t, w) PROVE IInv'
<1>1. /\ op' \in [Tabs -> Operation]
      /\ op'[t].phase = "verifying"
      /\ op'[t].covered = op[t].covered /\ op'[t].inbox = op[t].inbox
      /\ op'[t].then = op[t].then
      /\ \A u \in Tabs : u # t => op'[u] = op[u]
  BY GotoEffect DEF OpenDatabaseAttempt, IInv, TypeOK
<1>2. /\ client[t] = NoWorker /\ candidate[t] = NoWorker /\ op[t].inbox \in Inboxes
      /\ candidate'[t] # NoWorker
  BY SentinelAssumption DEF OpenDatabaseAttempt, OpenWorker, IInv, TypeOK,
        PhasesAgree, PhaseAgrees, CandidatePhases
<1>3. PhaseAgrees(t)'
  BY <1>1, <1>2 DEF OpenDatabaseAttempt, IInv, PhasesAgree, PhaseAgrees, CandidatePhases
<1>4. QED BY <1>1, <1>2, <1>3, OpenWorkerKeepsIInv DEF OpenDatabaseAttempt

\* A repair opens a worker without the lock.
LEMMA OpenRepairCandidateKeepsIInv ==
  ASSUME IInv, NEW t \in Tabs, NEW w \in Workers, OpenRepairCandidate(t, w) PROVE IInv'
<1>1. /\ op' \in [Tabs -> Operation]
      /\ op'[t].phase \in {"session", "reopened"}
      /\ op'[t].covered = op[t].covered /\ op'[t].inbox = op[t].inbox
      /\ op'[t].then = op[t].then
      /\ \A u \in Tabs : u # t => op'[u] = op[u]
  BY GotoEffect DEF OpenRepairCandidate, IInv, TypeOK
<1>2. /\ client[t] = NoWorker /\ candidate[t] = NoWorker /\ op[t].inbox \in Inboxes
      /\ op[t].covered = FALSE /\ candidate'[t] # NoWorker
  BY SentinelAssumption DEF OpenRepairCandidate, OpenWorker, IInv, TypeOK, Operation,
        PhasesAgree, PhaseAgrees, CandidatePhases
<1>3. PhaseAgrees(t)'
  BY <1>1, <1>2 DEF OpenRepairCandidate, IInv, PhasesAgree, PhaseAgrees, CandidatePhases
<1>4. OpenWorker(t, op[t].inbox, w, op[t].covered)
  BY <1>2 DEF OpenRepairCandidate
<1>5. QED BY <1>1, <1>2, <1>3, <1>4, OpenWorkerKeepsIInv DEF OpenRepairCandidate

\* Provisioning opens a worker without the lock.
LEMMA BorrowWorkerKeepsIInv ==
  ASSUME IInv, NEW t \in Tabs, NEW w \in Workers, BorrowWorker(t, w) PROVE IInv'
<1>1. /\ op' \in [Tabs -> Operation]
      /\ op'[t].phase = "borrowed"
      /\ op'[t].covered = op[t].covered /\ op'[t].inbox = op[t].inbox
      /\ op'[t].then = op[t].then
      /\ \A u \in Tabs : u # t => op'[u] = op[u]
  BY GotoEffect DEF BorrowWorker, IInv, TypeOK
<1>2. /\ client[t] = NoWorker /\ candidate[t] = NoWorker /\ op[t].inbox \in Inboxes
      /\ op[t].covered = FALSE /\ candidate'[t] # NoWorker
  BY SentinelAssumption DEF BorrowWorker, OpenWorker, IInv, TypeOK, Operation,
        PhasesAgree, PhaseAgrees, CandidatePhases
<1>3. PhaseAgrees(t)'
  BY <1>1, <1>2 DEF BorrowWorker, IInv, PhasesAgree, PhaseAgrees, CandidatePhases
<1>4. OpenWorker(t, op[t].inbox, w, op[t].covered)
  BY <1>2 DEF BorrowWorker
<1>5. QED BY <1>1, <1>2, <1>3, <1>4, OpenWorkerKeepsIInv DEF BorrowWorker

\* Provisioning ends with its worker closed, or starts over without one.
LEMMA ReturnWorkerKeepsIInv ==
  ASSUME IInv, NEW t \in Tabs, ReturnWorker(t) PROVE IInv'
<1> USE SentinelAssumption
<1>1. /\ candidate[t] \in Workers
      /\ client[t] = NoWorker
      /\ op[t].covered = FALSE
      /\ op[t].then # "idle" /\ op[t].inbox \in Inboxes
  BY DEF ReturnWorker, IInv, TypeOK, PhasesAgree, PhaseAgrees, CandidatePhases, Operation
<1>2. /\ op' \in [Tabs -> Operation]
      /\ op'[t].phase \in {"borrowing", "idle"}
      /\ ~op'[t].covered
      /\ op'[t].phase = "idle" => op'[t].then = "idle"
      /\ op'[t].phase = "borrowing" => op'[t].then = op[t].then /\ op'[t].inbox = op[t].inbox
      /\ \A u \in Tabs : u # t => op'[u] = op[u]
  <2>1. CASE Goto(t, "borrowing")
    BY <1>1, <2>1, GotoEffect DEF IInv, TypeOK
  <2>2. CASE Goto(t, "idle")
    BY <2>2, EndEffect DEF IInv, TypeOK
  <2>3. QED BY <2>1, <2>2 DEF ReturnWorker
<1>3. TypeOK'
  BY <1>1, <1>2 DEF ReturnWorker, IInv, TypeOK, CloseWorker
<1>4. LockHasOneHolder'
  BY DEF ReturnWorker, IInv, LockHasOneHolder
<1>5. RefersToOwnWorkers'
  BY <1>1 DEF ReturnWorker, IInv, TypeOK, RefersToOwnWorkers, PartsAreSeparate, CloseWorker
<1>6. PartsAreSeparate'
  BY <1>1 DEF ReturnWorker, IInv, TypeOK, RefersToOwnWorkers, PartsAreSeparate
<1>7. PhasesAgree'
  BY <1>1, <1>2 DEF ReturnWorker, IInv, TypeOK, PhasesAgree, PhaseAgrees, CandidatePhases
<1>8. LockCoversUse'
  BY <1>1, <1>2 DEF ReturnWorker, IInv, TypeOK, RefersToOwnWorkers, LockCoversUse, UsesUnderLock, CloseWorker
<1>9. NoWorkerLeaks'
  BY <1>1 DEF ReturnWorker, IInv, TypeOK, NoWorkerLeaks, RefersToOwnWorkers, PartsAreSeparate, CloseWorker
<1>10. RepairIsUnguarded'
  BY <1>1, <1>2 DEF ReturnWorker, IInv, TypeOK, PartsAreSeparate,
        RefersToOwnWorkers, PhasesAgree, PhaseAgrees, RepairIsUnguarded, CloseWorker
<1>11. QED BY <1>3, <1>4, <1>5, <1>6, <1>7, <1>8, <1>9, <1>10 DEF IInv

\* A close that settles late frees a worker nobody uses; the lock it may
\* release covers no use, because a tab with a pending close uses nothing
\* under it.
LEMMA LateCloseKeepsIInv ==
  ASSUME IInv, NEW t \in Tabs, NEW w \in Workers, LateClose(t, w) PROVE IInv'
<1> USE SentinelAssumption
<1>1. \A u \in Tabs : w # client[u] /\ w # candidate[u] /\ w # retained[u]
  BY DEF LateClose, IInv, TypeOK, RefersToOwnWorkers, PartsAreSeparate
<1>2. /\ \A u \in Tabs : u # t => closePending'[u] = closePending[u] /\ lock'[u] = lock[u]
      /\ \/ closePending[t] = w /\ closePending'[t] = NoWorker /\ lock'[t] = NoInbox
         \/ closePending'[t] = closePending[t] /\ lock'[t] = lock[t]
  BY DEF LateClose, ReleaseLock, IInv, TypeOK
<1>3. /\ db' = [db EXCEPT ![w] = Closed]
      /\ abandoned' = [abandoned EXCEPT ![t] = @ \ {w}]
      /\ UNCHANGED <<op, client, candidate, retained>>
  BY DEF LateClose, CloseWorker
<1>4. TypeOK'
  BY <1>3 DEF LateClose, ReleaseLock, IInv, TypeOK
<1>5. LockHasOneHolder'
  BY <1>2 DEF IInv, LockHasOneHolder
<1>6. RefersToOwnWorkers'
  <2>1. \A u \in Tabs : u # t => w \notin abandoned[u]
    BY DEF LateClose, IInv, RefersToOwnWorkers
  <2>2. QED BY <1>1, <1>3, <2>1 DEF IInv, TypeOK, RefersToOwnWorkers
<1>7. PartsAreSeparate'
  BY <1>3 DEF IInv, TypeOK, PartsAreSeparate
<1>8. PhasesAgree'
  BY <1>3 DEF IInv, PhasesAgree, PhaseAgrees
<1>9. LockCoversUse'
  BY <1>1, <1>2, <1>3 DEF IInv, TypeOK, LockCoversUse, UsesUnderLock
<1>10. RepairIsUnguarded'
  BY <1>1, <1>3 DEF IInv, TypeOK, RepairIsUnguarded
<1>11. NoWorkerLeaks'
  BY <1>1, <1>3 DEF IInv, TypeOK, NoWorkerLeaks
<1>12. QED BY <1>4, <1>5, <1>6, <1>7, <1>8, <1>9, <1>10, <1>11 DEF IInv

\* A reload ends exactly the reloading tab's workers and its lock.
LEMMA ReloadKeepsIInv ==
  ASSUME IInv, NEW t \in Tabs, Reload(t) PROVE IInv'
<1> USE SentinelAssumption
<1>1. /\ op' \in [Tabs -> Operation]
      /\ op'[t].phase = "idle" /\ op'[t].then = "idle" /\ ~op'[t].covered
      /\ \A u \in Tabs : u # t => op'[u] = op[u]
  BY DEF Reload, Idle, Operation, IInv, TypeOK
<1>2. /\ client'[t] = NoWorker /\ candidate'[t] = NoWorker /\ retained'[t] = NoWorker
      /\ closePending'[t] = NoWorker /\ abandoned'[t] = {} /\ lock'[t] = NoInbox
  BY DEF Reload, ReleaseLock, IInv, TypeOK
<1>3. \A u \in Tabs : u # t =>
        /\ client'[u] = client[u] /\ candidate'[u] = candidate[u] /\ retained'[u] = retained[u]
        /\ closePending'[u] = closePending[u] /\ abandoned'[u] = abandoned[u]
        /\ lock'[u] = lock[u]
  BY DEF Reload, ReleaseLock, IInv, TypeOK
<1>4. /\ \A w \in Workers : db'[w] # Closed <=> db[w] # Closed /\ db[w].tab # t
      /\ \A w \in Workers : db'[w] # Closed => db'[w] = db[w]
      /\ db' \in [Workers -> OpenDatabase \cup {Closed}]
  BY DEF Reload, IInv, TypeOK
<1>5. TypeOK'
  BY <1>1, <1>4 DEF Reload, ReleaseLock, IInv, TypeOK
<1>6. LockHasOneHolder'
  BY <1>2, <1>3 DEF IInv, LockHasOneHolder
<1>7. RefersToOwnWorkers'
  <2> SUFFICES ASSUME NEW u \in Tabs, NEW w \in Workers,
                      \/ w = client'[u] \/ w = candidate'[u] \/ w = retained'[u]
                      \/ w \in abandoned'[u]
               PROVE  db'[w] # Closed /\ db'[w].tab = u
    BY DEF RefersToOwnWorkers
  <2>1. u # t
    BY <1>2
  <2>2. QED BY <1>3, <1>4, <2>1 DEF IInv, RefersToOwnWorkers
<1>8. PartsAreSeparate'
  BY <1>2, <1>3 DEF IInv, PartsAreSeparate
<1>9. PhasesAgree'
  BY <1>1, <1>2, <1>3 DEF IInv, PhasesAgree, PhaseAgrees, CandidatePhases
<1>10. LockCoversUse'
  <2> SUFFICES ASSUME NEW u \in Tabs
               PROVE  /\ op'[u].covered => lock'[u] = op'[u].inbox /\ closePending'[u] = NoWorker
                      /\ \A i \in Inboxes : UsesUnderLock(u, i)'
                           => lock'[u] = i /\ closePending'[u] = NoWorker
    BY DEF LockCoversUse
  <2>1. CASE u = t
    BY <1>1, <1>2, <2>1 DEF UsesUnderLock
  <2>2. CASE u # t
    BY <1>1, <1>3, <1>4, <2>2 DEF IInv, TypeOK, LockCoversUse, UsesUnderLock
  <2>3. QED BY <2>1, <2>2
<1>11. RepairIsUnguarded'
  <2> SUFFICES ASSUME NEW u \in Tabs
               PROVE  /\ retained'[u] # NoWorker => ~db'[retained'[u]].guarded
                      /\ op'[u].phase \in RepairPhases \cup BorrowPhases /\ candidate'[u] # NoWorker
                           => ~db'[candidate'[u]].guarded
    BY DEF RepairIsUnguarded
  <2>1. CASE u = t
    BY <1>2, <2>1
  <2>2. CASE u # t
    BY <1>1, <1>3, <1>4, <2>2 DEF IInv, TypeOK, RepairIsUnguarded, RefersToOwnWorkers
  <2>3. QED BY <2>1, <2>2
<1>12. NoWorkerLeaks'
  BY <1>3, <1>4 DEF IInv, TypeOK, NoWorkerLeaks, OpenDatabase
<1>13. QED BY <1>5, <1>6, <1>7, <1>8, <1>9, <1>10, <1>11, <1>12 DEF IInv
-----------------------------------------------------------------------------
\* Nothing is open, referred to or locked in an initial state.
LEMMA InitEstablishesIInv ==
  ASSUME Init PROVE IInv
<1> USE SentinelAssumption
<1>1. Idle \in Operation
  BY DEF Idle, Operation
<1>2. TypeOK
  BY <1>1 DEF Init, TypeOK
<1>3. LockHasOneHolder /\ RefersToOwnWorkers /\ PartsAreSeparate /\ NoWorkerLeaks
  BY DEF Init, LockHasOneHolder, RefersToOwnWorkers, PartsAreSeparate, NoWorkerLeaks
<1>4. PhasesAgree
  BY DEF Init, Idle, PhasesAgree, PhaseAgrees, CandidatePhases
<1>5. LockCoversUse /\ RepairIsUnguarded
  BY DEF Init, Idle, LockCoversUse, UsesUnderLock, RepairIsUnguarded
<1>6. QED BY <1>2, <1>3, <1>4, <1>5 DEF IInv

\* IInv is inductive: one case per action.
LEMMA NextKeepsIInv ==
  ASSUME IInv, [Next]_vars PROVE IInv'
<1>1. CASE UNCHANGED vars
  BY <1>1 DEF vars, IInv, TypeOK, LockHasOneHolder, RefersToOwnWorkers, PartsAreSeparate,
        PhasesAgree, PhaseAgrees, LockCoversUse, UsesUnderLock, RepairIsUnguarded, NoWorkerLeaks
<1>2. ASSUME NEW t \in Tabs, Request(t) PROVE IInv'
  BY <1>2, BeginDisconnectKeepsIInv, BeginConnectKeepsIInv, BeginRepairKeepsIInv,
     BeginBorrowKeepsIInv DEF Request
<1>3. ASSUME NEW t \in Tabs, DisconnectStep(t) PROVE IInv'
  BY <1>3, CloseRetainedSettlesKeepsIInv, CloseRetainedTimesOutKeepsIInv,
     CloseClientSettlesKeepsIInv, CloseClientTimesOutKeepsIInv DEF DisconnectStep
<1>4. ASSUME NEW t \in Tabs, ConnectStep(t) PROVE IInv'
  BY <1>4, ConnectFailsWithoutClientKeepsIInv, AcquireLockKeepsIInv, SkipLockKeepsIInv,
     OpenDatabaseAttemptKeepsIInv, ActivateClientKeepsIInv, TryOtherDatabaseKeepsIInv,
     SwapCloseSettlesKeepsIInv, VerificationFailsKeepsIInv, FailedClientCloseSettlesKeepsIInv,
     FailedClientCloseTimesOutKeepsIInv DEF ConnectStep
<1>5. ASSUME NEW t \in Tabs, RepairStep(t) PROVE IInv'
  BY <1>5, NothingRetainedKeepsIInv, TakeRetainedKeepsIInv, SupersededCloseSettlesKeepsIInv,
     SupersededCloseTimesOutKeepsIInv, OpenRepairCandidateKeepsIInv, RepairOpenFailsKeepsIInv,
     JournalCandidateKeepsIInv, ProveDurableKeepsIInv, DurabilityCloseSettlesKeepsIInv,
     RetainCandidateKeepsIInv, RepairFailsKeepsIInv, RepairCloseSettlesKeepsIInv DEF RepairStep
<1>6. ASSUME NEW t \in Tabs, BorrowStep(t) PROVE IInv'
  BY <1>6, BorrowWorkerKeepsIInv, ReturnWorkerKeepsIInv, BorrowFailsKeepsIInv DEF BorrowStep
<1>7. QED BY <1>1, <1>2, <1>3, <1>4, <1>5, <1>6, LateCloseKeepsIInv, ReloadKeepsIInv DEF Next

\* A use under the lock implies holding it, and the lock has one holder.
LEMMA IInvImpliesExclusiveUse ==
  ASSUME IInv PROVE LockedUseIsExclusive
BY SentinelAssumption DEF IInv, LockHasOneHolder, LockCoversUse, LockedUseIsExclusive

\* Outside provisioning, at most one of a tab's three references is a worker.
LEMMA IInvImpliesOneWorkerInUse ==
  ASSUME IInv PROVE OneWorkerInUse
<1> SUFFICES ASSUME NEW t \in Tabs, op[t].phase \notin BorrowPhases
             PROVE  Cardinality({<<"client", client[t]>>, <<"candidate", candidate[t]>>,
                                 <<"retained", retained[t]>>}
                      \ ({"client", "candidate", "retained"} \X {NoWorker})) <= 1
  BY DEF OneWorkerInUse
<1> DEFINE parts == {<<"client", client[t]>>, <<"candidate", candidate[t]>>,
                     <<"retained", retained[t]>>}
           inUse == parts \ ({"client", "candidate", "retained"} \X {NoWorker})
<1>1. /\ candidate[t] # NoWorker => client[t] = NoWorker /\ retained[t] = NoWorker
      /\ client[t] # NoWorker => retained[t] = NoWorker
  BY DEF IInv, PartsAreSeparate, PhasesAgree, PhaseAgrees, CandidatePhases
<1>2. inUse = {} \/ \E x : inUse = {x}
  <2>1. CASE candidate[t] # NoWorker
    <3>1. inUse = {<<"candidate", candidate[t]>>}
      BY <1>1, <2>1
    <3>2. QED BY <3>1
  <2>2. CASE candidate[t] = NoWorker /\ client[t] # NoWorker
    <3>1. inUse = {<<"client", client[t]>>}
      BY <1>1, <2>2
    <3>2. QED BY <3>1
  <2>3. CASE candidate[t] = NoWorker /\ client[t] = NoWorker /\ retained[t] # NoWorker
    <3>1. inUse = {<<"retained", retained[t]>>}
      BY <2>3
    <3>2. QED BY <3>1
  <2>4. CASE candidate[t] = NoWorker /\ client[t] = NoWorker /\ retained[t] = NoWorker
    <3>1. inUse = {}
      BY <2>4
    <3>2. QED BY <3>1
  <2>5. QED BY <2>1, <2>2, <2>3, <2>4
<1>3. Cardinality(inUse) \in {0, 1}
  <2>1. CASE inUse = {}
    BY <2>1, FS_EmptySet
  <2>2. CASE \E x : inUse = {x}
    <3>1. PICK x : inUse = {x}
      BY <2>2
    <3>2. Cardinality({x}) = 1
      BY FS_Singleton
    <3>3. QED BY <3>1, <3>2
  <2>3. QED BY <1>2, <2>1, <2>2
<1>4. QED BY <1>3

\* The inductive invariant holds of every reachable state.
THEOREM Invariance == Spec => []IInv
<1>1. Init => IInv
  BY InitEstablishesIInv
<1>2. IInv /\ [Next]_vars => IInv'
  BY NextKeepsIInv
<1>3. QED BY <1>1, <1>2, PTL DEF Spec

\* Every variable keeps its type.
THEOREM TypeCorrect == Spec => []TypeOK
<1>1. IInv => TypeOK
  BY DEF IInv
<1>2. QED BY <1>1, Invariance, PTL

\* No two tabs ever use databases of one inbox that both opened under the Web
\* Lock, for any number of tabs, inboxes and workers.
THEOREM ExclusiveUse == Spec => []LockedUseIsExclusive
<1>1. IInv => LockedUseIsExclusive
  BY IInvImpliesExclusiveUse
<1>2. QED BY <1>1, Invariance, PTL

\* No worker is ever left running without a reference that will close it.
THEOREM NoLeaks == Spec => []NoWorkerLeaks
<1>1. IInv => NoWorkerLeaks
  BY DEF IInv
<1>2. QED BY <1>1, Invariance, PTL

\* Outside provisioning and migration a tab never has two workers in use: a
\* connect or a repair closes or takes over the previous ones first.
THEOREM OneInUse == Spec => []OneWorkerInUse
<1>1. IInv => OneWorkerInUse
  BY IInvImpliesOneWorkerInUse
<1>2. QED BY <1>1, Invariance, PTL
=============================================================================
