------------------------- MODULE InstallationRepair -------------------------
(***************************************************************************)
(* One browser as an installation of one XMTP inbox: connecting with the   *)
(* saved installation, repairing a browser whose local key no longer       *)
(* matches (src/src/lib/xmtp/installation-repair.ts, driven by             *)
(* useAuth.repairCurrentInstallation and XmtpClient.repairInstallation),   *)
(* adding the browser to a wallet's inbox (device-provisioning.ts), and    *)
(* freeing a slot from another flow.                                       *)
(*                                                                         *)
(* An installation is its key.  A key that is not registered exists only   *)
(* in the worker that drew it: every open of an unregistered database      *)
(* draws another.  The journal is the stored Identity; each tab works with *)
(* a copy in memory.  A publication and a revocation the network accepted  *)
(* appear on the ledger some time later.                                   *)
(***************************************************************************)
EXTENDS Naturals, FiniteSets

CONSTANTS
  Tabs,
  Keys,       \* bound: installations this browser may draw, a set of numbers
  Others,     \* installations of other browsers of the inbox
  Limit,      \* XMTP_INSTALLATION_LIMIT
  MaxFaults,  \* bound: failed calls, reloads, lost or bypassed OPFS files
  None

\* The details of an InstallationRecoveryRequiredError.
Details ==
  [local : Keys \cup {None}, reg : BOOLEAN, visible : BOOLEAN, expected : Keys \cup {None},
   expVisible : BOOLEAN, full : BOOLEAN]

ASSUME RepairAssumption ==
  /\ Keys \subseteq Nat /\ Keys # {} /\ Keys \cap Others = {}
  /\ None \notin Keys \cup Others \cup Tabs \cup Details
  /\ Limit \in Nat \ {0} /\ MaxFaults \in Nat

VARIABLES
  signer,                    \* the account key is the recovery identifier
  ledger, landing, leaving,  \* the inbox state, and what is about to change it
  disk,                      \* the OPFS database: its key, once registered
  worker,                    \* the SDK worker that has a database open
  journal,                   \* the Identity in Dexie
  tab, faults,
  fellBack                   \* the SDK has used memory (bound: once)

VARIABLES                    \* history
  tries,   \* installations published since the repair was staged
  asked    \* installations another flow asked to remove (bound: one)

vars == <<signer, ledger, landing, leaving, disk, worker, journal, tab, faults,
          fellBack, tries, asked>>

NoWorker == [owner |-> None, id |-> None, reg |-> FALSE, memory |-> FALSE]
NoJournal == [id |-> None, stale |-> None, pending |-> FALSE]
NoSession == [prev |-> None, old |-> None, gone |-> FALSE, interrupted |-> None,
              cand |-> None, wallet |-> FALSE]
Start(j) == [at |-> "idle", mem |-> j, rec |-> None, s |-> NoSession]

Init ==
  /\ signer \in BOOLEAN
  /\ landing = {} /\ leaving = {} /\ worker = NoWorker /\ faults = 0 /\ fellBack = FALSE /\ tries = {} /\ asked = {}
  /\ LET first == CHOOSE k \in Keys : \A other \in Keys : k <= other
     IN \/ /\ journal = [NoJournal EXCEPT !.id = first] /\ disk = first
           /\ \E o \in SUBSET Others : ledger = o \cup {first}
        \/ journal = NoJournal /\ disk = None /\ ledger \in SUBSET Others
  /\ tab = [t \in Tabs |-> Start(journal)]
-----------------------------------------------------------------------------
At(t, step) == tab[t].at = step
Step(t, step) == tab' = [tab EXCEPT ![t].at = step]
Stops(t, r) == tab' = [tab EXCEPT ![t].at = "idle", ![t].rec = r, ![t].s = NoSession]
Visible(k) == k \in ledger
Full == Cardinality(ledger) >= Limit
Fault == faults < MaxFaults /\ faults' = faults + 1
Close(t) == IF worker.owner = t THEN NoWorker ELSE worker

\* Keys nothing refers to any more may be drawn again.
KeysOf(t) == {tab[t].mem.id, tab[t].mem.stale, tab[t].s.prev, tab[t].s.old,
              tab[t].s.interrupted, tab[t].s.cand}
             \cup (IF tab[t].rec = None THEN {} ELSE {tab[t].rec.local, tab[t].rec.expected})
InUse == ledger \cup landing \cup leaving \cup asked \cup tries
         \cup {disk, worker.id, journal.id, journal.stale} \cup UNION {KeysOf(t) : t \in Tabs}
Unused == Keys \ InUse
Drawn == CHOOSE k \in Unused : \A other \in Unused : k <= other

\* Client.create: OPFS lets one worker open the file.  The SDK may silently use
\* memory when it cannot.
OpenFile(t, w) ==
  /\ worker = NoWorker
  /\ \/ disk # None /\ w = [owner |-> t, id |-> disk, reg |-> TRUE, memory |-> FALSE]
     \/ /\ disk = None /\ Unused # {}
        /\ w = [owner |-> t, id |-> Drawn, reg |-> FALSE, memory |-> FALSE]
  /\ UNCHANGED <<faults, fellBack>>
OpenMemory(t, w) ==
  /\ worker = NoWorker /\ Unused # {} /\ ~fellBack /\ fellBack' = TRUE /\ Fault
  /\ w = [owner |-> t, id |-> Drawn, reg |-> FALSE, memory |-> TRUE]
Open(t, w) == OpenFile(t, w) \/ OpenMemory(t, w)
Workers == [owner : Tabs, id : Keys, reg : BOOLEAN, memory : BOOLEAN]

\* What the details say of worker w.
Recovery(w, expected) ==
  [local |-> w.id, reg |-> w.reg, visible |-> Visible(w.id),
   expected |-> expected, expVisible |-> Visible(expected), full |-> Full]

\* The key of an unregistered database is gone once it is closed: no id names it.
Closed(w) == IF w.reg THEN w ELSE [w EXCEPT !.id = None]

\* recordInstallationReady with the previous installation p.
Ready(j, id, p) == [j EXCEPT !.id = id, !.stale = IF p \in {None, id} THEN @ ELSE p]

-----------------------------------------------------------------------------
(* connectXmtpSafely: resume the saved installation or say what is wrong *)

Adoptable(w, expected) == expected # w.id /\ w.reg /\ Visible(w.id)
Resumable(w, expected) == expected \in {None, w.id} /\ w.reg /\ Visible(w.id)

\* onInstallationReady and, once connected, the completed identity.
Connect(t) == \E w \in Workers :
  /\ At(t, "idle") /\ tab[t].mem.id # None /\ Open(t, w)
  /\ Adoptable(w, tab[t].mem.id) \/ Resumable(w, tab[t].mem.id)
  /\ LET saved == [Ready(journal, w.id, tab[t].mem.id) EXCEPT !.pending = FALSE]
     IN /\ journal' = saved
        /\ tab' = [tab EXCEPT ![t] = [Start(saved) EXCEPT !.at = "ready"]]
  /\ worker' = w /\ tries' = {}
  /\ UNCHANGED <<signer, ledger, landing, leaving, disk, asked>>

ConnectRefused(t) == \E w \in Workers :
  /\ At(t, "idle") /\ tab[t].mem.id # None /\ Open(t, w)
  /\ ~Adoptable(w, tab[t].mem.id) /\ ~Resumable(w, tab[t].mem.id)
  /\ tab' = [tab EXCEPT ![t].rec = Recovery(Closed(w), tab[t].mem.id)]
  /\ UNCHANGED <<signer, ledger, landing, leaving, disk, worker, journal, tries, asked>>

Disconnect(t) ==
  /\ At(t, "ready") /\ Step(t, "idle") /\ worker' = NoWorker
  /\ UNCHANGED <<signer, ledger, landing, leaving, disk, journal, faults, fellBack, tries, asked>>
-----------------------------------------------------------------------------
(* repairCurrentInstallation *)

Repairing == {"opening", "inspecting", "preparing", "capacity", "removing",
              "registering", "publishing", "storing", "verifying", "reopening",
              "cleanup", "cleaning", "completing"}

\* getInstallationRecoveryView
CanRepair(t) ==
  LET r == tab[t].rec  m == tab[t].mem
  IN IF r.reg /\ ~r.visible THEN worker.owner = t
     ELSE /\ ~(m.pending /\ r.expVisible /\ r.expected = m.id /\ ~r.visible)
          /\ r.full => r.visible \/ (signer /\ (r.expVisible \/ (m.pending /\ m.stale # None)))

\* selectPreviousInstallationForRepair
Previous(j, r) == IF j.pending THEN (IF j.stale # None THEN j.stale ELSE r.expected)
                  ELSE IF j.id # r.local THEN j.id ELSE j.stale

\* The repair lock is taken only if no tab holds it; a retained worker is used
\* again when it is the one the details or the journal name.
BeginRepair(t) ==
  LET r == tab[t].rec  m == tab[t].mem
      prev == IF Previous(m, r) # None THEN Previous(m, r) ELSE r.expected
      again == worker.owner = t /\ worker.id \in {r.local, IF m.pending THEN m.id ELSE None}
  IN /\ At(t, "idle") /\ r # None /\ CanRepair(t)
     /\ \A u \in Tabs : tab[u].at \notin Repairing
     /\ worker' = IF again THEN worker ELSE Close(t)
     /\ tab' = [tab EXCEPT
          ![t].at = IF again THEN "inspecting" ELSE "opening",
          ![t].s = [NoSession EXCEPT !.prev = prev,
                      !.interrupted = IF m.pending THEN m.id ELSE None,
                      !.cand = IF again THEN worker.id ELSE None]]
     /\ UNCHANGED <<signer, ledger, landing, leaving, disk, journal, faults, fellBack, tries, asked>>

OpenCandidate(t) == \E w \in Workers :
  /\ At(t, "opening") /\ Open(t, w)
  /\ worker' = w /\ Step(t, "inspecting")
  /\ UNCHANGED <<signer, ledger, landing, leaving, disk, journal, tries, asked>>

CandidateChanged(t) == worker.id # tab[t].rec.local /\ (tab[t].rec.reg \/ tab[t].rec.visible)

\* Mutant: the interrupted candidate is looked for once, in the details.
LookOnce(t) == TRUE

\* requireInterruptedCandidateAbsent: ten reads, over which an accepted
\* publication is taken to settle.
InterruptedIsAbsent(t) ==
  tab[t].s.interrupted \in {None, worker.id} \/ tab[t].s.interrupted \notin ledger \cup landing

Inspect(t) ==
  /\ At(t, "inspecting") /\ ~CandidateChanged(t) /\ InterruptedIsAbsent(t)
  /\ Step(t, "preparing")
  /\ UNCHANGED <<signer, ledger, landing, leaving, disk, worker, journal, faults, fellBack, tries, asked>>

Predecessor(t) == IF tab[t].s.prev # worker.id /\ Visible(tab[t].s.prev)
                  THEN tab[t].s.prev ELSE None

\* prepareInstallationRepair up to onCandidateReady, which stages the candidate
\* unless another tab has changed the journal.
MayPrepare(t) ==
  /\ worker.reg => Visible(worker.id)
  /\ Full /\ ~Visible(worker.id) => signer /\ Predecessor(t) # None
  /\ journal.id = tab[t].mem.id

Prepare(t) ==
  LET old == Predecessor(t)
      staged == [id |-> worker.id, pending |-> TRUE,
                 stale |-> IF old # None THEN old ELSE Previous(journal, tab[t].rec)]
  IN /\ At(t, "preparing") /\ MayPrepare(t)
     /\ journal' = staged
     /\ tab' = [tab EXCEPT ![t].at = "capacity", ![t].mem = staged,
          ![t].s = [@ EXCEPT !.old = old, !.gone = tab[t].s.prev # None /\ old = None,
                             !.cand = worker.id]]
     /\ tries' = IF journal.pending THEN tries ELSE {}
     /\ UNCHANGED <<signer, ledger, landing, leaving, disk, worker, faults, fellBack, asked>>

\* At the limit the exact predecessor goes first, and only it.
HasSlot(t) == Visible(worker.id) \/ ~Full

EnoughSlots(t) ==
  /\ At(t, "capacity") /\ HasSlot(t) /\ Step(t, "registering")
  /\ UNCHANGED <<signer, ledger, landing, leaving, disk, worker, journal, faults, fellBack, tries, asked>>

\* Mutant: a known predecessor is always removed first.
RemovePredecessorFirst(t) ==
  LET old == tab[t].s.old
  IN /\ At(t, "capacity") /\ old # None /\ signer /\ Visible(old)
     /\ leaving' = leaving \cup {old} /\ Step(t, "removing")
     /\ UNCHANGED <<signer, ledger, landing, disk, worker, journal, faults, fellBack, tries, asked>>

RemovePredecessor(t) ==
  LET old == tab[t].s.old
  IN /\ At(t, "capacity") /\ ~HasSlot(t) /\ old # None /\ signer
     /\ \/ ~Visible(old) /\ UNCHANGED leaving
           /\ tab' = [tab EXCEPT ![t].at = "registering", ![t].s.gone = TRUE]
        \/ Visible(old) /\ leaving' = leaving \cup {old} /\ Step(t, "removing")
     /\ UNCHANGED <<signer, ledger, landing, disk, worker, journal, faults, fellBack, tries, asked>>

PredecessorRemoved(t) ==
  /\ At(t, "removing") /\ ~Visible(tab[t].s.old)
  /\ tab' = [tab EXCEPT ![t].at = "registering", ![t].s.gone = TRUE]
  /\ UNCHANGED <<signer, ledger, landing, leaving, disk, worker, journal, faults, fellBack, tries, asked>>

\* onInstallationReady of the repair
StillStaged(t, id) == journal.pending /\ journal.id = id

\* ensureClientRegistration, policy existing-inbox
BeginRegistration(t) ==
  /\ At(t, "registering")
  /\ \/ worker.reg /\ Step(t, "verifying")
     \/ ~worker.reg /\ HasSlot(t) /\ StillStaged(t, worker.id) /\ Step(t, "publishing")
  /\ UNCHANGED <<signer, ledger, landing, leaving, disk, worker, journal, faults, fellBack, tries, asked>>

\* client.register(): published, then stored.  The network keeps the limit.
Publishable(k) == k \in ledger \/ Cardinality(ledger \cup landing) < Limit
Publish(t) ==
  /\ At(t, "publishing") /\ Publishable(worker.id) /\ Step(t, "storing")
  /\ landing' = landing \cup ({worker.id} \ ledger)
  /\ tries' = IF tab[t].s.wallet THEN tries ELSE tries \cup {worker.id}
  /\ UNCHANGED <<signer, ledger, leaving, disk, worker, journal, faults, fellBack, asked>>

StoreRegistration(t) ==
  /\ At(t, "storing") /\ Step(t, "verifying")
  /\ worker' = [worker EXCEPT !.reg = TRUE]
  /\ disk' = IF worker.memory THEN disk ELSE worker.id
  /\ UNCHANGED <<signer, ledger, landing, leaving, journal, faults, fellBack, tries, asked>>

\* A rejected register(): the verification below decides.
RegisterThrows(t) ==
  /\ tab[t].at \in {"publishing", "storing"} /\ Fault /\ Step(t, "verifying")
  /\ UNCHANGED <<signer, ledger, landing, leaving, disk, worker, journal, fellBack, tries, asked>>

\* Mutant: success is reported without reopening the database.
VerifiedWithoutReopening(t) ==
  /\ At(t, "verifying") /\ ~tab[t].s.wallet /\ worker.reg /\ Visible(worker.id) /\ StillStaged(t, worker.id)
  /\ Step(t, "cleanup")
  /\ UNCHANGED <<signer, ledger, landing, leaving, disk, worker, journal, faults, fellBack, tries, asked>>

Verified(t) ==
  /\ At(t, "verifying") /\ ~tab[t].s.wallet /\ worker.reg /\ Visible(worker.id) /\ StillStaged(t, worker.id)
  /\ worker' = NoWorker /\ Step(t, "reopening")
  /\ UNCHANGED <<signer, ledger, landing, leaving, disk, journal, faults, fellBack, tries, asked>>

\* verifyCandidateDurability: a fresh worker must find the same installation.
Durable(t, w) == /\ w.id = tab[t].s.cand /\ w.reg /\ Visible(w.id)
                 /\ StillStaged(t, w.id)
Reopen(t) == \E w \in Workers :
  /\ At(t, "reopening") /\ Open(t, w) /\ Durable(t, w)
  /\ worker' = w /\ Step(t, "cleanup")
  /\ UNCHANGED <<signer, ledger, landing, leaving, disk, journal, tries, asked>>

NotDurable(t) == \E w \in Workers :
  /\ At(t, "reopening") /\ Open(t, w) /\ ~Durable(t, w)
  /\ worker' = IF w.id = tab[t].s.cand THEN w ELSE NoWorker
  /\ Stops(t, Recovery(Closed(w), tab[t].s.cand))
  /\ UNCHANGED <<signer, ledger, landing, leaving, disk, journal, tries, asked>>

\* Optional cleanup of the predecessor: it may not settle.
CleanUp(t) ==
  LET old == tab[t].s.old  done == old = None \/ tab[t].s.gone
  IN /\ At(t, "cleanup")
     /\ \/ done /\ Step(t, "completing") /\ UNCHANGED leaving
        \/ ~done /\ ~Visible(old) /\ UNCHANGED leaving
           /\ tab' = [tab EXCEPT ![t].at = "completing", ![t].s.gone = TRUE]
        \/ ~done /\ Visible(old) /\ ~signer /\ Step(t, "completing") /\ UNCHANGED leaving
        \/ ~done /\ Visible(old) /\ signer /\ Step(t, "cleaning")
           /\ leaving' = leaving \cup {old}
     /\ UNCHANGED <<signer, ledger, landing, disk, worker, journal, faults, fellBack, tries, asked>>

CleanedUp(t) ==
  /\ At(t, "cleaning")
  /\ tab' = [tab EXCEPT ![t].at = "completing", ![t].s.gone = ~Visible(tab[t].s.old)]
  /\ UNCHANGED <<signer, ledger, landing, leaving, disk, worker, journal, faults, fellBack, tries, asked>>

\* activateVerifiedClient, then the completed identity.
Complete(t) ==
  LET ready == [Ready(journal, tab[t].s.cand, None) EXCEPT !.pending = FALSE]
      saved == IF tab[t].s.gone THEN [ready EXCEPT !.stale = None] ELSE ready
  IN /\ At(t, "completing") /\ journal' = saved
     /\ tab' = [tab EXCEPT ![t] = [Start(saved) EXCEPT !.at = "ready"]]
     /\ tries' = {}
     /\ UNCHANGED <<signer, ledger, landing, leaving, disk, worker, faults, fellBack, asked>>
-----------------------------------------------------------------------------
(* How a repair ends early *)

\* A staged candidate keeps its worker for the next attempt.
Fails(t, r) ==
  /\ Stops(t, r)
  /\ worker' = IF worker.owner = t /\ worker.id = tab[t].s.cand THEN worker ELSE Close(t)
  /\ UNCHANGED <<signer, ledger, landing, leaving, disk, journal, fellBack, tries, asked>>

\* A check that refuses, with nothing wrong with the network.
Refused(t) ==
  /\ \/ At(t, "inspecting") /\ (CandidateChanged(t) \/ ~InterruptedIsAbsent(t))
     \/ At(t, "preparing") /\ ~MayPrepare(t)
     \/ At(t, "capacity") /\ ~HasSlot(t) /\ ~(signer /\ tab[t].s.old # None)
     \/ At(t, "removing") /\ Visible(tab[t].s.old)
     \/ At(t, "opening") /\ worker # NoWorker
     \/ At(t, "reopening") /\ worker # NoWorker
  /\ Fails(t, tab[t].rec) /\ UNCHANGED faults

\* ensureClientRegistration fails: the details are those of the candidate.
RegistrationRefused(t) ==
  /\ \/ At(t, "registering") /\ ~worker.reg /\ ~(HasSlot(t) /\ StillStaged(t, worker.id))
     \/ At(t, "publishing") /\ ~tab[t].s.wallet /\ ~Publishable(worker.id)
     \/ At(t, "verifying") /\ ~tab[t].s.wallet
        /\ ~(worker.reg /\ Visible(worker.id) /\ StillStaged(t, worker.id))
  /\ Fails(t, Recovery(worker, worker.id)) /\ UNCHANGED faults

CallFails(t) ==
  /\ tab[t].at \in {"inspecting", "preparing", "capacity", "completing"}
  /\ Fault /\ Fails(t, tab[t].rec)

Reload(t) ==
  /\ Fault /\ worker' = Close(t) /\ tab' = [tab EXCEPT ![t] = Start(journal)]
  /\ UNCHANGED <<signer, ledger, landing, leaving, disk, journal, fellBack, tries, asked>>
-----------------------------------------------------------------------------
(* addDeviceToExistingWalletInbox: the wallet registers this browser.  It    *)
(* names no known installation and stores no journal before the end.         *)

BeginProvision(t) ==
  /\ At(t, "idle") /\ journal.id = None /\ ~Full
  /\ tab' = [tab EXCEPT ![t].at = "provisioning", ![t].s = [NoSession EXCEPT !.wallet = TRUE],
                        ![t].rec = None]
  /\ UNCHANGED <<signer, ledger, landing, leaving, disk, worker, journal, faults, fellBack, tries, asked>>

OpenManager(t) == \E w \in Workers :
  /\ At(t, "provisioning") /\ Open(t, w)
  /\ worker' = w /\ tab' = [tab EXCEPT ![t].at = "admitting", ![t].s.cand = w.id]
  /\ UNCHANGED <<signer, ledger, landing, leaving, disk, journal, tries, asked>>

\* Mutant: the files are deleted under the worker.
AdmitWithoutClosing(t) ==
  /\ At(t, "admitting") /\ UNCHANGED worker
  /\ \/ ~worker.reg /\ HasSlot(t) /\ Step(t, "publishing") /\ UNCHANGED disk
     \/ worker.reg /\ Visible(worker.id) /\ Step(t, "verifying") /\ UNCHANGED disk
     \/ worker.reg /\ worker.id \notin ledger \cup landing
        /\ disk' = None /\ Step(t, "provisioning")
  /\ UNCHANGED <<signer, ledger, landing, leaving, journal, faults, fellBack, tries, asked>>

\* A registered database the ledger does not show is deleted, and opened anew.
Admit(t) ==
  /\ At(t, "admitting")
  /\ \/ ~worker.reg /\ HasSlot(t) /\ Step(t, "publishing") /\ UNCHANGED <<worker, disk>>
     \/ worker.reg /\ Visible(worker.id) /\ Step(t, "verifying") /\ UNCHANGED <<worker, disk>>
     \/ /\ worker.reg /\ worker.id \notin ledger \cup landing
        /\ worker' = NoWorker /\ disk' = None /\ Step(t, "provisioning")
  /\ UNCHANGED <<signer, ledger, landing, leaving, journal, faults, fellBack, tries, asked>>

\* The manager closes; the identity is stored before the connection proves it.
Provisioned(t) ==
  /\ At(t, "verifying") /\ tab[t].s.wallet /\ worker.reg /\ Visible(worker.id)
  /\ worker' = NoWorker /\ journal' = [NoJournal EXCEPT !.id = worker.id]
  /\ tab' = [tab EXCEPT ![t] = Start([NoJournal EXCEPT !.id = worker.id])]
  /\ UNCHANGED <<signer, ledger, landing, leaving, disk, faults, fellBack, tries, asked>>

ProvisionFails(t) ==
  /\ tab[t].s.wallet /\ worker.owner \in {t, None}
  /\ \/ At(t, "admitting") /\ ~worker.reg /\ ~HasSlot(t)
     \/ At(t, "publishing") /\ ~Publishable(worker.id)
     \/ At(t, "verifying") /\ ~(worker.reg /\ Visible(worker.id))
  /\ worker' = NoWorker /\ tab' = [tab EXCEPT ![t] = Start(journal)]
  /\ UNCHANGED <<signer, ledger, landing, leaving, disk, journal, faults, fellBack, tries, asked>>
-----------------------------------------------------------------------------
(* Other ways a slot is freed, and the world outside *)

\* Settings: a connected browser revokes another installation.
RevokeAnother(t) == \E k \in ledger \ {worker.id} :
  /\ At(t, "ready") /\ signer /\ Full /\ asked = {} /\ asked' = {k} /\ leaving' = leaving \cup {k}
  /\ UNCHANGED <<signer, ledger, landing, disk, worker, journal, tab, faults, fellBack, tries>>

\* revokeOldestInstallationsForIdentity, from onboarding at the limit.
RevokeOldest(t) == \E k \in ledger :
  /\ At(t, "idle") /\ journal.id = None /\ signer /\ Full /\ asked = {} /\ asked' = {k}
  /\ leaving' = leaving \cup {k}
  /\ UNCHANGED <<signer, ledger, landing, disk, worker, journal, tab, faults, fellBack, tries>>

PublicationSettles == \E k \in landing :
  /\ landing' = landing \ {k} /\ ledger' = ledger \cup {k}
  /\ UNCHANGED <<signer, leaving, disk, worker, journal, tab, faults, fellBack, tries, asked>>

RevocationSettles == \E k \in leaving :
  /\ leaving' = leaving \ {k} /\ ledger' = ledger \ {k}
  /\ UNCHANGED <<signer, landing, disk, worker, journal, tab, faults, fellBack, tries, asked>>

OtherJoins == \E k \in Others \ ledger :
  /\ ~Full /\ Cardinality(ledger \cup landing) < Limit /\ ledger' = ledger \cup {k}
  /\ UNCHANGED <<signer, landing, leaving, disk, worker, journal, tab, faults, fellBack, tries, asked>>

\* The browser evicts the origin's OPFS files; Dexie survives.
FilesAreEvicted ==
  /\ worker = NoWorker /\ disk # None /\ Fault /\ disk' = None
  /\ UNCHANGED <<signer, ledger, landing, leaving, worker, journal, tab, fellBack, tries, asked>>

TabStep(t) ==
  \/ Connect(t) \/ ConnectRefused(t) \/ Disconnect(t) \/ BeginRepair(t) \/ OpenCandidate(t)
  \/ Inspect(t) \/ Prepare(t) \/ EnoughSlots(t) \/ RemovePredecessor(t)
  \/ PredecessorRemoved(t) \/ BeginRegistration(t) \/ Publish(t) \/ StoreRegistration(t)
  \/ RegisterThrows(t) \/ Verified(t) \/ Reopen(t) \/ NotDurable(t) \/ CleanUp(t)
  \/ CleanedUp(t) \/ Complete(t) \/ Refused(t) \/ RegistrationRefused(t) \/ CallFails(t)
  \/ Reload(t) \/ BeginProvision(t) \/ OpenManager(t) \/ Admit(t) \/ Provisioned(t)
  \/ ProvisionFails(t) \/ RevokeAnother(t) \/ RevokeOldest(t)
WorldStep == PublicationSettles \/ RevocationSettles \/ OtherJoins \/ FilesAreEvicted

Next == WorldStep \/ \E t \in Tabs : TabStep(t)
Spec == Init /\ [][Next]_vars
-----------------------------------------------------------------------------
(* Properties *)

\* The types of the ledger, the database, the journal and the tabs; a worker with
\* a registered key outside memory has the database of that key open.
TypeOK ==
  /\ signer \in BOOLEAN /\ fellBack \in BOOLEAN /\ faults \in 0..MaxFaults
  /\ ledger \subseteq Keys \cup Others /\ leaving \subseteq Keys \cup Others
  /\ asked \subseteq Keys \cup Others /\ landing \cup tries \subseteq Keys /\ disk \in Keys \cup {None}
  /\ worker \in Workers \cup {NoWorker}
  /\ worker.reg /\ ~worker.memory => worker.id = disk
  /\ journal \in [id : Keys \cup {None}, stale : Keys \cup {None}, pending : BOOLEAN]
  /\ \A t \in Tabs : tab[t].at \in Repairing \cup {"idle", "ready", "provisioning", "admitting"}

\* However often a repair is interrupted and begun again, in whichever tab, it
\* never has two installations of its own on the ledger: what it published and
\* lost the key of is found before another is registered
\* (requireInterruptedCandidateAbsent, the journal and the retained worker).
OneCandidate == Cardinality(tries \cap (ledger \cup landing)) <= 1

\* A repair asks for a removal only when the inbox is full or the replacement
\* already works, and never for the installation whose key this browser holds.
RemovalStep ==
  \A t \in Tabs, k \in leaving' \ leaving : tab[t].at \in {"capacity", "cleanup"} =>
    k # disk /\ (Full \/ (disk # None /\ Visible(disk)))
PredecessorOutlivesReplacement == [][RemovalStep]_vars

\* A tab that reports a connection, after a repair too, has its installation in
\* the OPFS database and on the ledger, unless someone removed it there, and the
\* journal names it.
ReadyStep ==
  \A t \in Tabs : tab[t].at # "ready" /\ tab'[t].at = "ready" =>
    disk = journal'.id /\ worker'.id = disk /\ disk \in ledger \cup asked
SuccessIsDurable == [][ReadyStep]_vars
=============================================================================
