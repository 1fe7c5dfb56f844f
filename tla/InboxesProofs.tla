---------------------------- MODULE InboxesProofs ----------------------------
(***************************************************************************)
(* Theorems about the two components that keep the inboxes of a browser.   *)
(*                                                                         *)
(* InstallationRepair, for any tabs, keys, other installations, limit and  *)
(* number of faults.                                                       *)
(*                                                                         *)
(* InboxLifecycle, for any pages, inboxes, keyfiles, faults and acts of    *)
(* the user.                                                               *)
(***************************************************************************)
EXTENDS InstallationRepair, InboxLifecycle, FiniteSetTheorems, WellFoundedInduction, TLAPS

-----------------------------------------------------------------------------
(***************************************************************************)
(* InstallationRepair                                                      *)
(***************************************************************************)

(* What has a type *)

Ats == Repairing \cup {"idle", "ready", "provisioning", "admitting"}
Ids == Keys \cup {None}
Journals == [id : Ids, stale : Ids, pending : BOOLEAN]
Sessions ==
  [prev : Ids, old : Ids, gone : BOOLEAN, interrupted : Ids, cand : Ids, wallet : BOOLEAN]
TabStates == [at : Ats, mem : Journals, rec : Details \cup {None}, s : Sessions]

WorldTyped ==
  /\ signer \in BOOLEAN /\ fellBack \in BOOLEAN /\ faults \in 0..MaxFaults
  /\ ledger \subseteq Keys \cup Others /\ leaving \subseteq Keys \cup Others
  /\ asked \subseteq Keys \cup Others /\ landing \subseteq Keys /\ tries \subseteq Keys
  /\ disk \in Ids /\ worker \in Workers \cup {NoWorker}
  /\ journal \in Journals /\ (journal.pending => journal.id \in Keys)

TabsTyped ==
  /\ tab \in [Tabs -> TabStates]
  /\ \A t \in Tabs : tab[t].mem.pending => tab[t].mem.id \in Keys
-----------------------------------------------------------------------------
(* The inductive invariant *)

\* The steps at which a tab has the worker open ...
Owning ==
  {"ready", "admitting", "inspecting", "preparing", "capacity", "removing", "registering",
   "publishing", "storing", "verifying", "cleanup", "cleaning", "completing"}
\* ... those of a repair after its candidate was journaled ...
Staging ==
  {"capacity", "removing", "registering", "publishing", "storing", "verifying", "cleanup",
   "cleaning", "completing"}
\* ... and those after a fresh worker has found the candidate again.
Proven == {"ready", "cleanup", "cleaning", "completing"}

\* OPFS gives the file to one worker, of one tab.
OneOwner == \A t \in Tabs : tab[t].at \in Owning => worker.owner = t

\* A worker says of the file what the file holds.
FileIsWorker ==
  /\ worker.reg /\ ~worker.memory => worker.id = disk
  /\ worker # NoWorker /\ ~worker.reg /\ ~worker.memory => disk = None

\* What the step of a tab says about its session and its worker.
StepsAgree ==
  \A t \in Tabs :
    /\ tab[t].s.wallet
         => /\ tab[t].at \in {"provisioning", "admitting", "publishing", "storing", "verifying"}
            /\ tab[t].s.old = None /\ tab[t].rec = None
    /\ tab[t].at \in {"provisioning", "admitting"} => tab[t].s.wallet
    /\ tab[t].at \in {"publishing", "storing"} => ~worker.reg
    /\ tab[t].at \in Proven => worker.reg /\ ~worker.memory
    /\ tab[t].at \in {"opening", "inspecting", "preparing"}
         => tab[t].s.interrupted = IF tab[t].mem.pending THEN tab[t].mem.id ELSE None
    /\ tab[t].at \in {"idle", "ready"} => tab[t].s = NoSession

\* A staged candidate is the one the journal and the tab name as pending.
Staged ==
  \A t \in Tabs : ~tab[t].s.wallet =>
    /\ tab[t].at \in Staging =>
         journal.pending /\ journal.id = worker.id /\ tab[t].s.cand = worker.id
    /\ tab[t].at \in Staging \cup {"reopening"} =>
         tab[t].mem.pending /\ tab[t].mem.id = tab[t].s.cand

\* A key that is not registered is named as a pending candidate only.
PendingNames ==
  worker # NoWorker /\ ~worker.reg =>
    /\ journal.id = worker.id => journal.pending
    /\ \A t \in Tabs : tab[t].mem.id = worker.id => tab[t].mem.pending

\* What the repair has published and the network still has, or will have.
Live == ledger \cup landing
Candidates == tries \cap Live

\* The one candidate is the one the journal names, and a tab that knows that journal
\* knows that it is pending.
CandidateIsJournaled ==
  /\ \A j, k \in Candidates : j = k
  /\ journal.pending =>
       /\ Candidates \subseteq {journal.id}
       /\ \A t \in Tabs : Candidates # {} /\ tab[t].mem.id = journal.id => tab[t].mem.pending

\* Past its inspection a repair has made sure that the interrupted candidate is its own
\* or nowhere.
InterruptedWasFound ==
  \A t \in Tabs : tab[t].at = "preparing" =>
    tab[t].s.interrupted \in {None, worker.id} \/ tab[t].s.interrupted \notin Candidates

-----------------------------------------------------------------------------
(* What keeps the installation of this browser *)

\* The predecessor is not the candidate.
OldIsOther ==
  \A t \in Tabs :
    /\ tab[t].at \in Staging => tab[t].s.old # worker.id
    /\ tab[t].at = "reopening" => tab[t].s.old # tab[t].s.cand

\* Nobody repairs before an installation is journaled.
NothingToRepair ==
  /\ \A t \in Tabs : tab[t].at \in Repairing /\ ~tab[t].s.wallet => tab[t].rec # None
  /\ journal.id = None =>
       /\ journal.stale = None
       /\ \A t \in Tabs : tab[t].mem.id = None /\ tab[t].mem.stale = None /\ tab[t].rec = None

\* The details say that the file holds an installation the ledger does not show, and the
\* worker was closed: no repair begins with them.
Hopeless(t) ==
  /\ tab[t].rec.reg /\ ~tab[t].rec.visible
  /\ tab[t].at = "idle" /\ worker.owner # t

Asks(t) == tab[t].rec # None /\ ~Hopeless(t)

\* The installations that tab t may take for the predecessor.
NamedIn(t) == {tab[t].mem.id, tab[t].mem.stale, tab[t].rec.expected}

\* It was the candidate of tab t when its repair was interrupted.
WasCandidate(t, k) == tab[t].mem.pending /\ tab[t].mem.id = k

\* A tab that may repair has a key drawn since for its candidate, or does not know it, and
\* a wallet does not register the candidate of a repair.
NewKeysAreNew ==
  /\ worker # NoWorker /\ ~worker.reg =>
       /\ worker.id # disk
       /\ journal.stale = worker.id => journal.id = worker.id
       /\ \A t \in Tabs : tab[t].rec # None /\ worker.id \in NamedIn(t) => WasCandidate(t, worker.id)
  /\ \A t \in Tabs : tab[t].s.wallet /\ tab[t].at \in {"admitting", "publishing"} =>
       worker.reg \/ worker.id \notin tries

\* While the SDK has not used memory, the file is not a predecessor: a tab that may
\* repair has seen it missing, or registered it.
FileIsNoPredecessor ==
  ~fellBack /\ disk # None =>
    /\ journal.stale = disk => journal.id = disk
    /\ \A t \in Tabs : Asks(t) /\ disk \in NamedIn(t) => WasCandidate(t, disk)

\* Nor is it for a candidate in memory, unless it was interrupted itself and is nowhere.
MemoryKeepsFile ==
  worker.memory =>
    /\ worker.id # disk /\ fellBack
    /\ \A t \in Tabs : worker.owner = t /\ tab[t].rec # None /\ disk # None /\ disk \in Live =>
         /\ journal.stale = disk => journal.id = disk
         /\ disk \in NamedIn(t) \cup {tab[t].s.prev, tab[t].s.old}
              => tab[t].at = "inspecting" /\ tab[t].s.cand = None /\ WasCandidate(t, disk)

\* What a repair takes for the predecessor, and what it has not chosen yet.
PreviousIsNamed ==
  \A t \in Tabs :
    /\ tab[t].at \in {"opening", "inspecting", "preparing"} =>
         tab[t].s.prev \in NamedIn(t) \cup {None} /\ tab[t].s.old = None
    /\ tab[t].at = "opening" => tab[t].s.cand = None

\* No flow of this browser's own has the installation in the file, or one that may get
\* there, removed.
FileStays ==
  /\ disk # None => disk \notin leaving \ asked
  /\ worker # NoWorker /\ ~worker.reg => worker.id \notin leaving \ asked
  /\ \A t \in Tabs : tab[t].at \in Proven => disk \in ledger \cup asked

\* Another flow has asked to remove an installation that this browser holds: it did
\* before there was a journal, so that no repair has another predecessor.
Quiet == \A t \in Tabs : ~Asks(t)
Pure(a) ==
  /\ {journal.id, journal.stale} \subseteq {None, a}
  /\ \A t \in Tabs : {tab[t].mem.id, tab[t].mem.stale} \subseteq {None, a}
  /\ \A t \in Tabs : Asks(t) =>
       {tab[t].rec.expected, tab[t].s.prev, tab[t].s.old} \subseteq {None, a}
AtRisk(a) == disk = a \/ (worker.id = a /\ ~worker.reg)
AskedIsOwn ==
  /\ \A a, b \in asked : a = b
  /\ \A a \in asked : AtRisk(a) =>
       /\ ~fellBack \/ worker.memory => Quiet
       /\ ~fellBack => Pure(a)
       /\ Quiet \/ Pure(a)

RepairInv ==
  /\ WorldTyped /\ TabsTyped /\ OneOwner /\ FileIsWorker /\ StepsAgree /\ Staged
  /\ PendingNames /\ CandidateIsJournaled /\ InterruptedWasFound
  /\ OldIsOther /\ NothingToRepair /\ NewKeysAreNew /\ FileIsNoPredecessor
  /\ MemoryKeepsFile /\ PreviousIsNamed /\ FileStays /\ AskedIsOwn
-----------------------------------------------------------------------------
(* Drawing a key *)

\* The keys a worker draws from have a least one.
LEMMA HasLeast ==
  ASSUME NEW S, S \subseteq Nat, S # {}
  PROVE  \E k \in S : \A other \in S : k <= other
<1> DEFINE R == {ij \in Nat \X Nat : ij[1] < ij[2]}
<1>1. IsWellFoundedOn(R, Nat)
  BY NatLessThanWellFounded DEF OpToRel
<1>2. \A i, j \in Nat : i < j => <<i, j>> \in R
  OBVIOUS
<1> HIDE DEF R
<1>3. PICK k \in S : \A other \in S : <<other, k>> \notin R
  BY <1>1, WFMin
<1>4. ASSUME NEW other \in S PROVE k <= other
  <2>1. k \in Nat /\ other \in Nat /\ ~(other < k)
    BY <1>2, <1>3
  <2>2. QED BY <2>1
<1>5. QED BY <1>4

\* A key that nothing refers to.
Undrawn(k) ==
  /\ k \in Keys /\ k # None /\ k \notin ledger \cup landing \cup leaving \cup asked \cup tries
  /\ k \notin {disk, worker.id, journal.id, journal.stale}
  /\ \A u \in Tabs :
       /\ k \notin {tab[u].mem.id, tab[u].mem.stale, tab[u].s.prev, tab[u].s.old,
                    tab[u].s.interrupted, tab[u].s.cand}
       /\ tab[u].rec # None => k \notin {tab[u].rec.local, tab[u].rec.expected}

\* The key that is drawn is one of them.
LEMMA DrawnIsUndrawn ==
  ASSUME Unused # {} PROVE Undrawn(Drawn)
<1>1. Drawn \in Unused
  BY HasLeast, RepairAssumption DEF Unused, Drawn
<1>2. ASSUME NEW u \in Tabs PROVE Drawn \notin KeysOf(u)
  BY <1>1 DEF Unused, InUse
<1>3. \A u \in Tabs :
        /\ Drawn \notin {tab[u].mem.id, tab[u].mem.stale, tab[u].s.prev, tab[u].s.old,
                        tab[u].s.interrupted, tab[u].s.cand}
        /\ tab[u].rec # None => Drawn \notin {tab[u].rec.local, tab[u].rec.expected}
  BY <1>2 DEF KeysOf
<1>4. /\ Drawn \in Keys /\ Drawn \notin {disk, worker.id, journal.id, journal.stale}
      /\ Drawn \notin ledger \cup landing \cup leaving \cup asked \cup tries
  BY <1>1 DEF Unused, InUse
<1>5. QED BY <1>3, <1>4, RepairAssumption DEF Undrawn

\* What Client.create returns.
Opened(t, w) ==
  /\ worker = NoWorker /\ w \in Workers /\ w.owner = t
  /\ w.reg => ~w.memory /\ disk # None /\ w.id = disk
  /\ ~w.reg => Undrawn(w.id) /\ (w.memory \/ disk = None)
  /\ fellBack' = (fellBack \/ w.memory) /\ (w.memory => ~fellBack)
  /\ fellBack' \in BOOLEAN /\ faults' \in 0 .. MaxFaults

\* Opening the file, or memory, returns such a worker.
LEMMA OpenOpens ==
  ASSUME WorldTyped, NEW t \in Tabs, NEW w \in Workers, Open(t, w)
  PROVE  Opened(t, w)
<1>1. CASE OpenFile(t, w)
  <2>1. CASE disk # None /\ w = [owner |-> t, id |-> disk, reg |-> TRUE, memory |-> FALSE]
    BY <1>1, <2>1 DEF OpenFile, Opened, WorldTyped
  <2>2. CASE /\ disk = None /\ Unused # {}
             /\ w = [owner |-> t, id |-> Drawn, reg |-> FALSE, memory |-> FALSE]
    BY <1>1, <2>2, DrawnIsUndrawn DEF OpenFile, Opened, WorldTyped
  <2>3. QED BY <1>1, <2>1, <2>2 DEF OpenFile
<1>2. CASE OpenMemory(t, w)
  <2>1. faults' \in 0 .. MaxFaults
    BY <1>2, RepairAssumption DEF OpenMemory, Fault, WorldTyped
  <2>2. QED BY <1>2, <2>1, DrawnIsUndrawn DEF OpenMemory, Opened
<1>3. QED BY <1>1, <1>2 DEF Open
-----------------------------------------------------------------------------
(* How a tab changes *)

\* Only tab t does: it gets to step "to" with the journal m, the details r and the session s.
Moves(t, to, m, r, s) ==
  /\ \A u \in Tabs : u # t => tab'[u] = tab[u]
  /\ tab'[t].at = to /\ tab'[t].mem = m /\ tab'[t].rec = r /\ tab'[t].s = s

\* The parts of a tab have their types.
LEMMA TabHasType ==
  ASSUME TabsTyped, NEW t \in Tabs
  PROVE  /\ tab[t].at \in Ats /\ tab[t].mem \in Journals /\ tab[t].s \in Sessions
         /\ tab[t].rec \in Details \cup {None} /\ (tab[t].mem.pending => tab[t].mem.id \in Keys)
BY DEF TabsTyped, TabStates

\* A tab that is replaced moves ...
LEMMA TabMoves ==
  ASSUME TabsTyped, NEW t \in Tabs, NEW x \in TabStates, x.mem.pending => x.mem.id \in Keys,
         tab' = [tab EXCEPT ![t] = x]
  PROVE  TabsTyped' /\ Moves(t, x.at, x.mem, x.rec, x.s)
BY DEF TabsTyped, Moves

\* ... and so does one that gets to its next step ...
LEMMA StepMoves ==
  ASSUME TabsTyped, NEW t \in Tabs, NEW to \in Ats, Step(t, to)
  PROVE  TabsTyped' /\ Moves(t, to, tab[t].mem, tab[t].rec, tab[t].s)
<1> DEFINE x == [tab[t] EXCEPT !.at = to]
<1>1. x \in TabStates /\ x.at = to /\ x.mem = tab[t].mem /\ x.rec = tab[t].rec /\ x.s = tab[t].s
  BY DEF TabsTyped, TabStates
<1>2. tab' = [tab EXCEPT ![t] = x]
  BY DEF Step
<1> HIDE DEF x
<1>3. QED BY <1>1, <1>2, TabMoves, TabHasType

\* A session that names nothing.
LEMMA NoSessionIsEmpty ==
  /\ NoSession \in Sessions /\ NoSession.prev = None /\ NoSession.old = None
  /\ NoSession.interrupted = None /\ NoSession.cand = None /\ NoSession.wallet = FALSE
BY DEF NoSession, Sessions, Ids

\* ... one that starts again with a journal ...
LEMMA StartMoves ==
  ASSUME TabsTyped, NEW t \in Tabs, NEW to \in Ats, NEW j \in Journals,
         j.pending => j.id \in Keys, tab' = [tab EXCEPT ![t] = [Start(j) EXCEPT !.at = to]]
  PROVE  TabsTyped' /\ Moves(t, to, j, None, NoSession)
<1> DEFINE x == [Start(j) EXCEPT !.at = to]
<1>1. x \in TabStates /\ x.at = to /\ x.mem = j /\ x.rec = None /\ x.s = NoSession
      /\ tab' = [tab EXCEPT ![t] = x]
  BY NoSessionIsEmpty DEF Start, TabStates
<1> HIDE DEF x
<1>2. QED BY <1>1, TabMoves

\* ... one whose repair ends early ...
LEMMA StopMoves ==
  ASSUME TabsTyped, NEW t \in Tabs, NEW r \in Details \cup {None},
         Stops(t, r)
  PROVE  TabsTyped' /\ Moves(t, "idle", tab[t].mem, r, NoSession)
<1> DEFINE x == [tab[t] EXCEPT !.at = "idle", !.rec = r, !.s = NoSession]
<1>1. NoSession \in Sessions /\ "idle" \in Ats
  BY NoSessionIsEmpty DEF Ats
<1>2. x \in TabStates /\ x.at = "idle" /\ x.mem = tab[t].mem /\ x.rec = r /\ x.s = NoSession
  BY <1>1 DEF TabsTyped, TabStates
<1>3. tab' = [tab EXCEPT ![t] = x]
  BY DEF TabsTyped, Stops
<1> HIDE DEF x
<1>4. QED BY <1>2, <1>3, TabMoves, TabHasType

\* The same session but for what is known of the predecessor.
Continues(s, before) ==
  /\ s.prev = before.prev /\ s.old = before.old /\ s.interrupted = before.interrupted
  /\ s.cand = before.cand /\ s.wallet = before.wallet

\* ... and one that learns what became of the predecessor.
LEMMA GoneMoves ==
  ASSUME TabsTyped, NEW t \in Tabs, NEW to \in Ats, NEW lost \in BOOLEAN,
         tab' = [tab EXCEPT ![t].at = to, ![t].s.gone = lost]
  PROVE  /\ TabsTyped'
         /\ \E s \in Sessions :
              Continues(s, tab[t].s) /\ Moves(t, to, tab[t].mem, tab[t].rec, s)
<1> DEFINE s == [tab[t].s EXCEPT !.gone = lost]
           x == [tab[t] EXCEPT !.at = to, !.s = s]
<1>1. s \in Sessions /\ Continues(s, tab[t].s)
  BY TabHasType DEF Sessions, Continues
<1>2. tab' = [tab EXCEPT ![t] = x]
  BY DEF TabsTyped
<1> HIDE DEF s
<1>3. x \in TabStates /\ x.at = to /\ x.mem = tab[t].mem /\ x.rec = tab[t].rec /\ x.s = s
  BY <1>1 DEF TabsTyped, TabStates
<1> HIDE DEF x
<1>4. TabsTyped' /\ Moves(t, to, tab[t].mem, tab[t].rec, s)
  BY <1>2, <1>3, TabMoves, TabHasType
<1>5. QED BY <1>1, <1>4
-----------------------------------------------------------------------------
(* The removal another flow asked for *)

\* A step after which no other tab may repair, no other key is at risk and nothing else
\* is named keeps what is known of it.
LEMMA AskedIsKept ==
  ASSUME AskedIsOwn, MemoryKeepsFile, asked' = asked, fellBack \in BOOLEAN,
         ~fellBack \/ (fellBack' = fellBack /\ (worker'.memory => worker.memory)),
         \A u \in Tabs : Asks(u)' => Asks(u),
         \A a \in asked : AtRisk(a)' => AtRisk(a),
         \A a \in asked : AtRisk(a)' /\ Pure(a) /\ ~worker.memory => Pure(a)'
  PROVE  AskedIsOwn'
<1>1. Quiet => Quiet'
  BY DEF Quiet
<1>2. QED BY <1>1 DEF AskedIsOwn, MemoryKeepsFile
-----------------------------------------------------------------------------
(* The actions: connecting with the saved installation *)

\* The file holds the saved installation, or one that may be adopted: it was never a
\* predecessor of anything.
Connected(t, w) ==
  /\ journal' = [Ready(journal, w.id, tab[t].mem.id) EXCEPT !.pending = FALSE]
  /\ tab' = [tab EXCEPT ![t] = [Start(journal') EXCEPT !.at = "ready"]]

\* A connection that succeeds adopts the identity of the worker it opened.
LEMMA ConnectKeeps ==
  ASSUME RepairInv, NEW t \in Tabs, Connect(t)
  PROVE  RepairInv'
<1>1. PICK w \in Workers :
        /\ Opened(t, w) /\ tab[t].at = "idle" /\ tab[t].mem.id # None
        /\ w.reg /\ Visible(w.id) /\ worker' = w /\ tries' = {}
        /\ UNCHANGED <<signer, ledger, landing, leaving, disk, asked>>
        /\ Connected(t, w)
  BY OpenOpens DEF Connect, Connected, RepairInv, At, Adoptable, Resumable
<1>2. /\ journal' \in Journals /\ journal'.id = w.id /\ ~journal'.pending
      /\ journal'.stale \in {journal.stale, tab[t].mem.id}
      /\ journal'.stale = w.id => journal.stale = w.id
  BY <1>1, TabHasType DEF Connected, Ready, RepairInv, WorldTyped, Journals, Ids, Workers
<1>3. TabsTyped' /\ Moves(t, "ready", journal', None, NoSession)
  BY <1>1, <1>2, StartMoves DEF Connected, RepairInv, Ats
<1>4. w.owner = t /\ ~w.memory /\ w.id = disk /\ disk \in ledger
  BY <1>1 DEF Opened, Visible
<1>5. WorldTyped'
  BY <1>1, <1>2 DEF RepairInv, WorldTyped, Opened
<1>6. OneOwner' /\ StepsAgree' /\ Staged' /\ OldIsOther'
  BY <1>1, <1>3, RepairAssumption DEF RepairInv, Moves, OneOwner, Owning, StepsAgree, Staged, Staging,
       OldIsOther, NoWorker, Opened
<1>7. FileIsWorker' /\ MemoryKeepsFile' /\ FileStays'
  BY <1>1, <1>4 DEF RepairInv, FileIsWorker, MemoryKeepsFile, FileStays
<1>8. PendingNames' /\ CandidateIsJournaled' /\ InterruptedWasFound' /\ NewKeysAreNew'
  BY <1>1 DEF PendingNames, CandidateIsJournaled, InterruptedWasFound, Candidates, NewKeysAreNew
<1>9. NothingToRepair' /\ FileIsNoPredecessor'
  BY <1>1, <1>2, <1>3 DEF RepairInv, Moves, WorldTyped, NothingToRepair, Repairing,
       FileIsNoPredecessor, NamedIn, WasCandidate, Asks, Hopeless, Opened
<1>10. PreviousIsNamed'
  BY <1>3 DEF RepairInv, Moves, PreviousIsNamed, NamedIn
<1>11. AskedIsOwn'
  <2>1. \A u \in Tabs : Asks(u)' => Asks(u)
    BY <1>1, <1>3, <1>4 DEF Moves, Asks, Hopeless
  <2>2. ASSUME NEW a \in asked, AtRisk(a)', Pure(a) PROVE Pure(a)'
    <3>1. {journal.id, journal.stale}' \subseteq {None, a}
      BY <1>1, <1>2, <1>4, <2>2 DEF AtRisk, Pure
    <3>2. \A u \in Tabs : {tab[u].mem.id, tab[u].mem.stale}' \subseteq {None, a}
      BY <1>1, <1>2, <1>3, <1>4, <2>2 DEF Moves, AtRisk, Pure
    <3>3. \A u \in Tabs :
              Asks(u)' => {tab[u].rec.expected, tab[u].s.prev, tab[u].s.old}' \subseteq {None, a}
      BY <1>3, <2>1, <2>2 DEF Moves, Pure, Asks
    <3>4. QED BY <3>1, <3>2, <3>3 DEF Pure
  <2>3. QED
    BY <1>1, <2>1, <2>2, AskedIsKept DEF RepairInv, WorldTyped, AtRisk, Opened
<1>12. QED BY <1>3, <1>5, <1>6, <1>7, <1>8, <1>9, <1>10, <1>11 DEF RepairInv

\* The details say what is wrong; if the file is hopeless, no repair begins with them.
Detailed(t, r) == tab' = [tab EXCEPT ![t].rec = r]

\* A connection that is refused leaves its page with the details of the refusal.
LEMMA ConnectRefusedKeeps ==
  ASSUME RepairInv, NEW t \in Tabs, ConnectRefused(t)
  PROVE  RepairInv'
<1>1. PICK w \in Workers :
        /\ Opened(t, w) /\ tab[t].at = "idle" /\ tab[t].mem.id # None
        /\ ~Adoptable(w, tab[t].mem.id) /\ ~Resumable(w, tab[t].mem.id)
        /\ Detailed(t, Recovery(Closed(w), tab[t].mem.id))
        /\ UNCHANGED <<signer, ledger, landing, leaving, disk, worker, journal, tries, asked>>
  BY OpenOpens DEF ConnectRefused, Detailed, RepairInv, At
<1> DEFINE r == Recovery(Closed(w), tab[t].mem.id)
<1>2. /\ r \in Details /\ r.reg = w.reg /\ r.expected = tab[t].mem.id
      /\ r.reg => r.visible = (w.id \in ledger)
  <2>1. tab[t].mem.id \in Ids /\ Closed(w).id \in Ids /\ Closed(w).reg \in BOOLEAN
    BY <1>1, TabHasType DEF Closed, Workers, RepairInv, Journals, Ids
  <2>2. QED BY <1>1, <2>1 DEF Recovery, Closed, Visible, Details, Full, Ids, Workers
<1>3. Detailed(t, r)
  BY <1>1
<1> HIDE DEF r
<1>4. TabsTyped' /\ Moves(t, "idle", tab[t].mem, r, tab[t].s)
  <2> DEFINE x == [tab[t] EXCEPT !.rec = r]
  <2>1. x \in TabStates /\ x.at = "idle" /\ x.mem = tab[t].mem /\ x.rec = r /\ x.s = tab[t].s
    BY <1>1, <1>2 DEF RepairInv, TabsTyped, TabStates
  <2>2. tab' = [tab EXCEPT ![t] = x]
    BY <1>3 DEF RepairInv, TabsTyped, Detailed
  <2> HIDE DEF x
  <2>3. QED BY <2>1, <2>2, TabMoves, TabHasType DEF RepairInv
<1>5. TabsTyped' /\ Moves(t, "idle", tab[t].mem, r, NoSession) /\ tab[t].s = NoSession
  BY <1>1, <1>4 DEF RepairInv, StepsAgree
<1>6. w.reg => ~Asks(t)'
  BY <1>1, <1>2, <1>5, RepairAssumption
     DEF Moves, Asks, Hopeless, Opened, Adoptable, Resumable, Visible, NoWorker
<1>7. AskedIsOwn'
  <2>1. \A u \in Tabs : Asks(u)' => Asks(u) \/ (u = t /\ ~w.reg)
    BY <1>1, <1>5, <1>6, RepairAssumption DEF Moves, Asks, Hopeless
  <2>2. ASSUME NEW a \in asked, Pure(a) PROVE Pure(a)'
    <3>1. tab[t].mem.id \in {None, a}
      BY <2>2 DEF Pure
    <3>2. QED BY <1>1, <1>2, <1>5, <2>1, <2>2, <3>1, NoSessionIsEmpty DEF Moves, Pure
  <2>3. CASE w.reg
    BY <1>1, <2>1, <2>2, <2>3, AskedIsKept DEF RepairInv, WorldTyped, AtRisk, Opened
  <2>4. CASE ~w.reg
    <3>1. ASSUME NEW a \in asked, AtRisk(a)'
          PROVE  AtRisk(a) /\ ~fellBack /\ fellBack' /\ ~worker'.memory
      <4>1. a # None
        BY RepairAssumption DEF RepairInv, WorldTyped
      <4>2. QED BY <1>1, <2>4, <3>1, <4>1 DEF AtRisk, Opened, NoWorker
    <3>2. asked' = asked
      BY <1>1
    <3>3. QED BY <2>2, <3>1, <3>2 DEF RepairInv, AskedIsOwn
  <2>5. QED BY <2>3, <2>4
<1>8. WorldTyped' /\ FileIsWorker' /\ MemoryKeepsFile'
  BY <1>1 DEF RepairInv, WorldTyped, FileIsWorker, MemoryKeepsFile, NoWorker, Opened
<1>9. OneOwner' /\ StepsAgree' /\ Staged' /\ PendingNames'
  BY <1>1, <1>5 DEF RepairInv, Moves, OneOwner, StepsAgree, Staged, PendingNames
<1>10. CandidateIsJournaled' /\ InterruptedWasFound' /\ OldIsOther' /\ NewKeysAreNew'
  BY <1>1, <1>5 DEF RepairInv, Moves, CandidateIsJournaled, InterruptedWasFound, Candidates, Live,
       OldIsOther, NewKeysAreNew, Opened
<1>11. FileStays'
  BY <1>1, <1>5 DEF RepairInv, Moves, FileStays
<1>12. NothingToRepair'
  BY <1>1, <1>2, <1>5, RepairAssumption DEF RepairInv, Moves, NothingToRepair
<1>13. FileIsNoPredecessor'
  BY <1>1, <1>5, <1>6 DEF RepairInv, Moves, FileIsNoPredecessor, NamedIn, WasCandidate, Asks, Hopeless,
       Opened, Workers
<1>14. PreviousIsNamed'
  BY <1>5 DEF RepairInv, Moves, PreviousIsNamed, NamedIn
<1>15. QED BY <1>4, <1>5, <1>7, <1>8, <1>9, <1>10, <1>11, <1>12, <1>13, <1>14 DEF RepairInv

\* A disconnect closes the worker.
LEMMA DisconnectKeeps ==
  ASSUME RepairInv, NEW t \in Tabs, Disconnect(t)
  PROVE  RepairInv'
<1>1. /\ tab[t].at = "ready" /\ worker' = NoWorker
      /\ UNCHANGED <<signer, ledger, landing, leaving, disk, journal, fellBack, tries, asked>>
      /\ faults' \in 0 .. MaxFaults
  BY DEF Disconnect, At, RepairInv, WorldTyped
<1>2. TabsTyped' /\ Moves(t, "idle", tab[t].mem, tab[t].rec, tab[t].s)
  BY StepMoves DEF Disconnect, RepairInv, Ats, Repairing
<1>3. WorldTyped' /\ FileIsWorker' /\ PendingNames' /\ MemoryKeepsFile'
  BY <1>1 DEF RepairInv, WorldTyped, FileIsWorker, PendingNames, MemoryKeepsFile, NoWorker
<1>4. FileStays'
  BY <1>1 DEF RepairInv, Proven, FileStays
<1>5. OneOwner' /\ StepsAgree' /\ Staged' /\ CandidateIsJournaled'
  BY <1>1, <1>2 DEF RepairInv, Moves, OneOwner, Owning, StepsAgree, Proven, Staged, Staging,
       CandidateIsJournaled, Candidates, Live
<1>6. InterruptedWasFound' /\ OldIsOther' /\ NothingToRepair' /\ NewKeysAreNew'
  BY <1>1, <1>2 DEF RepairInv, Moves, OneOwner, Owning, Staging, InterruptedWasFound, OldIsOther,
       NothingToRepair, Repairing, NewKeysAreNew
<1>7. FileIsNoPredecessor'
  BY <1>1, <1>2, RepairAssumption DEF RepairInv, Moves, FileIsNoPredecessor, NamedIn, WasCandidate, Asks,
       Hopeless, NoWorker
<1>8. PreviousIsNamed'
  BY <1>2 DEF RepairInv, Moves, PreviousIsNamed, NamedIn
<1>9. AskedIsOwn'
  <2>1. \A u \in Tabs : Asks(u)' => Asks(u)
    BY <1>1, <1>2, RepairAssumption DEF Moves, Asks, Hopeless, NoWorker
  <2>2. ASSUME NEW a \in asked, AtRisk(a)', Pure(a) PROVE Pure(a)'
    BY <1>1, <1>2, <2>1, <2>2 DEF Moves, Pure
  <2>3. QED
    BY <1>1, RepairAssumption, <2>1, <2>2, AskedIsKept DEF RepairInv, WorldTyped, AtRisk, NoWorker
<1>10. QED BY <1>2, <1>3, <1>4, <1>5, <1>6, <1>7, <1>8, <1>9 DEF RepairInv
-----------------------------------------------------------------------------
(* The actions: a repair up to its candidate *)

\* A repair begins with details that are not hopeless, while no other tab repairs.
LEMMA BeginRepairKeeps ==
  ASSUME RepairInv, NEW t \in Tabs, BeginRepair(t)
  PROVE  RepairInv'
<1> DEFINE r == tab[t].rec
           m == tab[t].mem
           prev == IF Previous(m, r) # None THEN Previous(m, r) ELSE r.expected
           again == worker.owner = t /\ worker.id \in {r.local, IF m.pending THEN m.id ELSE None}
           s == [NoSession EXCEPT !.prev = prev, !.interrupted = IF m.pending THEN m.id ELSE None,
                                  !.cand = IF again THEN worker.id ELSE None]
           to == IF again THEN "inspecting" ELSE "opening"
           x == [tab[t] EXCEPT !.at = to, !.s = s]
<1>1. /\ tab[t].at = "idle" /\ tab[t].rec # None /\ CanRepair(t)
      /\ \A u \in Tabs : tab[u].at \notin Repairing
      /\ UNCHANGED <<signer, ledger, landing, leaving, disk, journal, faults, fellBack,
                     tries, asked>>
  BY DEF BeginRepair, At
<1>2. r \in Details /\ m \in Journals /\ prev \in NamedIn(t) /\ prev \in Ids
  BY <1>1, TabHasType DEF Previous, RepairInv, Journals, Details, NamedIn, Ids
<1>3. /\ s \in Sessions /\ s.prev = prev /\ s.old = None /\ ~s.wallet
      /\ s.interrupted = IF m.pending THEN m.id ELSE None
      /\ s.cand = IF again THEN worker.id ELSE None
  <2>1. (IF m.pending THEN m.id ELSE None) \in Ids /\ (IF again THEN worker.id ELSE None) \in Ids
    BY <1>2 DEF RepairInv, WorldTyped, Journals, Ids, NoWorker, Workers
  <2> HIDE DEF prev, again, m
  <2>2. QED BY <1>2, <2>1 DEF NoSession, Sessions, Ids
<1>4. /\ to \in {"inspecting", "opening"} /\ (to = "inspecting" => worker.owner = t)
      /\ to = "opening" => s.cand = None
      /\ to = "inspecting" => s.cand = worker.id
  BY <1>3
<1>5. tab' = [tab EXCEPT ![t] = x]
  BY DEF BeginRepair
<1> HIDE DEF s, to
<1>6. x \in TabStates /\ x.at = to /\ x.mem = m /\ x.rec = r /\ x.s = s
  BY <1>3, <1>4 DEF RepairInv, TabsTyped, TabStates, Ats, Repairing
<1> HIDE DEF x
<1>7. TabsTyped' /\ Moves(t, to, tab[t].mem, tab[t].rec, s)
  BY <1>5, <1>6, TabMoves, TabHasType DEF RepairInv
<1>8. s.prev \in NamedIn(t) /\ s.old = None /\ ~s.wallet
      /\ s.interrupted = IF tab[t].mem.pending THEN tab[t].mem.id ELSE None
  BY <1>2, <1>3
<1>9. \/ worker' = worker
      \/ worker' = NoWorker /\ worker.owner = t /\ to = "opening"
  <2>1. worker' = IF to = "inspecting" THEN worker ELSE Close(t)
    BY DEF BeginRepair, to
  <2>2. QED BY <1>4, <2>1 DEF Close
<1>10. Asks(t)
  BY <1>1 DEF CanRepair, Asks, Hopeless
<1>11. WorldTyped' /\ FileIsWorker'
  BY <1>1, <1>9 DEF RepairInv, WorldTyped, FileIsWorker, NoWorker
<1>12. OneOwner' /\ OldIsOther'
  BY <1>4, <1>7, <1>9 DEF RepairInv, Moves, OneOwner, Owning, Staging, OldIsOther
<1>13. StepsAgree'
  BY <1>4, <1>7, <1>8, <1>9 DEF RepairInv, Moves, OneOwner, Owning, StepsAgree, Proven
<1>14. Staged' /\ InterruptedWasFound' /\ FileStays'
  BY <1>1, <1>4, <1>7, <1>9 DEF RepairInv, Moves, OneOwner, Owning, Proven, Staged, Staging,
       InterruptedWasFound, Candidates, Live, FileStays
<1>15. PendingNames'
  BY <1>1, <1>7, <1>9 DEF RepairInv, Moves, PendingNames
<1>16. CandidateIsJournaled' /\ NothingToRepair'
  BY <1>1, <1>7 DEF RepairInv, Moves, CandidateIsJournaled, Candidates, Live, NothingToRepair
<1>17. NewKeysAreNew' /\ MemoryKeepsFile'
  BY <1>1, <1>7, <1>8, <1>9 DEF RepairInv, Moves, OneOwner, Owning, Live, NewKeysAreNew,
       MemoryKeepsFile, NamedIn, WasCandidate, NoWorker
<1>18. FileIsNoPredecessor'
  BY <1>1, <1>7, <1>9, <1>10, RepairAssumption DEF RepairInv, Moves, FileIsNoPredecessor, NamedIn,
       WasCandidate, Asks, Hopeless, NoWorker
<1>19. PreviousIsNamed'
  BY <1>4, <1>7, <1>8 DEF RepairInv, Moves, PreviousIsNamed, NamedIn
<1>20. AskedIsOwn'
  <2>1. \A u \in Tabs : Asks(u)' => Asks(u)
    BY <1>7, <1>9, <1>10, RepairAssumption DEF Moves, Asks, Hopeless, NoWorker
  <2>2. ASSUME NEW a \in asked, AtRisk(a)', Pure(a) PROVE Pure(a)'
    BY <1>1, <1>7, <1>8, <2>1, <2>2 DEF Moves, NamedIn, Pure
  <2>3. QED
    BY <1>1, <1>9, RepairAssumption, <2>1, <2>2, AskedIsKept DEF RepairInv, WorldTyped, AtRisk,
         NoWorker
<1>21. QED BY <1>7, <1>11, <1>12, <1>13, <1>14, <1>15, <1>16, <1>17, <1>18, <1>19, <1>20 DEF RepairInv

\* A fresh worker draws a key that nothing names, or holds the file.
LEMMA OpenCandidateKeeps ==
  ASSUME RepairInv, NEW t \in Tabs, OpenCandidate(t)
  PROVE  RepairInv'
<1>1. PICK w \in Workers :
        /\ Opened(t, w) /\ tab[t].at = "opening" /\ worker' = w /\ Step(t, "inspecting")
        /\ UNCHANGED <<signer, ledger, landing, leaving, disk, journal, tries, asked>>
  BY OpenOpens DEF OpenCandidate, RepairInv, At
<1>2. TabsTyped' /\ Moves(t, "inspecting", tab[t].mem, tab[t].rec, tab[t].s)
  BY <1>1, StepMoves DEF RepairInv, Ats, Repairing
<1>3. WorldTyped' /\ FileIsWorker'
  BY <1>1 DEF RepairInv, WorldTyped, FileIsWorker, Opened
<1>4. OneOwner' /\ StepsAgree' /\ Staged' /\ OldIsOther'
  BY <1>1, <1>2, RepairAssumption DEF RepairInv, Moves, OneOwner, Owning, StepsAgree, Proven, Staged,
       Staging, OldIsOther, NoWorker, Opened
<1>5. PendingNames' /\ CandidateIsJournaled' /\ InterruptedWasFound' /\ NothingToRepair'
  BY <1>1, <1>2 DEF RepairInv, Moves, PendingNames, CandidateIsJournaled, InterruptedWasFound,
       Candidates, Live, NothingToRepair, Repairing, NoWorker, Undrawn, Opened
<1>6. NewKeysAreNew' /\ FileIsNoPredecessor'
  BY <1>1, <1>2 DEF RepairInv, Moves, WorldTyped, NewKeysAreNew, FileIsNoPredecessor, NamedIn,
       WasCandidate, Asks, Hopeless, Undrawn, Opened
<1>7. MemoryKeepsFile' /\ PreviousIsNamed'
  BY <1>1, <1>2 DEF RepairInv, Moves, FileIsNoPredecessor, MemoryKeepsFile, PreviousIsNamed, NamedIn,
       WasCandidate, Asks, Hopeless, Workers, Undrawn, Opened
<1>8. FileStays'
  BY <1>1, <1>2 DEF RepairInv, Moves, Proven, FileStays, Opened, Undrawn
<1>9. AskedIsOwn'
  <2>1. \A u \in Tabs : Asks(u)' => Asks(u)
    BY <1>1, <1>2 DEF Moves, Asks, Hopeless, Opened
  <2>2. ASSUME NEW a \in asked, AtRisk(a)', Pure(a) PROVE Pure(a)'
    BY <1>1, <1>2, <2>1, <2>2 DEF Moves, Pure
  <2>3. QED
    BY <1>1, <2>1, <2>2, AskedIsKept DEF RepairInv, WorldTyped, AtRisk, Opened, Undrawn
<1>10. QED BY <1>2, <1>3, <1>4, <1>5, <1>6, <1>7, <1>8, <1>9 DEF RepairInv

\* The interrupted candidate is this one, or nowhere any more.
LEMMA InspectKeeps ==
  ASSUME RepairInv, NEW t \in Tabs, Inspect(t)
  PROVE  RepairInv'
<1>1. /\ tab[t].at = "inspecting" /\ InterruptedIsAbsent(t)
      /\ UNCHANGED <<signer, ledger, landing, leaving, disk, worker, journal, fellBack, tries, asked>>
      /\ faults' \in 0 .. MaxFaults
  BY DEF Inspect, At, RepairInv, WorldTyped
<1>2. TabsTyped' /\ Moves(t, "preparing", tab[t].mem, tab[t].rec, tab[t].s)
  BY StepMoves DEF Inspect, RepairInv, Ats, Repairing
<1>3. WorldTyped' /\ FileIsWorker'
  BY <1>1 DEF RepairInv, WorldTyped, FileIsWorker
<1>4. OneOwner' /\ StepsAgree' /\ Staged' /\ PendingNames'
  BY <1>1, <1>2 DEF RepairInv, Moves, OneOwner, Owning, StepsAgree, Proven, Staged, Staging,
       PendingNames
<1>5. CandidateIsJournaled' /\ InterruptedWasFound' /\ OldIsOther' /\ NothingToRepair'
  BY <1>1, <1>2 DEF RepairInv, Moves, Staging, CandidateIsJournaled, InterruptedWasFound, Candidates,
       Live, OldIsOther, NothingToRepair, Repairing, InterruptedIsAbsent
<1>6. NewKeysAreNew' /\ FileIsNoPredecessor'
  BY <1>1, <1>2 DEF RepairInv, Moves, NewKeysAreNew, FileIsNoPredecessor, NamedIn, WasCandidate, Asks,
       Hopeless
<1>7. MemoryKeepsFile' /\ PreviousIsNamed'
  BY <1>1, <1>2 DEF RepairInv, Moves, StepsAgree, Live, MemoryKeepsFile, PreviousIsNamed, NamedIn,
       WasCandidate, InterruptedIsAbsent
<1>8. FileStays'
  BY <1>1, <1>2 DEF RepairInv, Moves, Proven, FileStays
<1>9. AskedIsOwn'
  <2>1. \A u \in Tabs : Asks(u)' => Asks(u)
    BY <1>1, <1>2 DEF Moves, Asks, Hopeless
  <2>2. ASSUME NEW a \in asked, AtRisk(a)', Pure(a) PROVE Pure(a)'
    BY <1>1, <1>2, <2>1, <2>2 DEF Moves, Pure
  <2>3. QED
    BY <1>1, <2>1, <2>2, AskedIsKept DEF RepairInv, WorldTyped, AtRisk
<1>10. QED BY <1>2, <1>3, <1>4, <1>5, <1>6, <1>7, <1>8, <1>9 DEF RepairInv

\* The candidate is journaled before it is published; what was tried is nowhere, or it
\* is this one.
LEMMA PrepareKeeps ==
  ASSUME RepairInv, NEW t \in Tabs, Prepare(t)
  PROVE  RepairInv'
<1> DEFINE old == Predecessor(t)
           j == [id |-> worker.id, pending |-> TRUE,
                 stale |-> IF old # None THEN old ELSE Previous(journal, tab[t].rec)]
           s == [tab[t].s EXCEPT !.old = old, !.gone = tab[t].s.prev # None /\ old = None,
                                 !.cand = worker.id]
           x == [tab[t] EXCEPT !.at = "capacity", !.mem = j, !.s = s]
<1>1. /\ tab[t].at = "preparing" /\ journal' = j /\ journal.id = tab[t].mem.id
      /\ worker.reg => Visible(worker.id)
      /\ tries' = IF journal.pending THEN tries ELSE {}
      /\ UNCHANGED <<signer, ledger, landing, leaving, disk, worker, faults, fellBack, asked>>
  BY DEF Prepare, MayPrepare, At
<1>2. /\ worker \in Workers /\ tab[t].rec \in Details
      /\ ~tab[t].s.wallet
  BY <1>1, TabHasType, RepairAssumption
     DEF RepairInv, WorldTyped, OneOwner, Owning, NoWorker, NothingToRepair, Repairing, StepsAgree
<1>3. /\ worker.owner = t /\ worker.id \in Keys /\ worker.id # None
      /\ old \in {None, tab[t].s.prev} /\ old # worker.id /\ old \in Ids
      /\ j \in Journals /\ j.id = worker.id /\ j.pending
      /\ j.stale \in {old, journal.stale, journal.id, tab[t].rec.expected}
  <2>1. worker.owner = t /\ worker.id \in Keys /\ worker.id # None
    BY <1>1, <1>2, RepairAssumption DEF RepairInv, OneOwner, Owning, Workers
  <2>2. old \in {None, tab[t].s.prev} /\ old # worker.id /\ old \in Ids
    BY <2>1, TabHasType DEF Predecessor, RepairInv, Sessions, Ids
  <2>3. Previous(journal, tab[t].rec) \in {journal.stale, journal.id, tab[t].rec.expected}
    BY DEF Previous
  <2> HIDE DEF old
  <2>4. QED BY <1>2, <2>1, <2>2, <2>3 DEF RepairInv, WorldTyped, Journals, Details, Ids
<1>4. /\ s \in Sessions /\ s.old = old /\ s.cand = worker.id /\ s.prev = tab[t].s.prev
      /\ s.interrupted = tab[t].s.interrupted /\ ~s.wallet
  <2> HIDE DEF old
  <2>1. (tab[t].s.prev # None /\ old = None) \in BOOLEAN
    OBVIOUS
  <2>2. QED BY <1>2, <1>3, <2>1, TabHasType DEF RepairInv, Sessions, Ids
<1>5. tab' = [tab EXCEPT ![t] = x]
  BY DEF Prepare, RepairInv, TabsTyped
<1> HIDE DEF s, j
<1>6. x \in TabStates /\ x.at = "capacity" /\ x.mem = j /\ x.rec = tab[t].rec /\ x.s = s
  BY <1>3, <1>4 DEF RepairInv, TabsTyped, TabStates, Ats, Repairing
<1> HIDE DEF x
<1>7. TabsTyped' /\ Moves(t, "capacity", j, tab[t].rec, s)
  BY <1>3, <1>5, <1>6, TabMoves DEF RepairInv
<1> HIDE DEF old
<1>8. CandidateIsJournaled'
  <2>1. CASE ~journal.pending
    BY <1>1, <2>1 DEF CandidateIsJournaled, Candidates
  <2>2. CASE journal.pending /\ Candidates # {}
    <3>1. Candidates = {journal.id} /\ tab[t].mem.pending
      BY <1>1, <2>2 DEF RepairInv, CandidateIsJournaled
    <3>2. tab[t].s.interrupted = journal.id /\ journal.id # None
      BY <1>1, <2>2, <3>1, RepairAssumption DEF RepairInv, WorldTyped, StepsAgree
    <3>3. journal.id = worker.id
      BY <1>1, <3>1, <3>2 DEF RepairInv, InterruptedWasFound
    <3>4. Candidates' = Candidates /\ journal'.id = journal.id
      BY <1>1, <1>3, <2>2, <3>3 DEF Candidates, Live
    <3>5. QED BY <1>3, <1>1, <1>7, <2>2, <3>4 DEF RepairInv, CandidateIsJournaled, Moves
  <2>3. CASE journal.pending /\ Candidates = {}
    <3>1. Candidates' = {}
      BY <1>1, <2>3 DEF Candidates, Live
    <3>2. QED BY <3>1 DEF CandidateIsJournaled
  <2>4. QED BY <2>1, <2>2, <2>3
<1>9. \A a \in asked : AtRisk(a) => a = worker.id
  <2>1. Asks(t)
    BY <1>1, <1>2, RepairAssumption DEF Asks, Hopeless
  <2>2. QED BY <1>2, <2>1, RepairAssumption DEF RepairInv, AskedIsOwn, AtRisk, Quiet, FileIsWorker,
       WorldTyped, NoWorker, Workers
<1>10. WorldTyped'
  BY <1>1, <1>3 DEF RepairInv, WorldTyped
<1>11. OneOwner' /\ PendingNames' /\ NothingToRepair' /\ NewKeysAreNew'
  BY <1>1, <1>3, <1>7 DEF RepairInv, Moves, OneOwner, StepsAgree, PendingNames, NothingToRepair,
       Repairing, NewKeysAreNew, NamedIn, WasCandidate
<1>12. FileIsNoPredecessor'
  BY <1>1, <1>3, <1>7 DEF RepairInv, Moves, FileIsWorker, FileIsNoPredecessor, MemoryKeepsFile, NamedIn,
       WasCandidate, Asks, Hopeless, NoWorker
<1>13. FileIsWorker'
  BY <1>1 DEF RepairInv, FileIsWorker
<1>14. StepsAgree'
  BY <1>1, <1>4, <1>7 DEF RepairInv, Moves, StepsAgree, Proven
<1>15. Staged' /\ OldIsOther' /\ MemoryKeepsFile'
  BY <1>1, <1>3, <1>4, <1>7 DEF RepairInv, Moves, Staged, Live, OldIsOther, MemoryKeepsFile, NamedIn
<1>16. InterruptedWasFound' /\ FileStays'
  BY <1>1, <1>7 DEF RepairInv, Moves, Proven, InterruptedWasFound, Candidates, Live, FileStays
<1>17. PreviousIsNamed'
  BY <1>7 DEF RepairInv, Moves, PreviousIsNamed, NamedIn
<1>18. AskedIsOwn'
  <2>1. \A u \in Tabs : Asks(u)' => Asks(u)
    BY <1>1, <1>7 DEF Moves, Asks, Hopeless
  <2>2. ASSUME NEW a \in asked, AtRisk(a)', Pure(a) PROVE Pure(a)'
    <3>1. {journal.id, journal.stale}' \subseteq {None, a}
      BY <1>1, <1>3, <1>9, <2>2 DEF RepairInv, StepsAgree, NothingToRepair, Repairing, AtRisk, Pure,
           Asks, Hopeless
    <3>2. \A u \in Tabs : {tab[u].mem.id, tab[u].mem.stale}' \subseteq {None, a}
      BY <1>1, <1>3, <1>7, <1>9, <2>2 DEF RepairInv, Moves, StepsAgree, NothingToRepair, Repairing,
           AtRisk, Pure, Asks, Hopeless
    <3>3. \A u \in Tabs :
              Asks(u)' => {tab[u].rec.expected, tab[u].s.prev, tab[u].s.old}' \subseteq {None, a}
      BY <1>3, <1>4, <1>7, <2>1, <2>2 DEF Moves, Pure
    <3>4. QED BY <3>1, <3>2, <3>3 DEF Pure
  <2>3. QED
    BY <1>1, <2>1, <2>2, AskedIsKept DEF RepairInv, WorldTyped, AtRisk
<1>19. QED BY <1>7, <1>8, <1>10, <1>11, <1>12, <1>13, <1>14, <1>15, <1>16, <1>17, <1>18 DEF RepairInv
-----------------------------------------------------------------------------
(* The actions: registering the candidate *)

\* There is a free slot.
LEMMA EnoughSlotsKeeps ==
  ASSUME RepairInv, NEW t \in Tabs, EnoughSlots(t)
  PROVE  RepairInv'
<1>1. /\ tab[t].at = "capacity" /\ HasSlot(t)
      /\ UNCHANGED <<signer, ledger, landing, leaving, disk, worker, journal, fellBack, tries, asked>>
      /\ faults' \in 0 .. MaxFaults
  BY DEF EnoughSlots, At, RepairInv, WorldTyped
<1>2. TabsTyped' /\ Moves(t, "registering", tab[t].mem, tab[t].rec, tab[t].s)
  BY StepMoves DEF EnoughSlots, RepairInv, Ats, Repairing
<1>3. WorldTyped' /\ FileIsWorker'
  BY <1>1 DEF RepairInv, WorldTyped, FileIsWorker
<1>4. OneOwner' /\ StepsAgree' /\ Staged' /\ PendingNames'
  BY <1>1, <1>2 DEF RepairInv, Moves, OneOwner, Owning, StepsAgree, Proven, Staged, Staging,
       PendingNames
<1>5. CandidateIsJournaled' /\ InterruptedWasFound' /\ OldIsOther' /\ NothingToRepair'
  BY <1>1, <1>2 DEF RepairInv, Moves, Staging, CandidateIsJournaled, InterruptedWasFound, Candidates,
       Live, OldIsOther, NothingToRepair, Repairing
<1>6. NewKeysAreNew' /\ FileIsNoPredecessor' /\ MemoryKeepsFile' /\ FileStays'
  BY <1>1, <1>2 DEF RepairInv, Moves, Proven, Live, NewKeysAreNew, FileIsNoPredecessor,
       MemoryKeepsFile, NamedIn, WasCandidate, FileStays, Asks, Hopeless
<1>7. PreviousIsNamed'
  BY <1>2 DEF RepairInv, Moves, PreviousIsNamed, NamedIn
<1>8. AskedIsOwn'
  <2>1. \A u \in Tabs : Asks(u)' => Asks(u)
    BY <1>1, <1>2 DEF Moves, Asks, Hopeless
  <2>2. ASSUME NEW a \in asked, AtRisk(a)', Pure(a) PROVE Pure(a)'
    BY <1>1, <1>2, <2>1, <2>2 DEF Moves, Pure
  <2>3. QED
    BY <1>1, <2>1, <2>2, AskedIsKept DEF RepairInv, WorldTyped, AtRisk
<1>9. QED BY <1>2, <1>3, <1>4, <1>5, <1>6, <1>7, <1>8 DEF RepairInv

\* At the limit the predecessor is removed: it is not in the file, nor will it be.
LEMMA RemovePredecessorKeeps ==
  ASSUME RepairInv, NEW t \in Tabs, RemovePredecessor(t)
  PROVE  RepairInv'
<1>1. /\ tab[t].at = "capacity" /\ ~HasSlot(t) /\ tab[t].s.old # None
      /\ \/ leaving' = leaving
         \/ Visible(tab[t].s.old) /\ leaving' = leaving \cup {tab[t].s.old}
      /\ UNCHANGED <<signer, ledger, landing, disk, worker, journal, faults, fellBack,
                     tries, asked>>
  BY DEF RemovePredecessor, At
<1>2. PICK to \in {"removing", "registering"}, s \in Sessions :
        TabsTyped' /\ Moves(t, to, tab[t].mem, tab[t].rec, s) /\ Continues(s, tab[t].s)
  <2>1. TabsTyped /\ "removing" \in Ats /\ "registering" \in Ats /\ TRUE \in BOOLEAN
    BY DEF RepairInv, Ats, Repairing
  <2>2. CASE Step(t, "removing")
    BY <2>1, <2>2, StepMoves, TabHasType DEF Continues
  <2>3. CASE tab' = [tab EXCEPT ![t].at = "registering", ![t].s.gone = TRUE]
    BY <2>1, <2>3, GoneMoves
  <2>4. QED BY <2>2, <2>3 DEF RemovePredecessor
<1>3. tab[t].s.old \in Ids /\ leaving' \subseteq Keys \cup Others
  <2>1. tab[t].s.old \in Ids
    BY TabHasType DEF RepairInv, Sessions
  <2>2. QED BY <1>1, <2>1 DEF RepairInv, WorldTyped, Visible
<1>4. WorldTyped'
  BY <1>1, <1>3 DEF RepairInv, WorldTyped
<1>5. OneOwner' /\ StepsAgree' /\ Staged' /\ PendingNames'
  BY <1>1, <1>2 DEF RepairInv, Moves, OneOwner, Owning, StepsAgree, Proven, Staged, Staging,
       PendingNames, Continues
<1>6. CandidateIsJournaled' /\ InterruptedWasFound' /\ OldIsOther' /\ NothingToRepair'
  BY <1>1, <1>2 DEF RepairInv, Moves, StepsAgree, Staging, CandidateIsJournaled, InterruptedWasFound,
       Candidates, Live, OldIsOther, NothingToRepair, Repairing, Continues
<1>7. NewKeysAreNew' /\ FileIsNoPredecessor' /\ MemoryKeepsFile'
  BY <1>1, <1>2 DEF RepairInv, Moves, Live, NewKeysAreNew, FileIsNoPredecessor, MemoryKeepsFile, NamedIn,
       WasCandidate, Asks, Hopeless, Continues
<1>8. FileIsWorker'
  BY <1>1 DEF RepairInv, FileIsWorker
<1>9. PreviousIsNamed'
  BY <1>2 DEF RepairInv, Moves, PreviousIsNamed, NamedIn
<1>10. FileStays'
  BY <1>1, <1>2, RepairAssumption DEF RepairInv, Moves, OneOwner, Owning, FileIsWorker, StepsAgree,
       Proven, Staging, Live, OldIsOther, NothingToRepair, Repairing, MemoryKeepsFile, FileStays,
       NoWorker, Visible
<1>11. AskedIsOwn'
  <2>1. \A u \in Tabs : Asks(u)' => Asks(u)
    BY <1>1, <1>2 DEF Moves, Asks, Hopeless
  <2>2. ASSUME NEW a \in asked, AtRisk(a)', Pure(a) PROVE Pure(a)'
    BY <1>1, <1>2, <2>1, <2>2 DEF Moves, Pure, Continues
  <2>3. QED
    BY <1>1, <2>1, <2>2, AskedIsKept DEF RepairInv, WorldTyped, AtRisk
<1>12. QED BY <1>2, <1>4, <1>5, <1>6, <1>7, <1>8, <1>9, <1>10, <1>11 DEF RepairInv

\* The removal is seen on the ledger.
LEMMA PredecessorRemovedKeeps ==
  ASSUME RepairInv, NEW t \in Tabs, PredecessorRemoved(t)
  PROVE  RepairInv'
<1>1. /\ tab[t].at = "removing"
      /\ UNCHANGED <<signer, ledger, landing, leaving, disk, worker, journal, faults, fellBack,
                     tries, asked>>
  BY DEF PredecessorRemoved, At
<1>2. PICK s \in Sessions :
        TabsTyped' /\ Moves(t, "registering", tab[t].mem, tab[t].rec, s) /\ Continues(s, tab[t].s)
  <2>1. TabsTyped /\ "registering" \in Ats /\ TRUE \in BOOLEAN
    BY DEF RepairInv, Ats, Repairing
  <2>2. tab' = [tab EXCEPT ![t].at = "registering", ![t].s.gone = TRUE]
    BY DEF PredecessorRemoved
  <2>3. QED BY <2>1, <2>2, GoneMoves
<1>3. WorldTyped' /\ FileIsWorker'
  BY <1>1 DEF RepairInv, WorldTyped, FileIsWorker
<1>4. OneOwner' /\ StepsAgree' /\ Staged' /\ PendingNames'
  BY <1>1, <1>2 DEF RepairInv, Moves, OneOwner, Owning, StepsAgree, Proven, Staged, Staging,
       PendingNames, Continues
<1>5. CandidateIsJournaled' /\ InterruptedWasFound' /\ OldIsOther' /\ NothingToRepair'
  BY <1>1, <1>2 DEF RepairInv, Moves, StepsAgree, Staging, CandidateIsJournaled, InterruptedWasFound,
       Candidates, Live, OldIsOther, NothingToRepair, Repairing, Continues
<1>6. NewKeysAreNew' /\ FileIsNoPredecessor'
  BY <1>1, <1>2 DEF RepairInv, Moves, NewKeysAreNew, FileIsNoPredecessor, NamedIn, WasCandidate, Asks,
       Hopeless
<1>7. MemoryKeepsFile' /\ FileStays'
  BY <1>1, <1>2 DEF RepairInv, Moves, Proven, Live, MemoryKeepsFile, NamedIn, WasCandidate, FileStays,
       Continues
<1>8. PreviousIsNamed'
  BY <1>2 DEF RepairInv, Moves, PreviousIsNamed, NamedIn
<1>9. AskedIsOwn'
  <2>1. \A u \in Tabs : Asks(u)' => Asks(u)
    BY <1>1, <1>2 DEF Moves, Asks, Hopeless
  <2>2. ASSUME NEW a \in asked, AtRisk(a)', Pure(a) PROVE Pure(a)'
    BY <1>1, <1>2, <2>1, <2>2 DEF Moves, Pure, Continues
  <2>3. QED
    BY <1>1, <2>1, <2>2, AskedIsKept DEF RepairInv, WorldTyped, AtRisk
<1>10. QED BY <1>2, <1>3, <1>4, <1>5, <1>6, <1>7, <1>8, <1>9 DEF RepairInv

\* Only a candidate that is still journaled is registered.
LEMMA BeginRegistrationKeeps ==
  ASSUME RepairInv, NEW t \in Tabs, BeginRegistration(t)
  PROVE  RepairInv'
<1>1. /\ tab[t].at = "registering"
      /\ UNCHANGED <<signer, ledger, landing, leaving, disk, worker, journal, faults, fellBack,
                     tries, asked>>
  BY DEF BeginRegistration, At
<1>2. PICK to \in {"verifying", "publishing"} :
        /\ to = "publishing" => ~worker.reg
        /\ TabsTyped' /\ Moves(t, to, tab[t].mem, tab[t].rec, tab[t].s)
  BY StepMoves DEF BeginRegistration, RepairInv, Ats, Repairing
<1>3. WorldTyped' /\ FileIsWorker'
  BY <1>1 DEF RepairInv, WorldTyped, FileIsWorker
<1>4. OneOwner' /\ StepsAgree' /\ Staged' /\ PendingNames'
  BY <1>1, <1>2 DEF RepairInv, Moves, OneOwner, Owning, StepsAgree, Proven, Staged, Staging,
       PendingNames
<1>5. CandidateIsJournaled' /\ InterruptedWasFound' /\ OldIsOther' /\ NothingToRepair'
  BY <1>1, <1>2 DEF RepairInv, Moves, Staging, CandidateIsJournaled, InterruptedWasFound, Candidates,
       Live, OldIsOther, NothingToRepair, Repairing
<1>6. NewKeysAreNew' /\ FileIsNoPredecessor'
  BY <1>1, <1>2 DEF RepairInv, Moves, StepsAgree, NewKeysAreNew, FileIsNoPredecessor, NamedIn,
       WasCandidate, Asks, Hopeless
<1>7. MemoryKeepsFile' /\ FileStays'
  BY <1>1, <1>2 DEF RepairInv, Moves, Proven, Live, MemoryKeepsFile, NamedIn, WasCandidate, FileStays
<1>8. PreviousIsNamed'
  BY <1>2 DEF RepairInv, Moves, PreviousIsNamed, NamedIn
<1>9. AskedIsOwn'
  <2>1. \A u \in Tabs : Asks(u)' => Asks(u)
    BY <1>1, <1>2 DEF Moves, Asks, Hopeless
  <2>2. ASSUME NEW a \in asked, AtRisk(a)', Pure(a) PROVE Pure(a)'
    BY <1>1, <1>2, <2>1, <2>2 DEF Moves, Pure
  <2>3. QED
    BY <1>1, <2>1, <2>2, AskedIsKept DEF RepairInv, WorldTyped, AtRisk
<1>10. QED BY <1>2, <1>3, <1>4, <1>5, <1>6, <1>7, <1>8, <1>9 DEF RepairInv

\* The published installation is the one journaled: there is no other.
LEMMA PublishKeeps ==
  ASSUME RepairInv, NEW t \in Tabs, Publish(t)
  PROVE  RepairInv'
<1>1. /\ tab[t].at = "publishing" /\ landing' = landing \cup ({worker.id} \ ledger)
      /\ tries' = IF tab[t].s.wallet THEN tries ELSE tries \cup {worker.id}
      /\ UNCHANGED <<signer, ledger, leaving, disk, worker, journal, faults, fellBack, asked>>
  BY DEF Publish, At
<1>2. TabsTyped' /\ Moves(t, "storing", tab[t].mem, tab[t].rec, tab[t].s)
  BY StepMoves DEF Publish, RepairInv, Ats, Repairing
<1>3. worker \in Workers /\ worker.owner = t /\ ~worker.reg
  BY <1>1, RepairAssumption DEF RepairInv, WorldTyped, OneOwner, Owning, NoWorker, StepsAgree
<1>4. CandidateIsJournaled'
  <2>1. CASE tab[t].s.wallet
    <3>1. worker.id \notin tries
      BY <1>1, <1>3, <2>1 DEF RepairInv, NewKeysAreNew
    <3>2. Candidates' = Candidates
      BY <1>1, <2>1, <3>1 DEF Candidates, Live
    <3>3. QED BY <1>1, <1>2, <3>2 DEF RepairInv, CandidateIsJournaled, Moves
  <2>2. CASE ~tab[t].s.wallet
    <3>1. journal.pending /\ journal.id = worker.id
      BY <1>1, <2>2 DEF RepairInv, Staged, Staging
    <3>2. Candidates' \subseteq {journal.id}
      BY <1>1, <3>1 DEF RepairInv, CandidateIsJournaled, Candidates, Live
    <3>3. \A u \in Tabs : tab[u].mem.id = worker.id => tab[u].mem.pending
      BY <1>3, RepairAssumption DEF RepairInv, PendingNames, NoWorker
    <3>4. \A u \in Tabs : tab'[u].mem = tab[u].mem
      BY <1>2 DEF Moves
    <3>5. QED BY <1>1, <3>1, <3>2, <3>3, <3>4 DEF CandidateIsJournaled
  <2>3. QED BY <2>1, <2>2
<1>5. WorldTyped'
  BY <1>1, <1>3 DEF RepairInv, WorldTyped, Workers
<1>6. OneOwner' /\ MemoryKeepsFile'
  BY <1>1, <1>2, <1>3 DEF RepairInv, Moves, OneOwner, Live, MemoryKeepsFile, NamedIn
<1>7. FileIsWorker'
  BY <1>1 DEF RepairInv, FileIsWorker
<1>8. StepsAgree' /\ Staged' /\ PendingNames' /\ InterruptedWasFound'
  BY <1>1, <1>2 DEF RepairInv, Moves, StepsAgree, Proven, Staged, Staging, PendingNames,
       InterruptedWasFound, Candidates, Live
<1>9. OldIsOther' /\ NothingToRepair'
  BY <1>1, <1>2 DEF RepairInv, Moves, Staging, OldIsOther, NothingToRepair, Repairing
<1>10. NewKeysAreNew' /\ FileIsNoPredecessor'
  BY <1>1, <1>2 DEF RepairInv, Moves, OneOwner, Owning, NewKeysAreNew, FileIsNoPredecessor, NamedIn,
       WasCandidate, Asks, Hopeless
<1>11. FileStays'
  BY <1>1, <1>2 DEF RepairInv, Moves, Proven, FileStays
<1>12. PreviousIsNamed'
  BY <1>2 DEF RepairInv, Moves, PreviousIsNamed, NamedIn
<1>13. AskedIsOwn'
  <2>1. \A u \in Tabs : Asks(u)' => Asks(u)
    BY <1>1, <1>2 DEF Moves, Asks, Hopeless
  <2>2. ASSUME NEW a \in asked, AtRisk(a)', Pure(a) PROVE Pure(a)'
    BY <1>1, <1>2, <2>1, <2>2 DEF Moves, Pure
  <2>3. QED
    BY <1>1, <2>1, <2>2, AskedIsKept DEF RepairInv, WorldTyped, AtRisk
<1>14. QED BY <1>2, <1>4, <1>5, <1>6, <1>7, <1>8, <1>9, <1>10, <1>11, <1>12, <1>13 DEF RepairInv

\* The registered key is stored in the file, which was empty.
LEMMA StoreRegistrationKeeps ==
  ASSUME RepairInv, NEW t \in Tabs, StoreRegistration(t)
  PROVE  RepairInv'
<1>1. /\ tab[t].at = "storing" /\ worker' = [worker EXCEPT !.reg = TRUE]
      /\ disk' = IF worker.memory THEN disk ELSE worker.id
      /\ UNCHANGED <<signer, ledger, landing, leaving, journal, fellBack, tries, asked>>
      /\ faults' \in 0 .. MaxFaults
  BY DEF StoreRegistration, At, RepairInv, WorldTyped
<1>2. TabsTyped' /\ Moves(t, "verifying", tab[t].mem, tab[t].rec, tab[t].s)
  BY StepMoves DEF StoreRegistration, RepairInv, Ats, Repairing
<1>3. worker \in Workers
  BY <1>1, RepairAssumption DEF RepairInv, WorldTyped, OneOwner, Owning, NoWorker
<1>4. /\ worker' \in Workers /\ worker'.reg /\ worker'.id = worker.id
      /\ worker'.owner = worker.owner /\ worker'.memory = worker.memory
  BY <1>1, <1>3 DEF Workers
<1>5. ASSUME ~fellBack' PROVE worker # NoWorker /\ ~worker.reg /\ disk' = worker.id
  BY <1>1, <1>3, <1>5, RepairAssumption
     DEF RepairInv, StepsAgree, MemoryKeepsFile, Workers, NoWorker
<1>6. WorldTyped'
  BY <1>1, <1>4 DEF RepairInv, WorldTyped, Ids, Workers
<1>7. OneOwner' /\ StepsAgree' /\ Staged' /\ CandidateIsJournaled'
  BY <1>1, <1>2 DEF RepairInv, Moves, OneOwner, Owning, StepsAgree, Proven, Staged, Staging,
       CandidateIsJournaled, Candidates, Live
<1>8. InterruptedWasFound' /\ OldIsOther' /\ NothingToRepair' /\ MemoryKeepsFile'
  BY <1>1, <1>2 DEF RepairInv, Moves, Staging, InterruptedWasFound, Candidates, Live, OldIsOther,
       NothingToRepair, Repairing, MemoryKeepsFile, NamedIn, WasCandidate
<1>9. FileStays'
  BY <1>1, <1>2 DEF RepairInv, Moves, StepsAgree, Proven, FileStays, NoWorker
<1>10. FileIsWorker'
  BY <1>1 DEF FileIsWorker
<1>11. PendingNames' /\ NewKeysAreNew'
  BY <1>4 DEF PendingNames, NewKeysAreNew
<1>12. FileIsNoPredecessor'
  BY <1>1, <1>2, <1>5 DEF RepairInv, Moves, NewKeysAreNew, FileIsNoPredecessor, NamedIn, WasCandidate,
       Asks
<1>13. PreviousIsNamed'
  BY <1>2 DEF RepairInv, Moves, PreviousIsNamed, NamedIn
<1>14. AskedIsOwn'
  <2>1. \A u \in Tabs : Asks(u)' => Asks(u)
    BY <1>1, <1>2 DEF Moves, Asks, Hopeless
  <2>2. ASSUME NEW a \in asked, AtRisk(a)', Pure(a) PROVE Pure(a)'
    BY <1>1, <1>2, <2>1, <2>2 DEF Moves, Pure
  <2>3. QED
    BY <1>1, <2>1, <2>2, AskedIsKept DEF RepairInv, WorldTyped, StepsAgree, AtRisk
<1>15. QED BY <1>2, <1>6, <1>7, <1>8, <1>9, <1>10, <1>11, <1>12, <1>13, <1>14 DEF RepairInv

\* A rejected registration may have been published.
LEMMA RegisterThrowsKeeps ==
  ASSUME RepairInv, NEW t \in Tabs, RegisterThrows(t)
  PROVE  RepairInv'
<1>1. /\ tab[t].at \in {"publishing", "storing"} /\ faults' \in 0 .. MaxFaults
      /\ UNCHANGED <<signer, ledger, landing, leaving, disk, worker, journal, fellBack,
                     tries, asked>>
  BY RepairAssumption DEF RegisterThrows, Fault, RepairInv, WorldTyped
<1>2. TabsTyped' /\ Moves(t, "verifying", tab[t].mem, tab[t].rec, tab[t].s)
  BY StepMoves DEF RegisterThrows, RepairInv, Ats, Repairing
<1>3. WorldTyped' /\ FileIsWorker'
  BY <1>1 DEF RepairInv, WorldTyped, FileIsWorker
<1>4. OneOwner' /\ StepsAgree' /\ Staged' /\ PendingNames'
  BY <1>1, <1>2 DEF RepairInv, Moves, OneOwner, Owning, StepsAgree, Proven, Staged, Staging,
       PendingNames
<1>5. CandidateIsJournaled' /\ InterruptedWasFound' /\ OldIsOther' /\ NothingToRepair'
  BY <1>1, <1>2 DEF RepairInv, Moves, Staging, CandidateIsJournaled, InterruptedWasFound, Candidates,
       Live, OldIsOther, NothingToRepair, Repairing
<1>6. NewKeysAreNew' /\ FileIsNoPredecessor' /\ MemoryKeepsFile' /\ FileStays'
  BY <1>1, <1>2 DEF RepairInv, Moves, Proven, Live, NewKeysAreNew, FileIsNoPredecessor,
       MemoryKeepsFile, NamedIn, WasCandidate, FileStays, Asks, Hopeless
<1>7. PreviousIsNamed'
  BY <1>2 DEF RepairInv, Moves, PreviousIsNamed, NamedIn
<1>8. AskedIsOwn'
  <2>1. \A u \in Tabs : Asks(u)' => Asks(u)
    BY <1>1, <1>2 DEF Moves, Asks, Hopeless
  <2>2. ASSUME NEW a \in asked, AtRisk(a)', Pure(a) PROVE Pure(a)'
    BY <1>1, <1>2, <2>1, <2>2 DEF Moves, Pure
  <2>3. QED
    BY <1>1, <2>1, <2>2, AskedIsKept DEF RepairInv, WorldTyped, AtRisk
<1>9. QED BY <1>2, <1>3, <1>4, <1>5, <1>6, <1>7, <1>8 DEF RepairInv
-----------------------------------------------------------------------------
(* The actions: durability, cleanup and completion *)

\* The worker is closed, to be opened again.
LEMMA VerifiedKeeps ==
  ASSUME RepairInv, NEW t \in Tabs, Verified(t)
  PROVE  RepairInv'
<1>1. /\ tab[t].at = "verifying" /\ ~tab[t].s.wallet /\ worker.reg /\ StillStaged(t, worker.id)
      /\ worker' = NoWorker
      /\ UNCHANGED <<signer, ledger, landing, leaving, disk, journal, fellBack, tries, asked>>
      /\ faults' \in 0 .. MaxFaults
  BY DEF Verified, At, RepairInv, WorldTyped
<1>2. TabsTyped' /\ Moves(t, "reopening", tab[t].mem, tab[t].rec, tab[t].s)
  BY StepMoves DEF Verified, RepairInv, Ats, Repairing
<1>3. WorldTyped' /\ FileIsWorker' /\ PendingNames' /\ MemoryKeepsFile'
  BY <1>1 DEF RepairInv, WorldTyped, FileIsWorker, PendingNames, MemoryKeepsFile, NoWorker
<1>4. OneOwner' /\ StepsAgree' /\ Staged' /\ CandidateIsJournaled'
  BY <1>1, <1>2 DEF RepairInv, Moves, OneOwner, Owning, StepsAgree, Proven, Staged, Staging,
       CandidateIsJournaled, Candidates, Live
<1>5. InterruptedWasFound' /\ OldIsOther' /\ NothingToRepair' /\ NewKeysAreNew'
  BY <1>1, <1>2 DEF RepairInv, Moves, OneOwner, Owning, Staged, Staging, InterruptedWasFound,
       OldIsOther, NothingToRepair, Repairing, NewKeysAreNew
<1>6. FileStays'
  BY <1>1, <1>2 DEF RepairInv, Moves, Proven, FileStays
<1>7. FileIsNoPredecessor'
  BY <1>1, <1>2, RepairAssumption DEF RepairInv, Moves, FileIsNoPredecessor, NamedIn, WasCandidate, Asks,
       Hopeless, NoWorker
<1>8. PreviousIsNamed'
  BY <1>2 DEF RepairInv, Moves, PreviousIsNamed, NamedIn
<1>9. AskedIsOwn'
  <2>1. \A u \in Tabs : Asks(u)' => Asks(u)
    BY <1>1, <1>2, RepairAssumption DEF Moves, Asks, Hopeless, NoWorker
  <2>2. ASSUME NEW a \in asked, AtRisk(a)', Pure(a) PROVE Pure(a)'
    BY <1>1, <1>2, <2>1, <2>2 DEF Moves, Pure
  <2>3. QED
    BY <1>1, RepairAssumption, <2>1, <2>2, AskedIsKept DEF RepairInv, WorldTyped, AtRisk, NoWorker
<1>10. QED BY <1>2, <1>3, <1>4, <1>5, <1>6, <1>7, <1>8, <1>9 DEF RepairInv

\* A fresh worker finds the candidate in the file and on the ledger.
LEMMA ReopenKeeps ==
  ASSUME RepairInv, NEW t \in Tabs, Reopen(t)
  PROVE  RepairInv'
<1>1. PICK w \in Workers :
        /\ Opened(t, w) /\ tab[t].at = "reopening" /\ worker' = w /\ Step(t, "cleanup")
        /\ w.id = tab[t].s.cand /\ w.reg /\ Visible(w.id) /\ journal.pending /\ journal.id = w.id
        /\ UNCHANGED <<signer, ledger, landing, leaving, disk, journal, tries, asked>>
  BY OpenOpens DEF Reopen, Durable, StillStaged, RepairInv, At
<1>2. TabsTyped' /\ Moves(t, "cleanup", tab[t].mem, tab[t].rec, tab[t].s)
  BY <1>1, StepMoves DEF RepairInv, Ats, Repairing
<1>3. WorldTyped' /\ FileIsWorker' /\ PendingNames' /\ NewKeysAreNew'
  BY <1>1 DEF RepairInv, WorldTyped, FileIsWorker, PendingNames, NewKeysAreNew, Opened
<1>4. MemoryKeepsFile' /\ FileStays'
  BY <1>1 DEF RepairInv, MemoryKeepsFile, FileStays, Visible, Opened
<1>5. OneOwner' /\ StepsAgree' /\ OldIsOther'
  BY <1>1, <1>2, RepairAssumption DEF RepairInv, Moves, OneOwner, Owning, StepsAgree, Staging,
       OldIsOther, NoWorker, Opened
<1>6. Staged' /\ CandidateIsJournaled' /\ InterruptedWasFound' /\ NothingToRepair'
  BY <1>1, <1>2 DEF RepairInv, Moves, Staged, CandidateIsJournaled, InterruptedWasFound, Candidates,
       Live, NothingToRepair, Repairing, NoWorker, Opened
<1>7. FileIsNoPredecessor'
  BY <1>1, <1>2 DEF RepairInv, Moves, WorldTyped, FileIsNoPredecessor, NamedIn, WasCandidate, Asks,
       Hopeless, Opened
<1>8. PreviousIsNamed'
  BY <1>2 DEF RepairInv, Moves, PreviousIsNamed, NamedIn
<1>9. AskedIsOwn'
  <2>1. \A u \in Tabs : Asks(u)' => Asks(u)
    BY <1>1, <1>2 DEF Moves, Asks, Hopeless, Opened
  <2>2. ASSUME NEW a \in asked, AtRisk(a)', Pure(a) PROVE Pure(a)'
    BY <1>1, <1>2, <2>1, <2>2 DEF Moves, Pure
  <2>3. QED
    BY <1>1, <2>1, <2>2, AskedIsKept DEF RepairInv, WorldTyped, AtRisk, Opened
<1>10. QED BY <1>2, <1>3, <1>4, <1>5, <1>6, <1>7, <1>8, <1>9 DEF RepairInv

\* It does not: the details name the candidate.
LEMMA NotDurableKeeps ==
  ASSUME RepairInv, NEW t \in Tabs, NotDurable(t)
  PROVE  RepairInv'
<1>1. PICK w \in Workers :
        /\ Opened(t, w) /\ tab[t].at = "reopening" /\ ~Durable(t, w)
        /\ worker' = IF w.id = tab[t].s.cand THEN w ELSE NoWorker
        /\ Stops(t, Recovery(Closed(w), tab[t].s.cand))
        /\ UNCHANGED <<signer, ledger, landing, leaving, disk, journal, tries, asked>>
  BY OpenOpens DEF NotDurable, RepairInv, At
<1> DEFINE r == Recovery(Closed(w), tab[t].s.cand)
<1>2. /\ r \in Details /\ r.reg = w.reg /\ r.expected = tab[t].s.cand
      /\ r.reg => r.visible = (w.id \in ledger)
  <2>1. tab[t].s.cand \in Ids /\ Closed(w).id \in Ids /\ Closed(w).reg \in BOOLEAN
    BY <1>1, TabHasType DEF Closed, Workers, RepairInv, Sessions, Ids
  <2>2. QED BY <1>1, <2>1 DEF Recovery, Closed, Visible, Details, Full, Ids, Workers
<1>3. Stops(t, r)
  BY <1>1
<1> HIDE DEF r
<1>4. TabsTyped' /\ Moves(t, "idle", tab[t].mem, r, NoSession)
  BY <1>2, <1>3, StopMoves DEF RepairInv
<1>5. ~w.reg => w.id # tab[t].s.cand
  BY <1>1 DEF Opened, Undrawn
<1>6. /\ ~tab[t].s.wallet /\ tab[t].rec # None
      /\ tab[t].mem.pending /\ tab[t].mem.id = tab[t].s.cand
  BY <1>1 DEF RepairInv, StepsAgree, Staged, NothingToRepair, Repairing
<1>7. FileIsNoPredecessor'
  <2>1. SUFFICES ASSUME ~fellBack', disk # None PROVE FileIsNoPredecessor'
    BY <1>1 DEF FileIsNoPredecessor
  <2>2. w.reg /\ ~w.memory /\ ~fellBack /\ w.id = disk
    BY <1>1, <2>1 DEF Opened
  <2>3. Asks(t) /\ (disk \in NamedIn(t) => WasCandidate(t, disk))
    BY <1>1, <1>6, <2>1, <2>2 DEF RepairInv, FileIsNoPredecessor, Asks, Hopeless
  <2>4. Asks(t)' /\ disk \in NamedIn(t)' => WasCandidate(t, disk)'
    <3>1. /\ NamedIn(t) = {tab[t].mem.id, tab[t].mem.stale, tab[t].rec.expected}
          /\ NamedIn(t)' = {tab[t].mem.id, tab[t].mem.stale, tab[t].s.cand}
          /\ WasCandidate(t, disk)' = (disk' = tab[t].s.cand)
      BY <1>2, <1>4, <1>6 DEF Moves, NamedIn, WasCandidate
    <3>2. disk \in NamedIn(t) => disk = tab[t].s.cand
      BY <1>6, <2>3 DEF WasCandidate
    <3>3. QED BY <1>1, <1>6, <3>1, <3>2
  <2>5. \A u \in Tabs : u # t => /\ Asks(u)' => Asks(u)
                                /\ NamedIn(u)' = NamedIn(u) /\ WasCandidate(u, disk)' = WasCandidate(u, disk)
    BY <1>1, <1>4, RepairAssumption DEF Moves, Asks, Hopeless, NamedIn, WasCandidate, Opened,
         NoWorker
  <2>6. QED BY <1>1, <2>1, <2>2, <2>4, <2>5 DEF RepairInv, FileIsNoPredecessor
<1>8. AskedIsOwn'
  <2>1. ~Quiet
    BY <1>1, <1>6 DEF Quiet, Asks, Hopeless
  <2>2. ASSUME NEW a \in asked, disk' = a \/ (worker'.id = a /\ ~worker'.reg)
        PROVE  disk = a /\ fellBack /\ Pure(a)
    <3>1. a # None
      BY RepairAssumption DEF RepairInv, WorldTyped
    <3>2. disk = a
      BY <1>1, <1>5, <2>2, <3>1 DEF NoWorker
    <3>3. QED BY <2>1, <3>2 DEF RepairInv, AskedIsOwn, AtRisk, WorldTyped
  <2>3. ASSUME NEW a \in asked, Pure(a) PROVE Pure(a)'
    <3>1. \A u \in Tabs : tab'[u].mem = tab[u].mem
      BY <1>4 DEF Moves
    <3>2. {tab'[t].rec.expected, tab'[t].s.prev, tab'[t].s.old} \subseteq {None, a}
      BY <1>2, <1>4, <1>6, <2>3, NoSessionIsEmpty DEF Moves, Pure
    <3>3. \A u \in Tabs : u # t => tab'[u] = tab[u] /\ (Asks(u)' => Asks(u))
      BY <1>1, <1>4, RepairAssumption DEF Moves, Asks, Hopeless, Opened, NoWorker
    <3>4. QED BY <1>1, <2>3, <3>1, <3>2, <3>3 DEF Pure
  <2>4. fellBack => fellBack'
    BY <1>1 DEF Opened
  <2>5. ~worker'.memory
    BY <1>1, <1>5 DEF Opened, NoWorker
  <2>6. asked' = asked /\ \A b, c \in asked : b = c
    BY <1>1 DEF RepairInv, AskedIsOwn
  <2>7. QED BY <2>2, <2>3, <2>4, <2>5, <2>6 DEF AskedIsOwn, AtRisk
<1>11. MemoryKeepsFile'
  <2>1. ~worker'.memory
    BY <1>1, <1>5 DEF Opened, NoWorker
  <2>2. QED BY <2>1 DEF MemoryKeepsFile
<1>10. PreviousIsNamed'
  BY <1>1, <1>4 DEF RepairInv, PreviousIsNamed, NamedIn, Moves
<1>9. FileStays'
  <2>1. worker' # NoWorker => worker'.reg
    BY <1>1, <1>5
  <2>2. QED BY <1>1, <1>4, <2>1 DEF RepairInv, FileStays, Moves, Proven
<1>12. WorldTyped' /\ FileIsWorker'
  BY <1>1 DEF RepairInv, WorldTyped, FileIsWorker, NoWorker, Opened
<1>13. OneOwner' /\ Staged' /\ OldIsOther'
  BY <1>1, <1>4, RepairAssumption DEF RepairInv, Moves, OneOwner, Owning, Staged, Staging, OldIsOther,
       NoWorker, Opened
<1>14. StepsAgree'
  BY <1>1, <1>4, RepairAssumption, NoSessionIsEmpty DEF RepairInv, Moves, OneOwner, Owning, StepsAgree,
       Proven, Opened, NoWorker
<1>15. PendingNames'
  BY <1>1, <1>5 DEF PendingNames
<1>16. CandidateIsJournaled' /\ InterruptedWasFound' /\ NothingToRepair'
  BY <1>1, <1>4 DEF RepairInv, Moves, StepsAgree, CandidateIsJournaled, InterruptedWasFound,
       Candidates, Live, NothingToRepair, Repairing, NoWorker, Opened
<1>17. NewKeysAreNew'
  BY <1>1, <1>4, <1>5 DEF RepairInv, Moves, NewKeysAreNew, Opened
<1>18. QED BY <1>4, <1>7, <1>8, <1>11, <1>10, <1>9, <1>12, <1>13, <1>14, <1>15, <1>16, <1>17
        DEF RepairInv

\* The predecessor is removed, and the candidate stays.
LEMMA CleanUpKeeps ==
  ASSUME RepairInv, NEW t \in Tabs, CleanUp(t)
  PROVE  RepairInv'
<1>1. /\ tab[t].at = "cleanup"
      /\ UNCHANGED <<signer, ledger, landing, disk, worker, journal, faults, fellBack,
                     tries, asked>>
      /\ \/ leaving' = leaving
         \/ tab[t].s.old # None /\ Visible(tab[t].s.old) /\ leaving' = leaving \cup {tab[t].s.old}
  BY DEF CleanUp, At
<1>2. PICK to \in {"cleaning", "completing"}, s \in Sessions :
        TabsTyped' /\ Moves(t, to, tab[t].mem, tab[t].rec, s) /\ Continues(s, tab[t].s)
  <2>1. TabsTyped /\ "cleaning" \in Ats /\ "completing" \in Ats /\ TRUE \in BOOLEAN
    BY DEF RepairInv, Ats, Repairing
  <2>2. CASE Step(t, "cleaning") \/ Step(t, "completing")
    BY <2>1, <2>2, StepMoves, TabHasType DEF Continues
  <2>3. CASE tab' = [tab EXCEPT ![t].at = "completing", ![t].s.gone = TRUE]
    BY <2>1, <2>3, GoneMoves
  <2>4. QED BY <2>2, <2>3 DEF CleanUp
<1>3. tab[t].s.old \in Ids
  BY TabHasType DEF RepairInv, Sessions
<1>4. WorldTyped'
  BY <1>1, <1>2, <1>3 DEF RepairInv, WorldTyped, Ids
<1>5. OneOwner' /\ StepsAgree' /\ Staged' /\ PendingNames'
  BY <1>1, <1>2 DEF RepairInv, Moves, OneOwner, Owning, StepsAgree, Proven, Staged, Staging,
       PendingNames, Continues
<1>6. CandidateIsJournaled' /\ InterruptedWasFound' /\ OldIsOther' /\ NothingToRepair'
  BY <1>1, <1>2 DEF RepairInv, Moves, StepsAgree, Staging, CandidateIsJournaled, InterruptedWasFound,
       Candidates, Live, OldIsOther, NothingToRepair, Repairing, Continues
<1>7. NewKeysAreNew' /\ FileIsNoPredecessor'
  BY <1>1, <1>2 DEF RepairInv, Moves, NewKeysAreNew, FileIsNoPredecessor, NamedIn, WasCandidate, Asks,
       Hopeless
<1>8. FileIsWorker' /\ MemoryKeepsFile' /\ FileStays'
  BY <1>1 DEF RepairInv, FileIsWorker, StepsAgree, Proven, Staging, OldIsOther, MemoryKeepsFile,
       FileStays
<1>9. PreviousIsNamed'
  BY <1>2 DEF RepairInv, Moves, PreviousIsNamed, NamedIn
<1>10. AskedIsOwn'
  <2>1. \A u \in Tabs : Asks(u)' => Asks(u)
    BY <1>1, <1>2 DEF Moves, Asks, Hopeless
  <2>2. ASSUME NEW a \in asked, AtRisk(a)', Pure(a) PROVE Pure(a)'
    BY <1>1, <1>2, <2>1, <2>2 DEF Moves, Pure, Continues
  <2>3. QED
    BY <1>1, <2>1, <2>2, AskedIsKept DEF RepairInv, WorldTyped, AtRisk
<1>11. QED BY <1>2, <1>4, <1>5, <1>6, <1>7, <1>8, <1>9, <1>10 DEF RepairInv

\* The removal is seen, or not yet.
LEMMA CleanedUpKeeps ==
  ASSUME RepairInv, NEW t \in Tabs, CleanedUp(t)
  PROVE  RepairInv'
<1>1. /\ tab[t].at = "cleaning"
      /\ UNCHANGED <<signer, ledger, landing, leaving, disk, worker, journal, faults, fellBack,
                     tries, asked>>
  BY DEF CleanedUp, At
<1>2. PICK s \in Sessions :
        TabsTyped' /\ Moves(t, "completing", tab[t].mem, tab[t].rec, s) /\ Continues(s, tab[t].s)
  <2> DEFINE lost == ~Visible(tab[t].s.old)
  <2>1. TabsTyped /\ "completing" \in Ats /\ lost \in BOOLEAN
    BY DEF RepairInv, Ats, Repairing
  <2>2. tab' = [tab EXCEPT ![t].at = "completing", ![t].s.gone = lost]
    BY DEF CleanedUp
  <2> HIDE DEF lost
  <2>3. QED BY <2>1, <2>2, GoneMoves
<1>3. WorldTyped' /\ FileIsWorker' /\ MemoryKeepsFile' /\ FileStays'
  BY <1>1 DEF RepairInv, WorldTyped, FileIsWorker, StepsAgree, Proven, MemoryKeepsFile, FileStays
<1>4. OneOwner' /\ StepsAgree' /\ Staged' /\ PendingNames'
  BY <1>1, <1>2 DEF RepairInv, Moves, OneOwner, Owning, StepsAgree, Proven, Staged, Staging,
       PendingNames, Continues
<1>5. CandidateIsJournaled' /\ InterruptedWasFound' /\ OldIsOther' /\ NothingToRepair'
  BY <1>1, <1>2 DEF RepairInv, Moves, StepsAgree, Staging, CandidateIsJournaled, InterruptedWasFound,
       Candidates, Live, OldIsOther, NothingToRepair, Repairing, Continues
<1>6. NewKeysAreNew' /\ FileIsNoPredecessor'
  BY <1>1, <1>2 DEF RepairInv, Moves, NewKeysAreNew, FileIsNoPredecessor, NamedIn, WasCandidate, Asks,
       Hopeless
<1>7. PreviousIsNamed'
  BY <1>2 DEF RepairInv, Moves, PreviousIsNamed, NamedIn
<1>8. AskedIsOwn'
  <2>1. \A u \in Tabs : Asks(u)' => Asks(u)
    BY <1>1, <1>2 DEF Moves, Asks, Hopeless
  <2>2. ASSUME NEW a \in asked, AtRisk(a)', Pure(a) PROVE Pure(a)'
    BY <1>1, <1>2, <2>1, <2>2 DEF Moves, Pure, Continues
  <2>3. QED
    BY <1>1, <2>1, <2>2, AskedIsKept DEF RepairInv, WorldTyped, AtRisk
<1>9. QED BY <1>2, <1>3, <1>4, <1>5, <1>6, <1>7, <1>8 DEF RepairInv

\* The journal is completed with the candidate.
LEMMA CompleteKeeps ==
  ASSUME RepairInv, NEW t \in Tabs, Complete(t)
  PROVE  RepairInv'
<1> DEFINE j == journal'
<1>1. /\ tab[t].at = "completing" /\ tries' = {}
      /\ tab' = [tab EXCEPT ![t] = [Start(j) EXCEPT !.at = "ready"]]
      /\ UNCHANGED <<signer, ledger, landing, leaving, disk, worker, faults, fellBack, asked>>
  BY DEF Complete, At
<1>2. /\ j \in Journals /\ j.id = tab[t].s.cand /\ ~j.pending
      /\ j.stale \in {journal.stale, None}
  BY TabHasType DEF Complete, Ready, RepairInv, WorldTyped, Journals, Sessions, Ids
<1>3. journal.pending /\ journal.id = worker.id /\ tab[t].s.cand = worker.id
  BY <1>1 DEF RepairInv, Staged, Staging, StepsAgree
<1> HIDE DEF j
<1>4. TabsTyped' /\ Moves(t, "ready", j, None, NoSession)
  BY <1>1, <1>2, StartMoves DEF RepairInv, Ats
<1>5. j = journal'
  BY DEF j
<1>6. WorldTyped'
  BY <1>1, <1>2, <1>5 DEF RepairInv, WorldTyped
<1>7. OneOwner' /\ FileIsWorker' /\ PendingNames' /\ CandidateIsJournaled'
  BY <1>1 DEF RepairInv, OneOwner, Owning, FileIsWorker, StepsAgree, Proven, PendingNames,
       CandidateIsJournaled, Candidates
<1>8. InterruptedWasFound' /\ OldIsOther' /\ PreviousIsNamed' /\ FileStays'
  BY <1>1 DEF RepairInv, Proven, Staging, InterruptedWasFound, Candidates, OldIsOther, PreviousIsNamed,
       NamedIn, FileStays
<1>9. StepsAgree'
  BY <1>1, <1>4, NoSessionIsEmpty DEF RepairInv, Moves, StepsAgree, Proven
<1>10. Staged'
  BY <1>1, <1>4 DEF RepairInv, Moves, OneOwner, Owning, Staged, Staging
<1>11. NothingToRepair'
  BY <1>2, <1>3, <1>4, <1>5 DEF RepairInv, Moves, NothingToRepair, Repairing
<1>12. NewKeysAreNew' /\ FileIsNoPredecessor' /\ MemoryKeepsFile'
  BY <1>1, <1>2, <1>3, <1>4, <1>5 DEF RepairInv, Moves, Live, NewKeysAreNew, FileIsNoPredecessor,
       MemoryKeepsFile, NamedIn, WasCandidate, Asks, Hopeless
<1>13. AskedIsOwn'
  <2>1. \A u \in Tabs : Asks(u)' => Asks(u)
    BY <1>1, <1>4 DEF Moves, Asks, Hopeless
  <2>2. ASSUME NEW a \in asked, AtRisk(a)', Pure(a) PROVE Pure(a)'
    <3>1. {journal.id, journal.stale}' \subseteq {None, a}
      BY <1>2, <1>3, <1>5, <2>2 DEF Pure
    <3>2. \A u \in Tabs : {tab[u].mem.id, tab[u].mem.stale}' \subseteq {None, a}
      BY <1>2, <1>3, <1>4, <2>2 DEF Moves, Pure
    <3>3. \A u \in Tabs :
              Asks(u)' => {tab[u].rec.expected, tab[u].s.prev, tab[u].s.old}' \subseteq {None, a}
      BY <1>4, <2>1, <2>2 DEF Moves, Pure, Asks
    <3>4. QED BY <3>1, <3>2, <3>3 DEF Pure
  <2>3. QED
    BY <1>1, <2>1, <2>2, AskedIsKept DEF RepairInv, WorldTyped, AtRisk
<1>14. QED BY <1>4, <1>6, <1>7, <1>8, <1>9, <1>10, <1>11, <1>12, <1>13 DEF RepairInv
-----------------------------------------------------------------------------
(* The actions: how a repair ends early *)

\* A check refuses: the staged candidate keeps its worker.
LEMMA RefusedKeeps ==
  ASSUME RepairInv, NEW t \in Tabs, Refused(t)
  PROVE  RepairInv'
<1>1. /\ \/ tab[t].at = "inspecting"
         \/ tab[t].at \in {"preparing", "capacity", "removing"}
         \/ tab[t].at \in {"opening", "reopening"} /\ worker # NoWorker
      /\ worker' = IF worker.owner = t /\ worker.id = tab[t].s.cand THEN worker ELSE Close(t)
      /\ UNCHANGED <<signer, ledger, landing, leaving, disk, journal, faults, fellBack,
                     tries, asked>>
  BY DEF Refused, Fails, At
<1>2. TabsTyped' /\ Moves(t, "idle", tab[t].mem, tab[t].rec, NoSession)
  <2>1. Stops(t, tab[t].rec)
    BY DEF Refused, Fails
  <2>2. QED BY <2>1, StopMoves, TabHasType DEF RepairInv
<1>3. worker.owner = t => worker.id # None
  BY RepairAssumption DEF RepairInv, WorldTyped, NoWorker, Workers
<1>4. WorldTyped'
  BY <1>1 DEF RepairInv, WorldTyped, Close
<1>5. OneOwner' /\ Staged' /\ PendingNames' /\ CandidateIsJournaled'
  BY <1>1, <1>2 DEF RepairInv, Moves, OneOwner, Owning, Staged, Staging, PendingNames,
       CandidateIsJournaled, Candidates, Live, Close
<1>6. InterruptedWasFound' /\ OldIsOther'
  BY <1>1, <1>2 DEF RepairInv, Moves, OneOwner, Owning, Staging, InterruptedWasFound, Candidates, Live,
       OldIsOther, Close
<1>7. NothingToRepair' /\ NewKeysAreNew'
  BY <1>1, <1>2 DEF RepairInv, Moves, OneOwner, Owning, NothingToRepair, Repairing, NewKeysAreNew,
       NamedIn, WasCandidate, Close
<1>8. FileStays'
  BY <1>1, <1>2 DEF RepairInv, Moves, Proven, FileStays, Close
<1>9. FileIsWorker'
  BY <1>1, RepairAssumption DEF RepairInv, OneOwner, Owning, FileIsWorker, Close, NoWorker
<1>10. StepsAgree'
  BY <1>1, <1>2, NoSessionIsEmpty DEF RepairInv, Moves, OneOwner, Owning, StepsAgree, Proven, Close
<1>11. FileIsNoPredecessor'
  BY <1>1, <1>2, RepairAssumption DEF RepairInv, Moves, FileIsNoPredecessor, NamedIn, WasCandidate, Asks,
       Hopeless, Close, NoWorker
<1>12. MemoryKeepsFile'
  BY <1>1, <1>2, <1>3, NoSessionIsEmpty DEF RepairInv, Moves, Live, MemoryKeepsFile, NamedIn,
       WasCandidate, Close, NoWorker
<1>13. PreviousIsNamed'
  BY <1>2 DEF RepairInv, Moves, PreviousIsNamed, NamedIn
<1>14. AskedIsOwn'
  <2>1. \A u \in Tabs : Asks(u)' => Asks(u)
    BY <1>1, <1>2, RepairAssumption DEF Moves, Asks, Hopeless, Close, NoWorker
  <2>2. ASSUME NEW a \in asked, AtRisk(a)', Pure(a) PROVE Pure(a)'
    BY <1>1, <1>2, NoSessionIsEmpty, <2>1, <2>2 DEF Moves, Pure
  <2>3. QED
    BY <1>1, RepairAssumption, <2>1, <2>2, AskedIsKept DEF RepairInv, WorldTyped, AtRisk, Close,
         NoWorker
<1>15. QED BY <1>2, <1>4, <1>5, <1>6, <1>7, <1>8, <1>9, <1>10, <1>11, <1>12, <1>13, <1>14 DEF RepairInv

\* The registration is refused: the details are those of the candidate.
LEMMA RegistrationRefusedKeeps ==
  ASSUME RepairInv, NEW t \in Tabs, RegistrationRefused(t)
  PROVE  RepairInv'
<1> DEFINE r == Recovery(worker, worker.id)
<1>1. /\ tab[t].at \in {"registering", "publishing", "verifying"} /\ ~tab[t].s.wallet
      /\ worker' = IF worker.owner = t /\ worker.id = tab[t].s.cand THEN worker ELSE Close(t)
      /\ UNCHANGED <<signer, ledger, landing, leaving, disk, journal, faults, fellBack,
                     tries, asked>>
  BY DEF RegistrationRefused, Fails, At, RepairInv, StepsAgree
<1>2. /\ worker.owner = t /\ worker \in Workers
      /\ journal.pending /\ journal.id = worker.id /\ tab[t].s.cand = worker.id
  BY <1>1, RepairAssumption DEF RepairInv, WorldTyped, OneOwner, Owning, Staged, Staging, NoWorker
<1>3. /\ r \in Details \cup {None} /\ r.reg = worker.reg
      /\ r.expected = worker.id /\ r.local = worker.id
      /\ r.visible = Visible(worker.id)
  BY <1>2 DEF Recovery, Details, Workers, Visible, Full
<1>4. Stops(t, r)
  BY DEF RegistrationRefused, Fails
<1> HIDE DEF r
<1>5. TabsTyped' /\ Moves(t, "idle", tab[t].mem, r, NoSession)
  BY <1>3, <1>4, StopMoves DEF RepairInv
<1>6. worker' = worker /\ tab[t].mem.pending /\ tab[t].mem.id = worker.id /\ Asks(t)
  <2>1. worker' = worker /\ tab[t].mem.pending /\ tab[t].mem.id = worker.id
    BY <1>1, <1>2 DEF RepairInv, Staged, Staging
  <2>2. Asks(t)
    BY <1>1 DEF RepairInv, NothingToRepair, Repairing, Asks, Hopeless
  <2>3. QED BY <2>1, <2>2
<1>7. WorldTyped' /\ FileIsWorker'
  BY <1>1, <1>2 DEF RepairInv, WorldTyped, FileIsWorker
<1>8. OneOwner' /\ Staged' /\ PendingNames' /\ InterruptedWasFound'
  BY <1>1, <1>2, <1>5 DEF RepairInv, Moves, OneOwner, Staged, Staging, PendingNames,
       InterruptedWasFound, Candidates, Live
<1>9. OldIsOther' /\ NewKeysAreNew' /\ FileStays'
  BY <1>1, <1>2, <1>5 DEF RepairInv, Moves, Proven, Staged, Staging, OldIsOther, NewKeysAreNew, NamedIn,
       WasCandidate, FileStays
<1>10. StepsAgree'
  BY <1>1, <1>2, <1>5, NoSessionIsEmpty DEF RepairInv, Moves, StepsAgree, Proven
<1>11. CandidateIsJournaled' /\ NothingToRepair'
  BY <1>1, <1>5 DEF RepairInv, Moves, CandidateIsJournaled, Candidates, Live, NothingToRepair,
       Repairing
<1>12. FileIsNoPredecessor'
  BY <1>1, <1>3, <1>5, <1>6 DEF RepairInv, Moves, FileIsNoPredecessor, NamedIn, WasCandidate, Asks,
       Hopeless
<1>13. MemoryKeepsFile'
  BY <1>1, <1>2, <1>3, <1>5, NoSessionIsEmpty DEF RepairInv, Moves, Live, NothingToRepair, Repairing,
       MemoryKeepsFile, NamedIn
<1>14. PreviousIsNamed'
  BY <1>5 DEF RepairInv, Moves, PreviousIsNamed, NamedIn
<1>15. AskedIsOwn'
  <2>1. \A u \in Tabs : Asks(u)' => Asks(u)
    BY <1>1, <1>2, <1>5 DEF RepairInv, Moves, NothingToRepair, Repairing, Asks, Hopeless
  <2>2. ASSUME NEW a \in asked, AtRisk(a)', Pure(a) PROVE Pure(a)'
    <3>1. {journal.id, journal.stale}' \subseteq {None, a}
      BY <1>1, <2>2 DEF Pure
    <3>2. \A u \in Tabs : {tab[u].mem.id, tab[u].mem.stale}' \subseteq {None, a}
      BY <1>5, <2>2 DEF Moves, Pure
    <3>3. \A u \in Tabs :
              Asks(u)' => {tab[u].rec.expected, tab[u].s.prev, tab[u].s.old}' \subseteq {None, a}
      BY <1>2, <1>3, <1>5, NoSessionIsEmpty, <2>1, <2>2 DEF Moves, Pure
    <3>4. QED BY <3>1, <3>2, <3>3 DEF Pure
  <2>3. QED
    BY <1>1, <1>2, <2>1, <2>2, AskedIsKept DEF RepairInv, WorldTyped, AtRisk
<1>16. QED BY <1>5, <1>7, <1>8, <1>9, <1>10, <1>11, <1>12, <1>13, <1>14, <1>15 DEF RepairInv

\* A call fails.
LEMMA CallFailsKeeps ==
  ASSUME RepairInv, NEW t \in Tabs, CallFails(t)
  PROVE  RepairInv'
<1>1. /\ tab[t].at \in {"inspecting", "preparing", "capacity", "completing"}
      /\ faults' \in 0 .. MaxFaults
      /\ worker' = IF worker.owner = t /\ worker.id = tab[t].s.cand THEN worker ELSE Close(t)
      /\ UNCHANGED <<signer, ledger, landing, leaving, disk, journal, fellBack, tries, asked>>
  BY RepairAssumption DEF CallFails, Fails, Fault, RepairInv, WorldTyped
<1>2. TabsTyped' /\ Moves(t, "idle", tab[t].mem, tab[t].rec, NoSession)
  <2>1. Stops(t, tab[t].rec)
    BY DEF CallFails, Fails
  <2>2. QED BY <2>1, StopMoves, TabHasType DEF RepairInv
<1>3. worker.owner = t => worker.id # None
  BY RepairAssumption DEF RepairInv, WorldTyped, NoWorker, Workers
<1>4. WorldTyped'
  BY <1>1 DEF RepairInv, WorldTyped, Close
<1>5. OneOwner' /\ Staged' /\ PendingNames' /\ CandidateIsJournaled'
  BY <1>1, <1>2 DEF RepairInv, Moves, OneOwner, Owning, Staged, Staging, PendingNames,
       CandidateIsJournaled, Candidates, Live, Close
<1>6. InterruptedWasFound' /\ OldIsOther'
  BY <1>1, <1>2 DEF RepairInv, Moves, OneOwner, Owning, Staging, InterruptedWasFound, OldIsOther
<1>7. NothingToRepair' /\ NewKeysAreNew'
  BY <1>1, <1>2 DEF RepairInv, Moves, OneOwner, Owning, NothingToRepair, Repairing, NewKeysAreNew,
       NamedIn, WasCandidate, Close
<1>8. FileStays'
  BY <1>1, <1>2 DEF RepairInv, Moves, Proven, FileStays, Close
<1>9. FileIsWorker'
  BY <1>1, RepairAssumption DEF RepairInv, OneOwner, Owning, FileIsWorker, Close, NoWorker
<1>10. StepsAgree'
  BY <1>1, <1>2, NoSessionIsEmpty DEF RepairInv, Moves, OneOwner, Owning, StepsAgree, Proven
<1>11. FileIsNoPredecessor'
  BY <1>1, <1>2, RepairAssumption DEF RepairInv, Moves, FileIsNoPredecessor, NamedIn, WasCandidate, Asks,
       Hopeless, Close, NoWorker
<1>12. MemoryKeepsFile'
  BY <1>1, <1>2, <1>3, NoSessionIsEmpty DEF RepairInv, Moves, Live, MemoryKeepsFile, NamedIn,
       WasCandidate, Close, NoWorker
<1>13. PreviousIsNamed'
  BY <1>2 DEF RepairInv, Moves, PreviousIsNamed, NamedIn
<1>14. AskedIsOwn'
  <2>1. \A u \in Tabs : Asks(u)' => Asks(u)
    BY <1>1, <1>2, RepairAssumption DEF Moves, Asks, Hopeless, Close, NoWorker
  <2>2. ASSUME NEW a \in asked, AtRisk(a)', Pure(a) PROVE Pure(a)'
    BY <1>1, <1>2, NoSessionIsEmpty, <2>1, <2>2 DEF Moves, Pure
  <2>3. QED
    BY <1>1, RepairAssumption, <2>1, <2>2, AskedIsKept DEF RepairInv, WorldTyped, AtRisk, Close,
         NoWorker
<1>15. QED BY <1>2, <1>4, <1>5, <1>6, <1>7, <1>8, <1>9, <1>10, <1>11, <1>12, <1>13, <1>14 DEF RepairInv

\* A reload forgets all but the journal.
LEMMA ReloadKeeps ==
  ASSUME RepairInv, NEW t \in Tabs, Reload(t)
  PROVE  RepairInv'
<1>1. /\ faults' \in 0 .. MaxFaults /\ worker' = Close(t)
      /\ UNCHANGED <<signer, ledger, landing, leaving, disk, journal, fellBack, tries, asked>>
  BY RepairAssumption DEF Reload, Fault, RepairInv, WorldTyped
<1>2. TabsTyped' /\ Moves(t, "idle", journal, None, NoSession)
  <2>1. tab' = [tab EXCEPT ![t] = [Start(journal) EXCEPT !.at = "idle"]]
    BY DEF Reload, Start
  <2>2. QED BY <2>1, StartMoves DEF RepairInv, WorldTyped, Ats
<1>3. worker' = worker \/ worker' = NoWorker
  BY <1>1 DEF Close
<1>4. ~NoWorker.reg /\ ~NoWorker.memory
  BY DEF NoWorker
<1>5. NewKeysAreNew'
  <2>1. ASSUME worker' # NoWorker, ~worker'.reg
        PROVE  /\ worker'.id # disk'
               /\ journal'.stale = worker'.id => journal'.id = worker'.id
    BY <1>1, <1>3, <2>1 DEF RepairInv, NewKeysAreNew
  <2>2. ASSUME worker' # NoWorker, ~worker'.reg,
               NEW u \in Tabs, tab'[u].rec # None, worker'.id \in NamedIn(u)'
        PROVE  WasCandidate(u, worker.id)'
    BY <1>1, <1>2, <1>3, <2>2 DEF RepairInv, Moves, NewKeysAreNew, NamedIn, WasCandidate
  <2>3. \A u \in Tabs : tab'[u].s.wallet /\ tab'[u].at \in {"admitting", "publishing"}
                          => worker'.reg \/ worker'.id \notin tries'
    BY <1>1, <1>2, <1>3 DEF RepairInv, Moves, OneOwner, Owning, NewKeysAreNew, Close
  <2>4. QED BY <2>1, <2>2, <2>3 DEF NewKeysAreNew
<1>6. WorldTyped'
  BY <1>1 DEF RepairInv, WorldTyped, Close
<1>7. OneOwner' /\ Staged' /\ CandidateIsJournaled' /\ InterruptedWasFound'
  BY <1>1, <1>2 DEF RepairInv, Moves, OneOwner, Owning, Staged, Staging, CandidateIsJournaled,
       InterruptedWasFound, Candidates, Live, Close
<1>8. OldIsOther'
  BY <1>1, <1>2 DEF RepairInv, Moves, OneOwner, Owning, Staging, OldIsOther, Close
<1>9. NothingToRepair' /\ MemoryKeepsFile'
  BY <1>1, <1>2 DEF RepairInv, Moves, Live, NothingToRepair, Repairing, MemoryKeepsFile, NamedIn,
       WasCandidate, Close, NoWorker
<1>10. FileIsWorker'
  BY <1>1, <1>3, <1>4 DEF RepairInv, FileIsWorker
<1>11. StepsAgree'
  BY <1>1, <1>2, NoSessionIsEmpty DEF RepairInv, Moves, OneOwner, Owning, StepsAgree, Proven, Close
<1>12. PendingNames' /\ FileStays'
  BY <1>1, <1>2, <1>3 DEF RepairInv, Moves, Proven, PendingNames, FileStays
<1>13. FileIsNoPredecessor'
  BY <1>1, <1>2, RepairAssumption DEF RepairInv, Moves, FileIsNoPredecessor, NamedIn, WasCandidate, Asks,
       Hopeless, Close, NoWorker
<1>14. PreviousIsNamed'
  BY <1>2 DEF RepairInv, Moves, PreviousIsNamed, NamedIn
<1>15. AskedIsOwn'
  <2>1. \A u \in Tabs : Asks(u)' => Asks(u)
    BY <1>1, <1>2, RepairAssumption DEF Moves, Asks, Hopeless, Close, NoWorker
  <2>2. ASSUME NEW a \in asked, AtRisk(a)', Pure(a) PROVE Pure(a)'
    <3>1. {journal.id, journal.stale}' \subseteq {None, a}
      BY <1>1, <2>2 DEF Pure
    <3>2. \A u \in Tabs : {tab[u].mem.id, tab[u].mem.stale}' \subseteq {None, a}
      BY <1>2, <2>2 DEF Moves, Pure
    <3>3. \A u \in Tabs :
              Asks(u)' => {tab[u].rec.expected, tab[u].s.prev, tab[u].s.old}' \subseteq {None, a}
      BY <1>2, <2>1, <2>2 DEF Moves, Pure, Asks
    <3>4. QED BY <3>1, <3>2, <3>3 DEF Pure
  <2>3. QED
    BY <1>1, RepairAssumption, <2>1, <2>2, AskedIsKept DEF RepairInv, WorldTyped, AtRisk, Close,
         NoWorker
<1>16. QED BY <1>2, <1>5, <1>6, <1>7, <1>8, <1>9, <1>10, <1>11, <1>12, <1>13, <1>14, <1>15
        DEF RepairInv
-----------------------------------------------------------------------------
(* The actions: provisioning by a wallet *)

\* It begins while there is no journal.
LEMMA BeginProvisionKeeps ==
  ASSUME RepairInv, NEW t \in Tabs, BeginProvision(t)
  PROVE  RepairInv'
<1>1. /\ tab[t].at = "idle" /\ journal.id = None
      /\ UNCHANGED <<signer, ledger, landing, leaving, disk, worker, journal, faults, fellBack,
                     tries, asked>>
  BY DEF BeginProvision, At
<1> DEFINE s == [NoSession EXCEPT !.wallet = TRUE]
           x == [tab[t] EXCEPT !.at = "provisioning", !.s = s, !.rec = None]
<1>2. /\ s \in Sessions /\ s.prev = None /\ s.old = None /\ s.interrupted = None
      /\ s.cand = None /\ s.wallet
  BY DEF NoSession, Sessions, Ids
<1>3. tab' = [tab EXCEPT ![t] = x]
  BY DEF BeginProvision
<1> HIDE DEF s
<1>4. x \in TabStates /\ x.at = "provisioning" /\ x.mem = tab[t].mem /\ x.rec = None /\ x.s = s
  BY <1>2 DEF RepairInv, TabsTyped, TabStates, Ats
<1> HIDE DEF x
<1>5. TabsTyped' /\ Moves(t, "provisioning", tab[t].mem, None, s)
  BY <1>3, <1>4, TabMoves, TabHasType DEF RepairInv
<1>6. WorldTyped' /\ FileIsWorker'
  BY <1>1 DEF RepairInv, WorldTyped, FileIsWorker
<1>7. OneOwner' /\ PendingNames' /\ CandidateIsJournaled' /\ InterruptedWasFound'
  BY <1>1, <1>5 DEF RepairInv, Moves, OneOwner, Owning, PendingNames, CandidateIsJournaled,
       InterruptedWasFound, Candidates, Live
<1>8. OldIsOther' /\ NewKeysAreNew' /\ FileIsNoPredecessor' /\ MemoryKeepsFile'
  BY <1>1, <1>5 DEF RepairInv, Moves, Staging, Live, OldIsOther, NewKeysAreNew, FileIsNoPredecessor,
       MemoryKeepsFile, NamedIn, WasCandidate, Asks, Hopeless
<1>9. FileStays'
  BY <1>1, <1>5 DEF RepairInv, Moves, Proven, FileStays
<1>10. StepsAgree' /\ Staged' /\ NothingToRepair'
  BY <1>1, <1>2, <1>5 DEF RepairInv, Moves, StepsAgree, Proven, Staged, NothingToRepair
<1>11. PreviousIsNamed'
  BY <1>5 DEF RepairInv, Moves, PreviousIsNamed, NamedIn
<1>12. AskedIsOwn'
  <2>1. \A u \in Tabs : Asks(u)' => Asks(u)
    BY <1>1, <1>5 DEF Moves, Asks, Hopeless
  <2>2. ASSUME NEW a \in asked, AtRisk(a)', Pure(a) PROVE Pure(a)'
    <3>1. {journal.id, journal.stale}' \subseteq {None, a}
      BY <1>1, <2>2 DEF Pure
    <3>2. \A u \in Tabs : {tab[u].mem.id, tab[u].mem.stale}' \subseteq {None, a}
      BY <1>5, <2>2 DEF Moves, Pure
    <3>3. \A u \in Tabs :
              Asks(u)' => {tab[u].rec.expected, tab[u].s.prev, tab[u].s.old}' \subseteq {None, a}
      BY <1>1, <2>1 DEF RepairInv, NothingToRepair, Asks
    <3>4. QED BY <3>1, <3>2, <3>3 DEF Pure
  <2>3. QED
    BY <1>1, <2>1, <2>2, AskedIsKept DEF RepairInv, WorldTyped, AtRisk
<1>13. QED BY <1>5, <1>6, <1>7, <1>8, <1>9, <1>10, <1>11, <1>12 DEF RepairInv

\* Its worker draws a key that nothing names, or holds the file.
ManagerOpens(t, w) == tab' = [tab EXCEPT ![t].at = "admitting", ![t].s.cand = w.id]

\* A manager opens a worker for the installation it is to admit.
LEMMA OpenManagerKeeps ==
  ASSUME RepairInv, NEW t \in Tabs, OpenManager(t)
  PROVE  RepairInv'
<1>1. PICK w \in Workers :
        /\ Opened(t, w) /\ tab[t].at = "provisioning" /\ worker' = w
        /\ ManagerOpens(t, w)
        /\ UNCHANGED <<signer, ledger, landing, leaving, disk, journal, tries, asked>>
  BY OpenOpens DEF OpenManager, ManagerOpens, RepairInv, At
<1> DEFINE s == [tab[t].s EXCEPT !.cand = w.id]
           x == [tab[t] EXCEPT !.at = "admitting", !.s = s]
<1>2. /\ s \in Sessions /\ s.prev = tab[t].s.prev /\ s.old = tab[t].s.old
      /\ s.interrupted = tab[t].s.interrupted /\ s.cand = w.id /\ s.wallet
  BY <1>1, TabHasType DEF RepairInv, StepsAgree, Sessions, Ids, Workers
<1>3. tab' = [tab EXCEPT ![t] = x]
  BY <1>1 DEF ManagerOpens
<1> HIDE DEF s
<1>4. x \in TabStates /\ x.at = "admitting" /\ x.mem = tab[t].mem /\ x.rec = tab[t].rec /\ x.s = s
  BY <1>2 DEF RepairInv, TabsTyped, TabStates, Ats
<1> HIDE DEF x
<1>5. TabsTyped' /\ Moves(t, "admitting", tab[t].mem, tab[t].rec, s)
  BY <1>3, <1>4, TabMoves, TabHasType DEF RepairInv
<1>6. WorldTyped' /\ FileIsWorker'
  BY <1>1 DEF RepairInv, WorldTyped, FileIsWorker, Opened
<1>7. OneOwner' /\ Staged' /\ OldIsOther'
  BY <1>1, <1>5, RepairAssumption DEF RepairInv, Moves, OneOwner, Owning, Staged, Staging, OldIsOther,
       NoWorker, Opened
<1>8. StepsAgree'
  BY <1>1, <1>2, <1>5, RepairAssumption DEF RepairInv, Moves, OneOwner, Owning, StepsAgree, Proven,
       Opened, NoWorker
<1>9. PendingNames' /\ CandidateIsJournaled' /\ InterruptedWasFound' /\ NewKeysAreNew'
  BY <1>1, <1>5 DEF RepairInv, Moves, PendingNames, CandidateIsJournaled, InterruptedWasFound,
       Candidates, Live, NewKeysAreNew, NamedIn, NoWorker, Undrawn, Opened
<1>10. FileIsNoPredecessor'
  BY <1>1, <1>5 DEF RepairInv, Moves, WorldTyped, FileIsNoPredecessor, NamedIn, WasCandidate, Asks,
       Hopeless, Opened
<1>11. MemoryKeepsFile' /\ FileStays'
  BY <1>1, <1>5 DEF RepairInv, Moves, StepsAgree, Proven, MemoryKeepsFile, FileStays, Workers, Undrawn,
       Opened
<1>12. NothingToRepair'
  BY <1>1, <1>2, <1>5 DEF RepairInv, Moves, NothingToRepair
<1>13. PreviousIsNamed'
  BY <1>5 DEF RepairInv, Moves, PreviousIsNamed, NamedIn
<1>14. AskedIsOwn'
  <2>1. \A u \in Tabs : Asks(u)' => Asks(u)
    BY <1>1, <1>5 DEF Moves, Asks, Hopeless, Opened
  <2>2. ASSUME NEW a \in asked, AtRisk(a)', Pure(a) PROVE Pure(a)'
    <3>1. {journal.id, journal.stale}' \subseteq {None, a}
      BY <1>1, <2>2 DEF Pure
    <3>2. \A u \in Tabs : {tab[u].mem.id, tab[u].mem.stale}' \subseteq {None, a}
      BY <1>5, <2>2 DEF Moves, Pure
    <3>3. \A u \in Tabs :
              Asks(u)' => {tab[u].rec.expected, tab[u].s.prev, tab[u].s.old}' \subseteq {None, a}
      BY <1>2, <1>5, <2>1, <2>2 DEF Moves, Pure
    <3>4. QED BY <3>1, <3>2, <3>3 DEF Pure
  <2>3. QED
    BY <1>1, <2>1, <2>2, AskedIsKept DEF RepairInv, WorldTyped, AtRisk, Opened, Undrawn
<1>15. QED BY <1>5, <1>6, <1>7, <1>8, <1>9, <1>10, <1>11, <1>12, <1>13, <1>14 DEF RepairInv

\* It registers its key, finds it registered, or deletes a file the ledger does not show.
LEMMA AdmitKeeps ==
  ASSUME RepairInv, NEW t \in Tabs, Admit(t)
  PROVE  RepairInv'
<1>1. /\ tab[t].at = "admitting"
      /\ UNCHANGED <<signer, ledger, landing, leaving, journal, faults, fellBack, tries, asked>>
  BY DEF Admit, At
<1>2. PICK to \in {"publishing", "verifying", "provisioning"} :
        /\ TabsTyped' /\ Moves(t, to, tab[t].mem, tab[t].rec, tab[t].s)
        /\ \/ to = "publishing" /\ ~worker.reg /\ UNCHANGED <<worker, disk>>
           \/ to = "verifying" /\ worker.reg /\ UNCHANGED <<worker, disk>>
           \/ to = "provisioning" /\ worker' = NoWorker /\ disk' = None
  BY StepMoves DEF Admit, RepairInv, Ats, Repairing
<1>3. worker.id # None
  BY <1>1, RepairAssumption DEF RepairInv, WorldTyped, OneOwner, Owning, NoWorker, Workers
<1>4. WorldTyped' /\ OneOwner' /\ StepsAgree' /\ Staged'
  BY <1>1, <1>2 DEF RepairInv, Moves, WorldTyped, OneOwner, Owning, StepsAgree, Proven, Staged,
       Staging, Ids
<1>5. PendingNames' /\ CandidateIsJournaled' /\ InterruptedWasFound' /\ NothingToRepair'
  BY <1>1, <1>2 DEF RepairInv, Moves, OneOwner, Owning, StepsAgree, PendingNames, CandidateIsJournaled,
       InterruptedWasFound, Candidates, Live, NothingToRepair
<1>6. NewKeysAreNew' /\ FileIsNoPredecessor'
  BY <1>1, <1>2 DEF RepairInv, Moves, OneOwner, Owning, NewKeysAreNew, FileIsNoPredecessor, NamedIn,
       WasCandidate, Asks, Hopeless
<1>7. MemoryKeepsFile' /\ FileStays'
  BY <1>1, <1>2 DEF RepairInv, Moves, OneOwner, Owning, Proven, Live, MemoryKeepsFile, NamedIn,
       WasCandidate, FileStays, NoWorker
<1>8. FileIsWorker' /\ PreviousIsNamed'
  BY <1>2 DEF RepairInv, Moves, FileIsWorker, PreviousIsNamed, NamedIn, NoWorker
<1>9. OldIsOther'
  BY <1>1, <1>2, <1>3 DEF RepairInv, Moves, OneOwner, Owning, StepsAgree, Staging, OldIsOther
<1>10. AskedIsOwn'
  <2>1. \A u \in Tabs : Asks(u)' => Asks(u)
    BY <1>1, <1>2, RepairAssumption DEF Moves, Asks, Hopeless, NoWorker
  <2>2. ASSUME NEW a \in asked, AtRisk(a)', Pure(a) PROVE Pure(a)'
    BY <1>1, <1>2, <2>1, <2>2 DEF Moves, Pure
  <2>3. \A a \in asked : AtRisk(a)' => AtRisk(a)
    <3>1. \A a \in asked : a # None
      BY RepairAssumption DEF RepairInv, WorldTyped
    <3>2. CASE UNCHANGED <<worker, disk>>
      BY <3>2 DEF AtRisk
    <3>3. CASE worker' = NoWorker /\ disk' = None
      BY <3>1, <3>3 DEF AtRisk, NoWorker
    <3>4. QED BY <1>2, <3>2, <3>3
  <2>4. asked' = asked /\ fellBack' = fellBack /\ (worker'.memory => worker.memory)
    BY <1>1, <1>2 DEF NoWorker
  <2>5. QED BY <2>1, <2>2, <2>3, <2>4, AskedIsKept DEF RepairInv, WorldTyped
<1>11. QED BY <1>2, <1>4, <1>5, <1>6, <1>7, <1>8, <1>9, <1>10 DEF RepairInv

\* The identity is stored; the one that was asked to be removed may be it.
LEMMA ProvisionedKeeps ==
  ASSUME RepairInv, NEW t \in Tabs, Provisioned(t)
  PROVE  RepairInv'
<1>1. /\ tab[t].at = "verifying" /\ tab[t].s.wallet /\ worker.reg /\ Visible(worker.id)
      /\ worker' = NoWorker
      /\ UNCHANGED <<signer, ledger, landing, leaving, disk, faults, fellBack, tries, asked>>
  BY DEF Provisioned, At
<1>2. worker \in Workers /\ worker.owner = t
  BY <1>1, RepairAssumption DEF RepairInv, WorldTyped, OneOwner, Owning, NoWorker
<1>3. /\ journal' = [id |-> worker.id, stale |-> None, pending |-> FALSE]
      /\ journal' \in Journals
  BY <1>2 DEF Provisioned, NoJournal, Journals, Ids, Workers
<1>4. TabsTyped' /\ Moves(t, "idle", journal', None, NoSession)
  <2>1. tab' = [tab EXCEPT ![t] = [Start(journal') EXCEPT !.at = "idle"]]
    BY DEF Provisioned, Start
  <2>2. QED BY <1>3, <2>1, StartMoves DEF RepairInv, Ats
<1>5. WorldTyped' /\ CandidateIsJournaled'
  BY <1>1, <1>3 DEF RepairInv, WorldTyped, CandidateIsJournaled, Candidates, Live
<1>6. OneOwner' /\ Staged' /\ InterruptedWasFound' /\ OldIsOther'
  BY <1>2, <1>4 DEF RepairInv, Moves, OneOwner, Owning, Staged, Staging, InterruptedWasFound,
       OldIsOther
<1>7. FileIsWorker' /\ PendingNames' /\ MemoryKeepsFile'
  BY <1>1 DEF FileIsWorker, PendingNames, MemoryKeepsFile, NoWorker
<1>8. StepsAgree'
  BY <1>2, <1>4, NoSessionIsEmpty DEF RepairInv, Moves, OneOwner, Owning, StepsAgree, Proven
<1>9. NothingToRepair'
  BY <1>2, <1>3, <1>4, RepairAssumption DEF RepairInv, Moves, NothingToRepair, Repairing, Workers
<1>10. NewKeysAreNew' /\ FileStays'
  BY <1>1, <1>4 DEF RepairInv, Moves, OneOwner, Owning, Proven, NewKeysAreNew, FileStays
<1>11. FileIsNoPredecessor'
  BY <1>1, <1>3, <1>4, RepairAssumption DEF RepairInv, Moves, FileIsNoPredecessor, NamedIn, WasCandidate,
       Asks, Hopeless, NoWorker
<1>12. PreviousIsNamed'
  BY <1>4 DEF RepairInv, Moves, PreviousIsNamed, NamedIn
<1>13. AskedIsOwn'
  <2>1. \A u \in Tabs : Asks(u)' => Asks(u)
    BY <1>1, <1>4, RepairAssumption DEF Moves, Asks, Hopeless, NoWorker
  <2>2. ASSUME NEW a \in asked, AtRisk(a)', Pure(a), ~worker.memory PROVE Pure(a)'
    <3>1. worker.id = a
      BY <1>1, <1>2, <2>2, RepairAssumption
         DEF RepairInv, WorldTyped, FileIsWorker, AtRisk, NoWorker
    <3>2. {journal.id, journal.stale}' \subseteq {None, a}
      BY <1>3, <3>1
    <3>3. \A u \in Tabs : {tab[u].mem.id, tab[u].mem.stale}' \subseteq {None, a}
      BY <1>3, <1>4, <2>2, <3>1 DEF Moves, Pure
    <3>4. \A u \in Tabs :
            Asks(u)' => {tab[u].rec.expected, tab[u].s.prev, tab[u].s.old}' \subseteq {None, a}
      BY <1>1, <1>4, <2>1, <2>2, NoSessionIsEmpty DEF RepairInv, Moves, StepsAgree, Pure
    <3>5. QED BY <3>2, <3>3, <3>4 DEF Pure
  <2>3. QED
    BY <1>1, RepairAssumption, <2>1, <2>2, AskedIsKept DEF RepairInv, WorldTyped, AtRisk, NoWorker
<1>14. QED BY <1>4, <1>5, <1>6, <1>7, <1>8, <1>9, <1>10, <1>11, <1>12, <1>13 DEF RepairInv

\* It fails, and leaves no journal.
LEMMA ProvisionFailsKeeps ==
  ASSUME RepairInv, NEW t \in Tabs, ProvisionFails(t)
  PROVE  RepairInv'
<1>1. /\ tab[t].s.wallet /\ worker.owner \in {t, None} /\ worker' = NoWorker
      /\ UNCHANGED <<signer, ledger, landing, leaving, disk, journal, faults, fellBack,
                     tries, asked>>
  BY DEF ProvisionFails
<1>2. TabsTyped' /\ Moves(t, "idle", journal, None, NoSession)
  <2>1. tab' = [tab EXCEPT ![t] = [Start(journal) EXCEPT !.at = "idle"]]
    BY DEF ProvisionFails, Start
  <2>2. QED BY <2>1, StartMoves DEF RepairInv, WorldTyped, Ats
<1>3. WorldTyped' /\ FileIsWorker' /\ PendingNames' /\ MemoryKeepsFile'
  BY <1>1 DEF RepairInv, WorldTyped, FileIsWorker, PendingNames, MemoryKeepsFile, NoWorker
<1>4. OneOwner' /\ Staged' /\ InterruptedWasFound' /\ OldIsOther'
  BY <1>1, <1>2, RepairAssumption DEF RepairInv, Moves, OneOwner, Owning, Staged, Staging,
       InterruptedWasFound, OldIsOther
<1>5. NewKeysAreNew' /\ FileIsNoPredecessor'
  BY <1>1, <1>2, RepairAssumption DEF RepairInv, Moves, OneOwner, Owning, NewKeysAreNew,
       FileIsNoPredecessor, NamedIn, WasCandidate, Asks, Hopeless, NoWorker
<1>6. StepsAgree'
  BY <1>1, <1>2, RepairAssumption, NoSessionIsEmpty DEF RepairInv, Moves, OneOwner, Owning, StepsAgree,
       Proven
<1>7. CandidateIsJournaled' /\ NothingToRepair' /\ FileStays'
  BY <1>1, <1>2 DEF RepairInv, Moves, Proven, CandidateIsJournaled, Candidates, Live, NothingToRepair,
       Repairing, FileStays
<1>8. PreviousIsNamed'
  BY <1>2 DEF RepairInv, Moves, PreviousIsNamed, NamedIn
<1>9. AskedIsOwn'
  <2>1. \A u \in Tabs : Asks(u)' => Asks(u)
    BY <1>1, <1>2, RepairAssumption DEF Moves, Asks, Hopeless, NoWorker
  <2>2. ASSUME NEW a \in asked, AtRisk(a)', Pure(a) PROVE Pure(a)'
    <3>1. {journal.id, journal.stale}' \subseteq {None, a}
      BY <1>1, <2>2 DEF Pure
    <3>2. \A u \in Tabs : {tab[u].mem.id, tab[u].mem.stale}' \subseteq {None, a}
      BY <1>2, <2>2 DEF Moves, Pure
    <3>3. \A u \in Tabs :
              Asks(u)' => {tab[u].rec.expected, tab[u].s.prev, tab[u].s.old}' \subseteq {None, a}
      BY <1>1, <1>2, NoSessionIsEmpty, <2>1, <2>2 DEF RepairInv, Moves, StepsAgree, Pure
    <3>4. QED BY <3>1, <3>2, <3>3 DEF Pure
  <2>3. QED
    BY <1>1, RepairAssumption, <2>1, <2>2, AskedIsKept DEF RepairInv, WorldTyped, AtRisk, NoWorker
<1>10. QED BY <1>2, <1>3, <1>4, <1>5, <1>6, <1>7, <1>8, <1>9 DEF RepairInv
-----------------------------------------------------------------------------
(* The actions: removals from elsewhere, and the world *)

\* A connected browser asks to remove another installation than its own.
LEMMA RevokeAnotherKeeps ==
  ASSUME RepairInv, NEW t \in Tabs, RevokeAnother(t)
  PROVE  RepairInv'
<1>1. PICK k \in ledger \ {worker.id} :
        /\ tab[t].at = "ready" /\ asked = {} /\ asked' = {k} /\ leaving' = leaving \cup {k}
        /\ UNCHANGED <<signer, ledger, landing, disk, worker, journal, tab, faults,
                       fellBack, tries>>
  BY DEF RevokeAnother, At
<1>2. TabsTyped'
  BY <1>1 DEF RepairInv, TabsTyped
<1>3. WorldTyped' /\ OneOwner' /\ FileIsWorker' /\ StepsAgree'
  BY <1>1 DEF RepairInv, WorldTyped, OneOwner, FileIsWorker, StepsAgree
<1>4. Staged' /\ PendingNames' /\ CandidateIsJournaled' /\ InterruptedWasFound'
  BY <1>1 DEF RepairInv, Staged, PendingNames, CandidateIsJournaled, InterruptedWasFound, Candidates,
       Live
<1>5. OldIsOther' /\ NothingToRepair' /\ NewKeysAreNew' /\ FileIsNoPredecessor'
  BY <1>1 DEF RepairInv, OldIsOther, NothingToRepair, NewKeysAreNew, FileIsNoPredecessor, NamedIn,
       WasCandidate, Asks, Hopeless
<1>6. MemoryKeepsFile' /\ PreviousIsNamed' /\ FileStays' /\ AskedIsOwn'
  BY <1>1 DEF RepairInv, FileIsWorker, StepsAgree, Proven, Live, MemoryKeepsFile, PreviousIsNamed,
       NamedIn, WasCandidate, FileStays, AskedIsOwn, AtRisk
<1>7. QED BY <1>2, <1>3, <1>4, <1>5, <1>6 DEF RepairInv

\* A removal is asked for before there is a journal: nobody may repair.
LEMMA RevokeOldestKeeps ==
  ASSUME RepairInv, NEW t \in Tabs, RevokeOldest(t)
  PROVE  RepairInv'
<1>1. PICK k \in ledger :
        /\ journal.id = None /\ asked = {} /\ asked' = {k} /\ leaving' = leaving \cup {k}
        /\ UNCHANGED <<signer, ledger, landing, disk, worker, journal, tab, faults,
                       fellBack, tries>>
  BY DEF RevokeOldest, At
<1>2. TabsTyped'
  BY <1>1 DEF RepairInv, TabsTyped
<1>3. WorldTyped' /\ OneOwner' /\ FileIsWorker' /\ StepsAgree'
  BY <1>1 DEF RepairInv, WorldTyped, OneOwner, FileIsWorker, StepsAgree
<1>4. Staged' /\ PendingNames' /\ CandidateIsJournaled' /\ InterruptedWasFound'
  BY <1>1 DEF RepairInv, Staged, PendingNames, CandidateIsJournaled, InterruptedWasFound, Candidates,
       Live
<1>5. OldIsOther' /\ NothingToRepair' /\ NewKeysAreNew' /\ FileIsNoPredecessor'
  BY <1>1 DEF RepairInv, OldIsOther, NothingToRepair, NewKeysAreNew, FileIsNoPredecessor, NamedIn,
       WasCandidate, Asks, Hopeless
<1>6. MemoryKeepsFile' /\ PreviousIsNamed' /\ FileStays' /\ AskedIsOwn'
  BY <1>1 DEF RepairInv, Live, NothingToRepair, MemoryKeepsFile, PreviousIsNamed, NamedIn, WasCandidate,
       FileStays, AskedIsOwn, Quiet, Pure, Asks
<1>7. QED BY <1>2, <1>3, <1>4, <1>5, <1>6 DEF RepairInv

\* What was accepted appears on the ledger.
LEMMA PublicationSettlesKeeps ==
  ASSUME RepairInv, PublicationSettles
  PROVE  RepairInv'
<1>1. PICK k \in landing :
        /\ landing' = landing \ {k} /\ ledger' = ledger \cup {k}
        /\ UNCHANGED <<signer, leaving, disk, worker, journal, tab, faults, fellBack,
                       tries, asked>>
  BY DEF PublicationSettles
<1>2. TabsTyped'
  BY <1>1 DEF RepairInv, TabsTyped
<1>3. WorldTyped' /\ OneOwner' /\ FileIsWorker' /\ StepsAgree'
  BY <1>1 DEF RepairInv, WorldTyped, OneOwner, FileIsWorker, StepsAgree
<1>4. Staged' /\ PendingNames' /\ CandidateIsJournaled' /\ InterruptedWasFound'
  BY <1>1 DEF RepairInv, Staged, PendingNames, CandidateIsJournaled, InterruptedWasFound, Candidates,
       Live
<1>5. OldIsOther' /\ NothingToRepair' /\ NewKeysAreNew' /\ FileIsNoPredecessor'
  BY <1>1 DEF RepairInv, OldIsOther, NothingToRepair, NewKeysAreNew, FileIsNoPredecessor, NamedIn,
       WasCandidate, Asks, Hopeless
<1>6. MemoryKeepsFile' /\ PreviousIsNamed' /\ FileStays'
  BY <1>1 DEF RepairInv, Live, MemoryKeepsFile, PreviousIsNamed, NamedIn, WasCandidate, FileStays
<1>7. AskedIsOwn'
  <2>1. \A u \in Tabs : Asks(u)' => Asks(u)
    BY <1>1 DEF Asks, Hopeless
  <2>2. ASSUME NEW a \in asked, AtRisk(a)', Pure(a) PROVE Pure(a)'
    BY <1>1, <2>1, <2>2 DEF Pure
  <2>3. QED
    BY <1>1, <2>1, <2>2, AskedIsKept DEF RepairInv, WorldTyped, AtRisk
<1>8. QED BY <1>2, <1>3, <1>4, <1>5, <1>6, <1>7 DEF RepairInv

\* A removed installation is not the one in the file, unless it was asked for.
LEMMA RevocationSettlesKeeps ==
  ASSUME RepairInv, RevocationSettles
  PROVE  RepairInv'
<1>1. PICK k \in leaving :
        /\ leaving' = leaving \ {k} /\ ledger' = ledger \ {k}
        /\ UNCHANGED <<signer, landing, disk, worker, journal, tab, faults, fellBack,
                       tries, asked>>
  BY DEF RevocationSettles
<1>2. TabsTyped'
  BY <1>1 DEF RepairInv, TabsTyped
<1>3. None \notin ledger \cup asked
  BY RepairAssumption DEF RepairInv, WorldTyped
<1>4. WorldTyped' /\ OneOwner' /\ FileIsWorker' /\ StepsAgree'
  BY <1>1 DEF RepairInv, WorldTyped, OneOwner, FileIsWorker, StepsAgree
<1>5. Staged' /\ PendingNames' /\ CandidateIsJournaled' /\ InterruptedWasFound'
  BY <1>1 DEF RepairInv, Staged, PendingNames, CandidateIsJournaled, InterruptedWasFound, Candidates,
       Live
<1>6. OldIsOther' /\ NothingToRepair' /\ NewKeysAreNew' /\ FileIsNoPredecessor'
  BY <1>1 DEF RepairInv, OldIsOther, NothingToRepair, NewKeysAreNew, FileIsNoPredecessor, NamedIn,
       WasCandidate, Asks, Hopeless
<1>7. MemoryKeepsFile' /\ PreviousIsNamed'
  BY <1>1 DEF RepairInv, Live, MemoryKeepsFile, PreviousIsNamed, NamedIn, WasCandidate
<1>8. FileStays'
  BY <1>1, <1>3 DEF RepairInv, FileStays
<1>9. AskedIsOwn'
  <2>1. \A u \in Tabs : Asks(u)' => Asks(u)
    BY <1>1 DEF Asks, Hopeless
  <2>2. ASSUME NEW a \in asked, AtRisk(a)', Pure(a) PROVE Pure(a)'
    BY <1>1, <2>1, <2>2 DEF Pure
  <2>3. QED
    BY <1>1, <2>1, <2>2, AskedIsKept DEF RepairInv, WorldTyped, AtRisk
<1>10. QED BY <1>2, <1>4, <1>5, <1>6, <1>7, <1>8, <1>9 DEF RepairInv

\* Another installation joins.
LEMMA OtherJoinsKeeps ==
  ASSUME RepairInv, OtherJoins
  PROVE  RepairInv'
<1>1. PICK k \in Others : 
        /\ ledger' = ledger \cup {k}
        /\ UNCHANGED <<signer, landing, leaving, disk, worker, journal, tab, faults, fellBack,
                       tries, asked>>
  BY DEF OtherJoins
<1>2. TabsTyped'
  BY <1>1 DEF RepairInv, TabsTyped
<1>3. k \notin Keys
  BY RepairAssumption
<1>4. k # disk /\ k \notin tries
  BY <1>3, RepairAssumption DEF RepairInv, WorldTyped, Ids
<1>5. WorldTyped' /\ OneOwner' /\ FileIsWorker' /\ StepsAgree'
  BY <1>1 DEF RepairInv, WorldTyped, OneOwner, FileIsWorker, StepsAgree
<1>6. Staged' /\ PendingNames' /\ OldIsOther' /\ NothingToRepair'
  BY <1>1 DEF RepairInv, Staged, PendingNames, OldIsOther, NothingToRepair
<1>7. NewKeysAreNew' /\ FileIsNoPredecessor' /\ PreviousIsNamed' /\ FileStays'
  BY <1>1 DEF RepairInv, NewKeysAreNew, FileIsNoPredecessor, PreviousIsNamed, NamedIn, WasCandidate,
       FileStays, Asks, Hopeless
<1>8. CandidateIsJournaled' /\ InterruptedWasFound' /\ MemoryKeepsFile'
  BY <1>1, <1>4 DEF RepairInv, CandidateIsJournaled, InterruptedWasFound, Candidates, Live,
       MemoryKeepsFile, NamedIn, WasCandidate
<1>9. AskedIsOwn'
  <2>1. \A u \in Tabs : Asks(u)' => Asks(u)
    BY <1>1 DEF Asks, Hopeless
  <2>2. ASSUME NEW a \in asked, AtRisk(a)', Pure(a) PROVE Pure(a)'
    BY <1>1, <2>1, <2>2 DEF Pure
  <2>3. QED
    BY <1>1, <2>1, <2>2, AskedIsKept DEF RepairInv, WorldTyped, AtRisk
<1>10. QED BY <1>2, <1>5, <1>6, <1>7, <1>8, <1>9 DEF RepairInv

\* The file is lost.
LEMMA FilesAreEvictedKeeps ==
  ASSUME RepairInv, FilesAreEvicted
  PROVE  RepairInv'
<1>1. /\ worker = NoWorker /\ disk # None /\ disk' = None /\ faults' \in 0 .. MaxFaults
      /\ UNCHANGED <<signer, ledger, landing, leaving, worker, journal, tab, fellBack,
                     tries, asked>>
  BY RepairAssumption DEF FilesAreEvicted, Fault, RepairInv, WorldTyped
<1>2. TabsTyped'
  BY <1>1 DEF RepairInv, TabsTyped
<1>3. WorldTyped' /\ OneOwner' /\ FileIsWorker' /\ StepsAgree'
  BY <1>1 DEF RepairInv, WorldTyped, OneOwner, FileIsWorker, StepsAgree, NoWorker, Ids
<1>4. Staged' /\ PendingNames' /\ CandidateIsJournaled' /\ InterruptedWasFound'
  BY <1>1 DEF RepairInv, Staged, PendingNames, CandidateIsJournaled, InterruptedWasFound, Candidates,
       Live
<1>5. OldIsOther' /\ NothingToRepair' /\ NewKeysAreNew' /\ FileIsNoPredecessor'
  BY <1>1 DEF RepairInv, OldIsOther, NothingToRepair, NewKeysAreNew, FileIsNoPredecessor
<1>6. MemoryKeepsFile' /\ PreviousIsNamed'
  BY <1>1 DEF RepairInv, MemoryKeepsFile, PreviousIsNamed, NamedIn, NoWorker
<1>7. FileStays'
  BY <1>1, RepairAssumption DEF RepairInv, OneOwner, Owning, Proven, FileStays, NoWorker
<1>8. AskedIsOwn'
  <2>1. \A u \in Tabs : Asks(u)' => Asks(u)
    BY <1>1 DEF Asks, Hopeless
  <2>2. ASSUME NEW a \in asked, AtRisk(a)', Pure(a) PROVE Pure(a)'
    BY <1>1, <2>1, <2>2 DEF Pure
  <2>3. QED
    BY <1>1, RepairAssumption, <2>1, <2>2, AskedIsKept DEF RepairInv, WorldTyped, AtRisk
<1>9. QED BY <1>2, <1>3, <1>4, <1>5, <1>6, <1>7, <1>8 DEF RepairInv
-----------------------------------------------------------------------------
(* The invariant *)

\* It holds at the start, whether the browser has an installation or none.
LEMMA InitRepairInv ==
  ASSUME Init PROVE RepairInv
<1>1. /\ journal \in Journals /\ ~journal.pending /\ journal.stale = None /\ journal.id = disk
      /\ disk \in Ids /\ ledger \subseteq Keys \cup Others
  <2> DEFINE first == CHOOSE k \in Keys : \A other \in Keys : k <= other
  <2>1. first \in Keys
    BY HasLeast, RepairAssumption
  <2>2. \/ journal = [NoJournal EXCEPT !.id = first] /\ disk = first
           /\ \E o \in SUBSET Others : ledger = o \cup {first}
        \/ journal = NoJournal /\ disk = None /\ ledger \in SUBSET Others
    BY DEF Init
  <2> HIDE DEF first
  <2>3. NoJournal \in Journals /\ [NoJournal EXCEPT !.id = first] \in Journals
    BY <2>1 DEF NoJournal, Journals, Ids
  <2>4. CASE journal = [NoJournal EXCEPT !.id = first] /\ disk = first
    <3>1. ledger \subseteq Keys \cup Others
      BY <2>1, <2>2, <2>4
    <3>2. QED BY <2>1, <2>3, <2>4, <3>1 DEF NoJournal, Ids
  <2>5. CASE journal = NoJournal /\ disk = None /\ ledger \in SUBSET Others
    BY <2>3, <2>5 DEF NoJournal, Ids
  <2>6. QED BY <2>2, <2>4, <2>5
<1>2. /\ signer \in BOOLEAN /\ fellBack = FALSE /\ faults = 0 /\ worker = NoWorker
      /\ landing = {} /\ leaving = {} /\ tries = {} /\ asked = {}
  BY DEF Init
<1>3. /\ tab \in [Tabs -> TabStates]
      /\ \A t \in Tabs : /\ tab[t].at = "idle" /\ tab[t].mem = journal /\ tab[t].rec = None
                         /\ tab[t].s = NoSession
  <2>1. Start(journal) \in TabStates /\ tab = [t \in Tabs |-> Start(journal)]
    BY <1>1, NoSessionIsEmpty DEF Init, Start, TabStates, Ats
  <2>2. QED BY <2>1 DEF Start
<1>4. ~worker.reg /\ ~worker.memory
  BY <1>2 DEF NoWorker
<1>5. WorldTyped
  <2>1. faults \in 0..MaxFaults
    BY <1>2, RepairAssumption
  <2>2. QED BY <1>1, <1>2, <2>1 DEF WorldTyped
<1>6. TabsTyped
  BY <1>1, <1>3 DEF TabsTyped
<1>7. OneOwner /\ StepsAgree /\ Staged
  BY <1>3, NoSessionIsEmpty DEF OneOwner, Owning, StepsAgree, Proven, Staged, Staging
<1>8. FileIsWorker /\ PendingNames /\ NewKeysAreNew /\ MemoryKeepsFile
  BY <1>2, <1>3, <1>4 DEF FileIsWorker, PendingNames, NewKeysAreNew, MemoryKeepsFile
<1>9. CandidateIsJournaled /\ InterruptedWasFound
  BY <1>1, <1>2, <1>3 DEF CandidateIsJournaled, Candidates, InterruptedWasFound
<1>10. OldIsOther /\ NothingToRepair /\ FileIsNoPredecessor /\ PreviousIsNamed
  BY <1>1, <1>3 DEF OldIsOther, Staging, NothingToRepair, Repairing, FileIsNoPredecessor, Asks,
       PreviousIsNamed
<1>11. FileStays /\ AskedIsOwn
  BY <1>2, <1>3 DEF FileStays, Proven, AskedIsOwn
<1>12. QED BY <1>5, <1>6, <1>7, <1>8, <1>9, <1>10, <1>11 DEF RepairInv

\* Every step keeps it.
LEMMA NextRepairInv ==
  ASSUME RepairInv, [Next]_vars PROVE RepairInv'
<1>1. CASE UNCHANGED vars
  BY <1>1 DEF vars, RepairInv, WorldTyped, TabsTyped, OneOwner, FileIsWorker, StepsAgree, Staged,
     PendingNames, CandidateIsJournaled, Candidates, Live, InterruptedWasFound, OldIsOther,
     NothingToRepair, NewKeysAreNew, NamedIn, WasCandidate, FileIsNoPredecessor, Asks, Hopeless,
     MemoryKeepsFile, PreviousIsNamed, FileStays, AskedIsOwn, AtRisk, Quiet, Pure
<1>2. CASE WorldStep
  BY <1>2, PublicationSettlesKeeps, RevocationSettlesKeeps, OtherJoinsKeeps, FilesAreEvictedKeeps
     DEF WorldStep
<1>3. ASSUME NEW t \in Tabs, TabStep(t) PROVE RepairInv'
  <2>1. CASE \/ Connect(t) \/ ConnectRefused(t) \/ Disconnect(t) \/ BeginRepair(t)
             \/ OpenCandidate(t) \/ Inspect(t) \/ Prepare(t) \/ EnoughSlots(t)
             \/ RemovePredecessor(t) \/ PredecessorRemoved(t)
    BY <2>1, ConnectKeeps, ConnectRefusedKeeps, DisconnectKeeps, BeginRepairKeeps,
       OpenCandidateKeeps, InspectKeeps, PrepareKeeps, EnoughSlotsKeeps,
       RemovePredecessorKeeps, PredecessorRemovedKeeps
  <2>2. CASE \/ BeginRegistration(t) \/ Publish(t) \/ StoreRegistration(t) \/ RegisterThrows(t)
             \/ Verified(t) \/ Reopen(t) \/ NotDurable(t) \/ CleanUp(t) \/ CleanedUp(t)
             \/ Complete(t)
    BY <2>2, BeginRegistrationKeeps, PublishKeeps, StoreRegistrationKeeps, RegisterThrowsKeeps,
       VerifiedKeeps, ReopenKeeps, NotDurableKeeps, CleanUpKeeps, CleanedUpKeeps, CompleteKeeps
  <2>3. CASE Refused(t) \/ RegistrationRefused(t) \/ CallFails(t) \/ Reload(t)
    BY <2>3, RefusedKeeps, RegistrationRefusedKeeps, CallFailsKeeps, ReloadKeeps
  <2>4. CASE \/ BeginProvision(t) \/ OpenManager(t) \/ Admit(t) \/ Provisioned(t)
             \/ ProvisionFails(t) \/ RevokeAnother(t) \/ RevokeOldest(t)
    BY <2>4, BeginProvisionKeeps, OpenManagerKeeps, AdmitKeeps, ProvisionedKeeps,
       ProvisionFailsKeeps, RevokeAnotherKeeps, RevokeOldestKeeps
  <2>5. QED BY <1>3, <2>1, <2>2, <2>3, <2>4 DEF TabStep
<1>4. QED BY <1>1, <1>2, <1>3 DEF Next

\* In every state of every run the journal, the file, the worker and the tabs agree as
\* RepairInv says.
THEOREM RepairInvariance == Spec => []RepairInv
<1>1. Init => RepairInv
  BY InitRepairInv
<1>2. RepairInv /\ [Next]_vars => RepairInv'
  BY NextRepairInv
<1>3. QED BY <1>1, <1>2, PTL DEF Spec

\* Type correctness of InstallationRepair.
THEOREM RepairTypeCorrect == Spec => []TypeOK
<1>1. RepairInv => TypeOK
  BY DEF RepairInv, WorldTyped, TabsTyped, FileIsWorker, TypeOK, TabStates, Ats, Ids, Journals
<1>2. QED BY <1>1, RepairInvariance, PTL
-----------------------------------------------------------------------------
(* The three promises of a repair *)

\* However often a repair is interrupted and begun again, it never has two installations
\* of its own on the ledger or about to appear there.
THEOREM RepairsHaveOneCandidate == Spec => []OneCandidate
<1>1. RepairInv => OneCandidate
  <2> SUFFICES ASSUME RepairInv PROVE OneCandidate
    OBVIOUS
  <2>1. \A j, k \in Candidates : j = k
    BY DEF RepairInv, CandidateIsJournaled
  <2>2. Cardinality(Candidates) <= 1
    <3>1. CASE Candidates = {}
      BY <3>1, FS_EmptySet
    <3>2. CASE Candidates # {}
      <4>1. PICK k \in Candidates : TRUE
        BY <3>2
      <4>2. Candidates = {k}
        BY <2>1, <4>1
      <4>3. QED BY <4>2, FS_Singleton
    <3>3. QED BY <3>1, <3>2
  <2>3. QED BY <2>2 DEF OneCandidate, Candidates, Live
<1>2. QED BY <1>1, RepairInvariance, PTL

\* The tab that asks for a removal in a repair has its worker open, so that no other tab does.
LEMMA RemovalIsOfOld ==
  ASSUME RepairInv, Next, NEW t \in Tabs, tab[t].at \in {"capacity", "cleanup"},
         NEW k \in leaving' \ leaving
  PROVE  /\ k = tab[t].s.old /\ k \in ledger
         /\ tab[t].at = "capacity" => Full
<1>1. worker.owner = t /\ journal.id # None
  BY RepairAssumption DEF RepairInv, OneOwner, Owning, Staged, Staging, StepsAgree, WorldTyped
<1>2. PICK u \in Tabs : RemovePredecessor(u) \/ CleanUp(u) \/ RevokeAnother(u) \/ RevokeOldest(u)
  <2>1. WorldStep => leaving' \subseteq leaving
    BY DEF WorldStep, PublicationSettles, RevocationSettles, OtherJoins, FilesAreEvicted
  <2>2. \A u \in Tabs : TabStep(u) =>
          \/ RemovePredecessor(u) \/ CleanUp(u) \/ RevokeAnother(u) \/ RevokeOldest(u)
          \/ leaving' = leaving
    <3>1. ASSUME NEW u \in Tabs,
                 \/ Connect(u) \/ ConnectRefused(u) \/ Disconnect(u) \/ BeginRepair(u)
                 \/ OpenCandidate(u) \/ Inspect(u) \/ Prepare(u) \/ EnoughSlots(u)
                 \/ PredecessorRemoved(u) \/ BeginRegistration(u) \/ Publish(u)
          PROVE  leaving' = leaving
      BY <3>1, Zenon DEF Connect, ConnectRefused, Disconnect, BeginRepair, OpenCandidate, Inspect,
         Prepare, EnoughSlots, PredecessorRemoved, BeginRegistration, Publish
    <3>2. ASSUME NEW u \in Tabs,
                 \/ StoreRegistration(u) \/ RegisterThrows(u) \/ Verified(u) \/ Reopen(u)
                 \/ NotDurable(u) \/ CleanedUp(u) \/ Complete(u) \/ Refused(u)
                 \/ RegistrationRefused(u) \/ CallFails(u) \/ Reload(u)
          PROVE  leaving' = leaving
      BY <3>2, Zenon DEF StoreRegistration, RegisterThrows, Verified, Reopen, NotDurable,
           CleanedUp,
         Complete, Refused, RegistrationRefused, CallFails, Reload, Fails
    <3>3. ASSUME NEW u \in Tabs,
                 \/ BeginProvision(u) \/ OpenManager(u) \/ Admit(u) \/ Provisioned(u)
                 \/ ProvisionFails(u)
          PROVE  leaving' = leaving
      BY <3>3, Zenon DEF BeginProvision, OpenManager, Admit, Provisioned, ProvisionFails
    <3>4. QED BY <3>1, <3>2, <3>3 DEF TabStep
  <2>3. QED BY <2>1, <2>2 DEF Next
<1>3. CASE RemovePredecessor(u)
  BY <1>1, <1>3 DEF RemovePredecessor, RepairInv, OneOwner, Owning, At, Visible, HasSlot
<1>4. CASE CleanUp(u)
  BY <1>1, <1>4 DEF CleanUp, RepairInv, OneOwner, Owning, At, Visible
<1>5. ~RevokeAnother(u)
  BY <1>1 DEF RevokeAnother, RepairInv, OneOwner, Owning, At
<1>6. ~RevokeOldest(u)
  BY <1>1 DEF RevokeOldest
<1>7. QED BY <1>2, <1>3, <1>4, <1>5, <1>6

\* In every step of every run a repair asks for a removal only when the inbox is full or
\* the replacement works, and never for the installation in the file.
THEOREM RepairsKeepAnInstallation == Spec => PredecessorOutlivesReplacement
<1>1. RepairInv /\ [Next]_vars => RemovalStep
  <2> SUFFICES ASSUME RepairInv, [Next]_vars, NEW t \in Tabs, NEW k \in leaving' \ leaving,
                      tab[t].at \in {"capacity", "cleanup"}
               PROVE  k # disk /\ (Full \/ (disk # None /\ Visible(disk)))
    BY DEF RemovalStep
  <2>1. Next
    BY DEF vars
  <2>2. k = tab[t].s.old /\ k \in ledger /\ (tab[t].at = "capacity" => Full)
    BY <2>1, RemovalIsOfOld
  <2>3. /\ worker.owner = t /\ worker # NoWorker /\ tab[t].rec # None /\ k # worker.id /\ k # None
    BY <2>2, RepairAssumption DEF RepairInv, OneOwner, Owning, NoWorker, NothingToRepair, Repairing,
       StepsAgree, OldIsOther, Staging, WorldTyped
  <2>4. k # disk
    <3>1. CASE worker.memory
      BY <2>2, <2>3, <3>1 DEF RepairInv, MemoryKeepsFile, Live
    <3>2. CASE ~worker.memory
      BY <2>3, <3>2 DEF RepairInv, FileIsWorker
    <3>3. QED BY <3>1, <3>2
  <2>5. CASE tab[t].at = "cleanup"
    <3>1. disk = worker.id /\ disk # None /\ disk \in ledger \cup asked
      BY <2>3, <2>5, RepairAssumption DEF RepairInv, StepsAgree, Proven, FileIsWorker, FileStays,
         WorldTyped, Workers
    <3>2. ~Quiet /\ ~Pure(disk)
      BY <2>2, <2>3, <2>5, <3>1 DEF Quiet, Pure, Asks, Hopeless
    <3>3. disk \notin asked
      BY <3>2 DEF RepairInv, AskedIsOwn, AtRisk
    <3>4. QED BY <2>4, <3>1, <3>3 DEF Visible
  <2>6. QED BY <2>2, <2>4, <2>5
<1>2. QED BY <1>1, RepairInvariance, PTL DEF Spec, PredecessorOutlivesReplacement

\* A tab comes to report a connection by Connect and Complete only.
LEMMA BecomesReady ==
  ASSUME TabsTyped, NEW u \in Tabs, TabStep(u), ~Connect(u), ~Complete(u),
         NEW t \in Tabs, tab'[t].at = "ready"
  PROVE  tab[t].at = "ready"
<1>1. CASE \E to \in Ats \ {"ready"} : Step(u, to)
  BY <1>1 DEF Step, TabsTyped
<1>2. CASE \E r : Stops(u, r)
  BY <1>2 DEF Stops, TabsTyped
<1>3. CASE \E j : tab' = [tab EXCEPT ![u] = Start(j)]
  BY <1>3 DEF Start, TabsTyped
<1>4. CASE UNCHANGED tab
  BY <1>4
<1>5. CASE BeginRepair(u)
  BY <1>5 DEF BeginRepair, TabsTyped, At
<1>6. CASE \/ ConnectRefused(u) \/ Prepare(u) \/ PredecessorRemoved(u) \/ CleanedUp(u)
           \/ BeginProvision(u) \/ OpenManager(u)
  <2>1. tab'[u].at # "ready" /\ (t # u => tab'[t] = tab[t])
    <3>1. CASE ConnectRefused(u)
      BY <3>1 DEF ConnectRefused, TabsTyped, TabStates, At
    <3>2. CASE Prepare(u)
      BY <3>2 DEF Prepare, TabsTyped, TabStates
    <3>3. CASE PredecessorRemoved(u) \/ CleanedUp(u)
      BY <3>3 DEF PredecessorRemoved, CleanedUp, TabsTyped, TabStates
    <3>4. CASE BeginProvision(u) \/ OpenManager(u)
      BY <3>4 DEF BeginProvision, OpenManager, TabsTyped, TabStates
    <3>5. QED BY <1>6, <3>1, <3>2, <3>3, <3>4
  <2>2. QED BY <2>1
<1>7. CASE RemovePredecessor(u) \/ CleanUp(u)
  <2>1. \/ \E to \in {"registering", "removing", "completing", "cleaning"} : Step(u, to)
        \/ \E to \in {"registering", "completing"} :
             tab' = [tab EXCEPT ![u].at = to, ![u].s.gone = TRUE]
    BY <1>7, Zenon DEF RemovePredecessor, CleanUp
  <2>2. CASE \E to \in {"registering", "removing", "completing", "cleaning"} : Step(u, to)
    BY <1>1, <2>2 DEF Ats, Repairing
  <2>3. CASE \E to \in {"registering", "completing"} :
               tab' = [tab EXCEPT ![u].at = to, ![u].s.gone = TRUE]
    <3>1. tab'[u].at # "ready" /\ (t # u => tab'[t] = tab[t])
      BY <2>3 DEF TabsTyped, TabStates
    <3>2. QED BY <3>1
  <2>4. QED BY <2>1, <2>2, <2>3
<1>8. CASE \/ Disconnect(u) \/ OpenCandidate(u) \/ Inspect(u) \/ EnoughSlots(u)
           \/ BeginRegistration(u) \/ Publish(u) \/ StoreRegistration(u) \/ RegisterThrows(u)
           \/ Verified(u) \/ Reopen(u) \/ Admit(u)
  <2>1. \E to \in Ats \ {"ready"} : Step(u, to)
    BY <1>8 DEF Disconnect, OpenCandidate, Inspect, EnoughSlots, BeginRegistration, Publish,
       StoreRegistration, RegisterThrows, Verified, Reopen, Admit, Ats, Repairing
  <2>2. QED BY <1>1, <2>1
<1>9. CASE \/ NotDurable(u) \/ Refused(u) \/ RegistrationRefused(u) \/ CallFails(u)
           \/ Reload(u) \/ Provisioned(u) \/ ProvisionFails(u)
           \/ RevokeAnother(u) \/ RevokeOldest(u)
  BY <1>2, <1>3, <1>4, <1>9 DEF NotDurable, Refused, RegistrationRefused, CallFails, Fails,
     Reload, Provisioned, ProvisionFails, RevokeAnother, RevokeOldest
<1>10. QED BY <1>5, <1>6, <1>7, <1>8, <1>9 DEF TabStep

\* In every run a tab that comes to report a connection has its installation in the file and
\* on the ledger, unless another flow removed it there.
THEOREM ReadyTabsAreDurable == Spec => SuccessIsDurable
<1>1. RepairInv /\ [Next]_vars => ReadyStep
  <2> SUFFICES ASSUME RepairInv, [Next]_vars, NEW t \in Tabs, tab[t].at # "ready", tab'[t].at = "ready"
               PROVE  disk = journal'.id /\ worker'.id = disk /\ disk \in ledger \cup asked
    BY DEF ReadyStep
  <2>1. PICK u \in Tabs : TabStep(u)
    BY DEF vars, Next, WorldStep, PublicationSettles, RevocationSettles, OtherJoins,
         FilesAreEvicted
  <2>2. CASE Connect(u)
    <3>1. PICK w \in Workers :
            /\ Opened(u, w) /\ worker' = w /\ w.reg /\ Visible(w.id)
            /\ journal' = [Ready(journal, w.id, tab[u].mem.id) EXCEPT !.pending = FALSE]
      BY <2>2, OpenOpens DEF Connect, Adoptable, Resumable, RepairInv
    <3>2. journal'.id = w.id
      BY <3>1 DEF RepairInv, WorldTyped, Journals, Ready
    <3>3. QED BY <3>1, <3>2 DEF Opened, Visible
  <2>3. CASE Complete(u)
    <3>1. tab[u].at = "completing" /\ worker' = worker
          /\ journal' = IF tab[u].s.gone
                        THEN [[Ready(journal, tab[u].s.cand, None) EXCEPT !.pending = FALSE]
                              EXCEPT !.stale = None]
                        ELSE [Ready(journal, tab[u].s.cand, None) EXCEPT !.pending = FALSE]
      BY <2>3 DEF Complete, At
    <3>2. journal'.id = tab[u].s.cand
      BY <3>1 DEF RepairInv, WorldTyped, Journals, Ready
    <3>3. worker.reg /\ ~worker.memory /\ tab[u].s.cand = worker.id /\ disk \in ledger \cup asked
      BY <3>1 DEF RepairInv, StepsAgree, Proven, Staged, Staging, FileStays
    <3>4. QED BY <3>1, <3>2, <3>3 DEF RepairInv, FileIsWorker
  <2>4. CASE ~Connect(u) /\ ~Complete(u)
    BY <2>1, <2>4, BecomesReady DEF RepairInv
  <2>5. QED BY <2>2, <2>3, <2>4
<1>2. QED BY <1>1, RepairInvariance, PTL DEF Spec, SuccessIsDurable

-----------------------------------------------------------------------------
(***************************************************************************)
(* InboxLifecycle                                                          *)
(***************************************************************************)

(* What has a type *)

Ops == {"none", "opening", "creating", "returning", "revoking", "clearing", "forgetting",
        "forgotten", "wiping"}
Burning == {"revoking", "clearing", "forgetting", "forgotten"}
Optional == Inboxes \cup {NoInbox}
PageRecords ==
  [entries : SUBSET Inboxes, current : Optional, hydrated : BOOLEAN, session : Optional,
   authed : BOOLEAN, client : Optional, boot : Runs, user : Runs, op : Ops,
   noted : SUBSET Inboxes, prev : Optional]

\* The files, the rows and the registry, apart from the pages.
ProfileTyped ==
  /\ key \in [Inboxes -> {"none", "draft", "staged", "ready"}]
  /\ file \in [Inboxes -> {"none", "blank", "registered"}]
  /\ entries \subseteq Inboxes /\ current \in Optional /\ force \in Optional
  /\ Keyfiles \subseteq network /\ network \subseteq Inboxes
  /\ ours \subseteq network \ Keyfiles
  /\ gone \subseteq Inboxes /\ discarded \subseteq Inboxes /\ late \subseteq Inboxes
CountersTyped == pageFaults \in 0..MaxPageFaults /\ acts \in 0..MaxActs
PagesTyped == page \in [Pages -> PageRecords]
-----------------------------------------------------------------------------
(* The inductive invariant *)

\* The key of i is stored, unless it was burned, or dropped by a create that should not have.
Held(i) == key[i] # "none" \/ i \in gone \cup discarded

\* ... and it is not a row that a create may drop: it has its ids, or is a keyfile's.
Safe(i) ==
  \/ key[i] \in {"staged", "ready"} \/ i \in gone \cup discarded
  \/ i \in Keyfiles /\ key[i] = "draft"

\* A connect holds a key, and from its publication on one that no create drops; while
\* it has the worker, the worker has its database.
RunOK(t, s) ==
  LET run == page[t][s] IN
  /\ run.at # "none" => run.inbox \in Inboxes
  /\ run.at \in {"connect", "stage"} => Held(run.inbox)
  /\ run.at \in {"publish", "save", "profile"} => Safe(run.inbox)
  /\ s = "user" /\ run.at = "mark" => Safe(run.inbox)
  /\ run.at \in {"stage", "publish"} => page[t].client = run.inbox
RunsOK(t) ==
  /\ RunOK(t, "boot") /\ RunOK(t, "user")
  /\ page[t].boot.at \in {"stage", "publish"} => page[t].user.at \notin {"stage", "publish"}

\* What the session of a page is at each point.
Drafting(t) == page[t].op = "creating" /\ page[t].user.at # "none"
SessionOK(t) ==
  /\ ~page[t].hydrated => page[t] = NewPage
  /\ page[t].authed => page[t].session \in Inboxes
  /\ page[t].authed /\ ~Drafting(t) => Safe(page[t].session)
  /\ Drafting(t) =>
       /\ page[t].session \in Inboxes
       /\ page[t].session = page[t].user.inbox \/ Safe(page[t].session)
  /\ page[t].prev # NoInbox => Drafting(t) /\ page[t].authed /\ Safe(page[t].prev)
  /\ page[t].op = "creating" => page[t].user.inbox \in Inboxes /\ page[t].noted \cap Keyfiles = {}
  /\ page[t].op = "creating" /\ ~page[t].authed => page[t].boot = Idle
  /\ Drafting(t) /\ page[t].authed => page[t].prev # NoInbox
  /\ page[t].op \notin {"creating", "returning"} => page[t].user = Idle
  /\ page[t].op = "returning" => page[t].user.inbox = page[t].session /\ page[t].authed
  /\ page[t].op \in Burning => page[t].authed
  /\ Drafting(t) \/ page[t].op \notin Burning \cup {"creating"} => page[t].noted = {}

\* The boot of a page is that of its session, or of the one a create has put aside.
BootOK(t) ==
  page[t].boot # Idle =>
    page[t].boot.inbox = IF page[t].prev = NoInbox THEN page[t].session ELSE page[t].prev

\* What a burn has removed so far is removed, or came back by another flow.
BurntOK(t) ==
  LET i == page[t].session IN
  page[t].op \in {"forgetting", "forgotten"} /\ i \notin late =>
    /\ file[i] = "none" /\ ~IsOpen(i)
    /\ page[t].op = "forgotten" => key[i] = "none"

PageOK(t) == RunsOK(t) /\ SessionOK(t) /\ BootOK(t) /\ BurntOK(t)
PagesOK == \A t \in Pages : PageOK(t)

\* A key that was generated and is not stored yet is known to one page only.
Fresh(t) ==
  /\ page[t].op = "creating" /\ page[t].user.at = "none" /\ ~page[t].user.ids
  /\ page[t].user.inbox \notin Keyfiles
Unknown(i, t) ==
  /\ key[i] = "none" /\ i \notin network
  /\ \A u \in Pages :
       /\ i \notin {page[u].session, page[u].prev, page[u].boot.inbox}
       /\ u # t => i # page[u].user.inbox
FreshAreUnknown == \A t \in Pages : Fresh(t) => Unknown(page[t].user.inbox, t)

OursOK == \A i \in ours : Safe(i)
LockOK == \A t, u \in Pages : t # u /\ page[t].client # NoInbox => page[t].client # page[u].client

LifecycleInv ==
  /\ ProfileTyped /\ CountersTyped /\ PagesTyped
  /\ PagesOK /\ FreshAreUnknown /\ OursOK /\ LockOK
-----------------------------------------------------------------------------
(* One page takes a step *)

USE LifecycleAssumption

\* The record of a page and its fields have their types.
LEMMA PageIs ==
  ASSUME PagesTyped, NEW t \in Pages
  PROVE  /\ page[t] \in PageRecords
         /\ page[t].boot \in Runs /\ page[t].user \in Runs
         /\ page[t].session \in Optional /\ page[t].prev \in Optional
         /\ page[t].client \in Optional /\ page[t].current \in Optional
         /\ page[t].authed \in BOOLEAN /\ page[t].hydrated \in BOOLEAN
         /\ page[t].noted \subseteq Inboxes /\ page[t].entries \subseteq Inboxes
         /\ page[t].op \in Ops
BY DEF PagesTyped, PageRecords

\* A page becomes another record, and no other page does.
LEMMA Replaced ==
  ASSUME PagesTyped, NEW t \in Pages, NEW r \in PageRecords, Becomes(t, r)
  PROVE  PagesTyped' /\ page'[t] = r /\ \A u \in Pages \ {t} : page'[u] = page[u]
BY DEF PagesTyped, Becomes

\* The inboxes a page may speak of.
Names(t) == {page[t].session, page[t].prev, page[t].boot.inbox, page[t].user.inbox}

\* What has to be shown of a step of page t that takes no key from another page.
LEMMA Frame ==
  ASSUME LifecycleInv, NEW t \in Pages, NEW r \in PageRecords, Becomes(t, r),
         ProfileTyped', CountersTyped', PageOK(t)', OursOK',
         \A u \in Pages \ {t} : \A i \in Names(u) \cap Inboxes :
           (Safe(i) => Safe(i)') /\ (Held(i) /\ UnderWay(i) => Held(i)'),
         Fresh(t)' => Unknown(r.user.inbox, t)',
         \A u \in Pages \ {t} : Fresh(u) => Unknown(page[u].user.inbox, u)',
         \A u \in Pages \ {t} : BurntOK(u)',
         r.client # NoInbox => \A u \in Pages \ {t} : page[u].client # r.client
  PROVE  LifecycleInv'
<1>1. PagesTyped' /\ page'[t] = r /\ \A u \in Pages \ {t} : page'[u] = page[u]
  BY Replaced DEF LifecycleInv
<1>2. ASSUME NEW u \in Pages \ {t} PROVE PageOK(u)'
  <2>1. PageOK(u) /\ page'[u] = page[u] /\ page[u] \in PageRecords
    BY <1>1, PageIs DEF LifecycleInv, PagesOK
  <2>a. ASSUME NEW s \in Slots PROVE RunOK(u, s)'
    <3>1. RunOK(u, s) /\ page[u][s].inbox \in Names(u)
      BY <2>1, <2>a DEF PageOK, RunsOK, Slots, Names
    <3>2. page[u][s].at # "none" => UnderWay(page[u][s].inbox)
      BY <2>a DEF UnderWay
    <3>3. QED BY <2>1, <3>1, <3>2 DEF RunOK
  <2>2. RunsOK(u)'
    BY <2>1, <2>a DEF PageOK, RunsOK, Slots
  <2>3. SessionOK(u)'
    BY <2>1 DEF PageOK, SessionOK, Drafting, PageRecords, Optional, Names
  <2>4. BootOK(u)'
    BY <2>1 DEF PageOK, BootOK
  <2>5. QED BY <2>2, <2>3, <2>4 DEF PageOK
<1>3. PagesOK'
  BY <1>2 DEF PagesOK
<1>4. FreshAreUnknown'
  BY <1>1 DEF FreshAreUnknown, Fresh
<1>5. LockOK'
  BY <1>1 DEF LifecycleInv, LockOK
<1>6. QED BY <1>1, <1>3, <1>4, <1>5 DEF LifecycleInv
\* What another page has generated and not stored is in no hands of this one.
LEMMA Elsewhere ==
  ASSUME LifecycleInv, NEW t \in Pages, NEW u \in Pages \ {t}, Fresh(u)
  PROVE  LET i == page[u].user.inbox IN
         /\ i \in Inboxes \ Keyfiles /\ key[i] = "none" /\ i \notin network /\ i \notin ours
         /\ i \notin {page[t].session, page[t].prev, page[t].boot.inbox, page[t].user.inbox,
                      NoInbox}
BY DEF LifecycleInv, FreshAreUnknown, Unknown, Fresh, PagesOK, PageOK, SessionOK, ProfileTyped

\* A step that leaves the keys, the files and the history alone.
LEMMA OnePageMoves ==
  ASSUME LifecycleInv, NEW t \in Pages, NEW r \in PageRecords, Becomes(t, r),
         UNCHANGED <<key, file, network, history>>,
         entries' \subseteq Inboxes, current' \in Optional, force' \in Optional,
         CountersTyped',
         RunsOK(t)', SessionOK(t)', BootOK(t)', BurntOK(t)',
         r.client \in {page[t].client, NoInbox},
         Fresh(t)' => Unknown(r.user.inbox, t)',
         \A u \in Pages \ {t} : Fresh(u) =>
           page[u].user.inbox \notin {r.session, r.prev, r.boot.inbox, r.user.inbox}
  PROVE  LifecycleInv'
<1>1. PagesTyped' /\ page'[t] = r /\ \A u \in Pages \ {t} : page'[u] = page[u]
  BY Replaced DEF LifecycleInv
<1>2. ProfileTyped'
  BY DEF LifecycleInv, ProfileTyped, history
<1>3. \A i \in Inboxes : (Safe(i) => Safe(i)') /\ (Held(i) => Held(i)')
  BY DEF Safe, Held, history
<1>4. OursOK'
  BY DEF LifecycleInv, OursOK, Safe, history
<1>5. ASSUME NEW u \in Pages \ {t}, Fresh(u) PROVE Unknown(page[u].user.inbox, u)'
  BY <1>1, <1>5 DEF LifecycleInv, FreshAreUnknown, Unknown
<1>6. ASSUME NEW u \in Pages \ {t} PROVE BurntOK(u)'
  <2>1. BurntOK(u) /\ page'[u] = page[u] /\ (page[u].op \in Burning => page[u].session \in Inboxes)
    BY <1>1 DEF LifecycleInv, PagesOK, PageOK, SessionOK
  <2>2. ASSUME page[u].session \in Inboxes, IsOpen(page[u].session)'
        PROVE  IsOpen(page[u].session)
    BY <1>1, <2>1, <2>2 DEF IsOpen
  <2>3. QED BY <2>1, <2>2 DEF BurntOK, Burning, history
<1>7. r.client # NoInbox => \A u \in Pages \ {t} : page[u].client # r.client
  BY DEF LifecycleInv, LockOK
<1>8. PageOK(t)'
  BY DEF PageOK
<1>9. QED BY <1>2, <1>3, <1>4, <1>5, <1>6, <1>7, <1>8, Frame
\* ... nor names an inbox the page did not name.
LEMMA Stays ==
  ASSUME LifecycleInv, NEW t \in Pages, NEW r \in PageRecords, Becomes(t, r),
         UNCHANGED <<key, file, network, history>>,
         entries' \subseteq Inboxes, current' \in Optional, force' \in Optional,
         CountersTyped',
         RunsOK(t)', SessionOK(t)', BootOK(t)', BurntOK(t)',
         Fresh(t)' => /\ Fresh(t) /\ r.user = page[t].user
                      /\ {r.session, r.prev, r.boot.inbox} \subseteq
                           {page[t].session, page[t].prev, page[t].boot.inbox, NoInbox},
         r.client \in {page[t].client, NoInbox},
         {r.session, r.prev, r.boot.inbox, r.user.inbox} \subseteq
           {page[t].session, page[t].prev, page[t].boot.inbox, page[t].user.inbox, NoInbox}
  PROVE  LifecycleInv'
<1>1. ASSUME NEW u \in Pages \ {t}, Fresh(u)
      PROVE  page[u].user.inbox \notin {r.session, r.prev, r.boot.inbox, r.user.inbox}
  BY <1>1, Elsewhere
<1>2. ASSUME Fresh(t)' PROVE Unknown(r.user.inbox, t)'
  <2>1. Unknown(r.user.inbox, t) /\ r.user.inbox \in Inboxes
    BY <1>2 DEF LifecycleInv, FreshAreUnknown, PagesOK, PageOK, SessionOK, Fresh
  <2>2. page'[t] = r /\ \A u \in Pages \ {t} : page'[u] = page[u]
    BY Replaced DEF LifecycleInv
  <2>3. QED BY <1>2, <2>1, <2>2 DEF Unknown
<1>3. QED BY <1>1, <1>2, OnePageMoves

\* What is known of a page before its step.
LEMMA Known ==
  ASSUME LifecycleInv, NEW t \in Pages
  PROVE  /\ page[t] \in PageRecords /\ page[t].boot \in Runs /\ page[t].user \in Runs
         /\ page[t].session \in Optional /\ page[t].prev \in Optional
         /\ page[t].client \in Optional
         /\ RunsOK(t) /\ SessionOK(t) /\ BootOK(t) /\ BurntOK(t)
         /\ entries \subseteq Inboxes /\ current \in Optional /\ force \in Optional
BY PageIs DEF LifecycleInv, PagesOK, PageOK, ProfileTyped

\* Who holds a key holds it as long as the keys and their history stay.
LEMMA SameKeys ==
  ASSUME UNCHANGED <<key, gone, discarded>>
  PROVE  \A i \in Inboxes : (Safe(i)' <=> Safe(i)) /\ (Held(i)' <=> Held(i))
BY DEF Safe, Held

\* What a burn removed stays removed while no page opens a database.
LEMMA BurntStays ==
  ASSUME LifecycleInv, NEW t \in Pages, NEW r \in PageRecords, Becomes(t, r),
         UNCHANGED <<key, file, late>>, r.client \in {page[t].client, NoInbox},
         r.op \notin {"forgetting", "forgotten"} \/
           (r.op = page[t].op /\ r.session = page[t].session)
  PROVE  BurntOK(t)'
<1>1. page'[t] = r /\ \A u \in Pages \ {t} : page'[u] = page[u]
  BY Replaced DEF LifecycleInv
<1>2. CASE r.op \notin {"forgetting", "forgotten"}
  BY <1>1, <1>2 DEF BurntOK
<1>3. CASE r.op \in {"forgetting", "forgotten"} /\ r.op = page[t].op
           /\ r.session = page[t].session
  <2>1. BurntOK(t) /\ page[t].session \in Inboxes
    BY <1>3, Known DEF SessionOK, Burning
  <2>2. IsOpen(page[t].session)' => IsOpen(page[t].session)
    BY <1>1, <1>3, <2>1 DEF IsOpen
  <2>3. QED BY <1>1, <1>3, <2>1, <2>2 DEF BurntOK
<1>4. QED BY <1>2, <1>3
-----------------------------------------------------------------------------
(* Boot and the session *)

\* A page that has just loaded claims nothing.
LEMMA NewPageIs ==
  /\ NewPage \in PageRecords /\ Idle \in Runs
  /\ Idle.at = "none" /\ Idle.inbox = NoInbox /\ Idle.ids = FALSE
BY DEF NewPage, Idle, PageRecords, Runs, Ops, Optional

\* A page that reloads forgets everything it held in RAM.
LEMMA Reloads ==
  ASSUME LifecycleInv, NEW t \in Pages, ReloadPage(t), UNCHANGED <<key, file, network, history>>,
         entries' \subseteq Inboxes, current' \in Optional, force' \in Optional, CountersTyped'
  PROVE  LifecycleInv'
<1>1. Becomes(t, NewPage) /\ page'[t] = NewPage
  BY Replaced, NewPageIs DEF ReloadPage, LifecycleInv
<1>2. RunsOK(t)'
  BY <1>1 DEF RunsOK, RunOK, NewPage, Idle
<1>3. SessionOK(t)' /\ BootOK(t)' /\ BurntOK(t)'
  BY <1>1 DEF SessionOK, BootOK, BurntOK, NewPage, Drafting, Burning
<1>4. NewPage.client = NoInbox /\ ~Fresh(t)'
  BY <1>1 DEF NewPage, Fresh
<1>5. ASSUME NEW u \in Pages \ {t}, Fresh(u)
      PROVE  page[u].user.inbox \notin {NewPage.session, NewPage.prev, NewPage.boot.inbox,
                                        NewPage.user.inbox}
  BY <1>5, Elsewhere DEF NewPage, Idle
<1>6. QED BY <1>1, <1>2, <1>3, <1>4, <1>5, NewPageIs, OnePageMoves
\* The inbox that boot takes has a row.
LEMMA SelectedIsStored ==
  ASSUME NEW t \in Pages, NEW chosen
  PROVE  Selected(t, chosen) \subseteq Stored
BY DEF Selected, Stored, Named

\* A page that opens a stored identity, at its boot or from the sign-in page.
LEMMA BootIntoKeeps ==
  ASSUME LifecycleInv, NEW t \in Pages, NEW opened \in PageRecords, NEW i \in Stored,
         opened.hydrated, opened.client = page[t].client, opened.op \in {"none", "opening"},
         opened.user = Idle, opened.prev = NoInbox, opened.noted = {},
         BootInto(t, i, opened), UNCHANGED <<key, file, network, history>>,
         entries' \subseteq Inboxes, force' \in Optional, CountersTyped'
  PROVE  LifecycleInv'
<1> DEFINE selected == IF opened.current = NoInbox THEN NoInbox ELSE i
           ready == key[i] = "ready"
           boot == StartRun(i, i \in Named)
           r == [opened EXCEPT !.current = selected, !.session = i, !.authed = ready,
                   !.boot = boot]
<1>1. i \in Inboxes /\ i # NoInbox /\ key[i] # "none"
  BY DEF Stored
<1>2. /\ boot \in Runs /\ boot.at = "connect" /\ boot.inbox = i /\ boot # Idle
      /\ ready \in BOOLEAN /\ selected \in Optional
  BY <1>1 DEF StartRun, Runs, Idle, Optional
<1>3. Becomes(t, r) /\ current' = selected
  BY <1>1 DEF BootInto
<1> HIDE DEF boot, selected, ready
<1>4. /\ r \in PageRecords /\ r.session = i /\ r.authed = ready
      /\ r.boot = boot /\ r.user = Idle /\ r.prev = NoInbox /\ r.noted = {}
      /\ r.hydrated /\ r.op \in {"none", "opening"} /\ r.client = page[t].client
  BY <1>1, <1>2 DEF PageRecords, Optional
<1> HIDE DEF r
<1>5. page'[t] = r
  BY <1>4, <1>3, Replaced DEF LifecycleInv
<1>6. RunsOK(t)'
  BY <1>1, <1>2, <1>4, <1>5, NewPageIs DEF RunsOK, RunOK, Held
<1>7. SessionOK(t)'
  BY <1>1, <1>4, <1>5 DEF SessionOK, Drafting, Safe, Burning, ready
<1>8. BootOK(t)' /\ BurntOK(t)' /\ ~Fresh(t)'
  BY <1>2, <1>4, <1>5 DEF BootOK, BurntOK, Fresh
<1>9. ASSUME NEW u \in Pages \ {t}, Fresh(u)
      PROVE  page[u].user.inbox \notin {r.session, r.prev, r.boot.inbox, r.user.inbox}
  BY <1>1, <1>2, <1>4, <1>9, Elsewhere, NewPageIs
<1>10. QED BY <1>2, <1>4, <1>3, <1>6, <1>7, <1>8, <1>9, OnePageMoves

\* The boot of a page reads the registry and opens what is selected.
LEMMA BootKeeps ==
  ASSUME LifecycleInv, NEW t \in Pages, Boot(t)
  PROVE  LifecycleInv'
<1> DEFINE chosen == IF force # NoInbox THEN force ELSE current
           opened == [page[t] EXCEPT !.entries = entries, !.current = chosen, !.hydrated = TRUE]
<1>1. page[t] = NewPage
  BY PageIs DEF Boot, LifecycleInv, PagesOK, PageOK, SessionOK
<1>2. chosen \in Optional /\ entries' = entries /\ entries \subseteq Inboxes /\ force' \in Optional
      /\ CountersTyped' /\ UNCHANGED <<key, file, network, history>>
  BY DEF Boot, LifecycleInv, ProfileTyped, CountersTyped, Optional, history
<1> HIDE DEF chosen
<1>3. /\ opened \in PageRecords /\ opened.hydrated /\ opened.client = NoInbox
      /\ opened.op = "none" /\ opened.user = Idle /\ opened.prev = NoInbox
      /\ opened.boot = Idle /\ ~opened.authed /\ opened.session = NoInbox /\ opened.noted = {}
  <2>1. page[t] \in PageRecords /\ page[t].client = NoInbox /\ page[t].op = "none"
        /\ page[t].user = Idle /\ page[t].prev = NoInbox /\ page[t].boot = Idle
        /\ ~page[t].authed /\ page[t].session = NoInbox /\ page[t].noted = {}
    BY <1>1, NewPageIs DEF NewPage
  <2>2. QED BY <1>2, <2>1 DEF PageRecords
<1>4. page[t].client = NoInbox
  BY <1>1 DEF NewPage
<1>5. \/ \E i \in Selected(t, chosen) : BootInto(t, i, opened)
      \/ Becomes(t, opened) /\ current' = chosen
  BY DEF Boot, chosen
<1> HIDE DEF opened
<1>6. CASE \E i \in Selected(t, chosen) : BootInto(t, i, opened)
  BY <1>2, <1>3, <1>4, <1>6, SelectedIsStored, BootIntoKeeps
<1>7. CASE Becomes(t, opened) /\ current' = chosen
  <2>1. page'[t] = opened
    BY <1>3, <1>7, Replaced DEF LifecycleInv
  <2>2. RunsOK(t)' /\ SessionOK(t)' /\ BootOK(t)' /\ BurntOK(t)' /\ ~Fresh(t)'
    BY <2>1, <1>3, NewPageIs
    DEF RunsOK, RunOK, SessionOK, BootOK, BurntOK, Fresh, Drafting, Burning
  <2>3. ASSUME NEW u \in Pages \ {t}, Fresh(u)
        PROVE  page[u].user.inbox \notin {opened.session, opened.prev, opened.boot.inbox,
                                          opened.user.inbox}
    BY <1>3, <2>3, Elsewhere, NewPageIs
  <2>4. QED BY <1>2, <1>3, <1>7, <2>2, <2>3, OnePageMoves
<1>8. QED BY <1>5, <1>6, <1>7

\* The sign-in page opens an inbox of the list.
LEMMA OpenLocalKeeps ==
  ASSUME LifecycleInv, NEW t \in Pages, OpenLocal(t)
  PROVE  LifecycleInv'
<1>1. PICK i \in page[t].entries :
        \/ \E j \in Selected(t, i) :
             BootInto(t, j, [page[t] EXCEPT !.current = i, !.op = "opening"])
        \/ Becomes(t, [page[t] EXCEPT !.current = i]) /\ current' = i
  BY DEF OpenLocal
<1>2. /\ page[t].hydrated /\ ~page[t].authed /\ page[t].op = "none" /\ page[t].boot = Idle
      /\ UNCHANGED <<key, file, entries, force, network, history>>
      /\ entries' \subseteq Inboxes /\ force' \in Optional /\ CountersTyped'
  BY DEF OpenLocal, Act, LifecycleInv, ProfileTyped, CountersTyped, history
<1>3. /\ page[t] \in PageRecords /\ i \in Inboxes /\ page[t].user = Idle
      /\ page[t].prev = NoInbox /\ page[t].noted = {}
  BY <1>2, PageIs DEF LifecycleInv, PagesOK, PageOK, SessionOK, Drafting, Burning
<1>4. CASE \E j \in Selected(t, i) :
             BootInto(t, j, [page[t] EXCEPT !.current = i, !.op = "opening"])
  <2> DEFINE opened == [page[t] EXCEPT !.current = i, !.op = "opening"]
  <2>1. /\ opened \in PageRecords /\ opened.hydrated /\ opened.client = page[t].client
        /\ opened.op = "opening" /\ opened.user = Idle /\ opened.prev = NoInbox
        /\ opened.noted = {}
    BY <1>2, <1>3 DEF PageRecords, Ops, Optional
  <2>2. PICK j \in Selected(t, i) : BootInto(t, j, opened)
    BY <1>4
  <2> HIDE DEF opened
  <2>3. QED BY <1>2, <2>1, <2>2, SelectedIsStored, BootIntoKeeps
<1>5. CASE Becomes(t, [page[t] EXCEPT !.current = i]) /\ current' = i
  <2> DEFINE r == [page[t] EXCEPT !.current = i]
  <2>1. /\ r \in PageRecords /\ r.hydrated /\ r.client = page[t].client /\ r.op = "none"
        /\ r.user = Idle /\ r.prev = NoInbox /\ r.boot = Idle /\ ~r.authed
        /\ r.session = page[t].session /\ r.noted = {}
    BY <1>2, <1>3 DEF PageRecords, Optional
  <2>2. Becomes(t, r) /\ current' \in Optional
    BY <1>3, <1>5 DEF Optional
  <2> HIDE DEF r
  <2>3. page'[t] = r
    BY <2>1, <2>2, Replaced DEF LifecycleInv
  <2>4. RunsOK(t)' /\ SessionOK(t)' /\ BootOK(t)' /\ BurntOK(t)' /\ ~Fresh(t)'
    BY <2>1, <2>3, NewPageIs
    DEF RunsOK, RunOK, SessionOK, BootOK, BurntOK, Fresh, Drafting, Burning
  <2>5. ASSUME NEW u \in Pages \ {t}, Fresh(u)
        PROVE  page[u].user.inbox \notin {r.session, r.prev, r.boot.inbox, r.user.inbox}
    BY <2>1, <2>5, Elsewhere, NewPageIs
  <2>6. QED BY <1>2, <2>1, <2>2, <2>4, <2>5, OnePageMoves
<1>6. QED BY <1>1, <1>4, <1>5

\* The last step of a boot: the row is marked and the page is signed in.
LEMMA MarkKeeps ==
  ASSUME LifecycleInv, NEW t \in Pages, Mark(t)
  PROVE  LifecycleInv'
<1> DEFINE i == page[t].boot.inbox
           ids == page[t].boot.ids
           ready == page[t].session = i /\ key[i] = "ready"
           r == [page[t] EXCEPT !.boot = Idle, !.authed = @ \/ ready,
                   !.current = IF ids THEN i ELSE @]
<1>1. /\ page[t].boot.at = "mark" /\ page[t].boot # Idle /\ i \in Inboxes /\ ids \in BOOLEAN
      /\ page[t].current \in Optional /\ page[t].authed \in BOOLEAN
  BY Known, PageIs DEF Mark, RunsOK, RunOK, Runs, Idle, LifecycleInv
<1>2. /\ UNCHANGED <<key, file, network, history>> /\ force' \in Optional /\ CountersTyped'
      /\ current' \in Optional /\ entries' \subseteq Inboxes
  BY <1>1, Known, PageIs DEF Mark, LifecycleInv, CountersTyped, history, Updated, Optional
<1>3. IF page[t].op = "opening" THEN ReloadPage(t) ELSE Becomes(t, r)
  BY DEF Mark
<1>4. CASE page[t].op = "opening"
  BY <1>2, <1>3, <1>4, Reloads
<1>5. CASE page[t].op # "opening"
  <2> DEFINE authed == page[t].authed \/ ready
             now == IF ids THEN i ELSE page[t].current
  <2>1. authed \in BOOLEAN /\ now \in Optional
    BY <1>1 DEF Optional
  <2>2. r = [page[t] EXCEPT !.boot = Idle, !.authed = authed, !.current = now]
    BY Known DEF PageRecords
  <2>3. Becomes(t, r)
    BY <1>3, <1>5
  <2> HIDE DEF r, now, authed
  <2>4. /\ r \in PageRecords /\ r.boot = Idle /\ r.authed = authed /\ r.user = page[t].user
        /\ r.session = page[t].session /\ r.prev = page[t].prev /\ r.client = page[t].client
        /\ r.op = page[t].op /\ r.noted = page[t].noted /\ r.hydrated = page[t].hydrated
    BY <2>1, <2>2, Known, NewPageIs DEF PageRecords
  <2>5. page'[t] = r
    BY <2>3, <2>4, Replaced DEF LifecycleInv
  <2>6. RunsOK(t)'
    BY <1>2, <2>4, <2>5, Known, NewPageIs DEF RunsOK, RunOK, Held, Safe, history
  <2>7. page[t].hydrated /\ (page[t].op = "creating" => page[t].authed)
    BY <1>1, Known DEF SessionOK, NewPage
  <2>8. SessionOK(t)'
    <3>1. \A x \in Inboxes : Safe(x)' <=> Safe(x)
      BY <1>2, SameKeys DEF history
    <3>2. ready => page[t].session \in Inboxes /\ Safe(page[t].session)
      BY <1>1 DEF Safe
    <3>3. page'[t].authed => page[t].authed \/ ready
      BY <2>4, <2>5 DEF authed
    <3>4. page[t].authed => page'[t].authed
      BY <2>4, <2>5 DEF authed
    <3> HIDE DEF ready
    <3>5. (Drafting(t)' <=> Drafting(t)) /\ (Drafting(t) => page[t].op = "creating")
      BY <2>4, <2>5 DEF Drafting
    <3>6. SessionOK(t) /\ page'[t].session = page[t].session /\ page'[t].prev = page[t].prev
          /\ page'[t].user = page[t].user /\ page'[t].op = page[t].op
          /\ page'[t].noted = page[t].noted /\ page'[t].hydrated
      BY <2>4, <2>5, <2>7, Known
    <3>7. page[t].session \in Optional /\ page[t].prev \in Optional
      BY Known
    <3> HIDE DEF Drafting
    <3>8. QED BY <2>7, <3>1, <3>2, <3>3, <3>4, <3>5, <3>6, <3>7 DEF SessionOK, Optional
  <2>9. BootOK(t)' /\ BurntOK(t)'
    BY <1>2, <2>3, <2>4, <2>5, BurntStays DEF BootOK, history
  <2>10. Fresh(t)' => Fresh(t)
    BY <2>4, <2>5 DEF Fresh
  <2>11. QED BY <1>2, <2>3, <2>4, <2>6, <2>8, <2>9, <2>10, NewPageIs, Stays
<1>6. QED BY <1>4, <1>5

\* The steps that end in a reload, or clear the storage of the browser.
LEMMA LeaveKeeps ==
  ASSUME LifecycleInv, NEW t \in Pages, Leave(t) \/ Switch(t) \/ BurnFinish(t) \/ ClearWebStorage(t)
  PROVE  LifecycleInv'
<1>1. CASE Leave(t)
  BY <1>1, Known, Reloads DEF Leave, PageFault, browser, LifecycleInv, CountersTyped, history
<1>2. CASE Switch(t)
  <2>1. PICK i \in page[t].entries : ReloadInto(t, i)
    BY <1>2 DEF Switch
  <2>2. i \in Optional
    BY <2>1, PageIs DEF LifecycleInv, Optional
  <2>3. QED BY <1>2, <2>1, <2>2, Known, Reloads
        DEF Switch, ReloadInto, Free, Act, LifecycleInv, CountersTyped, history
<1>3. CASE BurnFinish(t)
  BY <1>3, Known, Reloads DEF BurnFinish, browser, LifecycleInv, CountersTyped, history
<1>4. CASE ClearWebStorage(t)
  BY <1>4, Known, Reloads DEF ClearWebStorage, LifecycleInv, CountersTyped, history, Optional
<1>5. QED BY <1>1, <1>2, <1>3, <1>4
-----------------------------------------------------------------------------
(* A create, before and after it connects *)

\* A create takes an identity up: a stored draft, a keyfile or a fresh one.
LEMMA PlanKeeps ==
  ASSUME LifecycleInv, NEW t \in Pages, NEW i \in Inboxes, NEW noted \in SUBSET (Inboxes \ Keyfiles),
         i \in Keyfiles \/ key[i] = "staged" \/ Generated(i),
         Free(t), UNCHANGED <<browser, network, pageFaults, history>>,
         \/ Becomes(t, [page[t] EXCEPT !.op = "creating", !.user = Planned(i), !.noted = noted])
         \/ Becomes(t, [page[t] EXCEPT !.op = "creating", !.user = Planned(i)])
            /\ noted = page[t].noted
  PROVE  LifecycleInv'
<1> DEFINE planned == Planned(i)
           r == [page[t] EXCEPT !.op = "creating", !.user = planned, !.noted = noted]
<1>1. /\ page[t].op = "none" /\ page[t].user = Idle /\ page[t].hydrated
      /\ page[t].authed \/ page[t].boot = Idle
      /\ page[t].prev = NoInbox
  BY Known DEF Free, SessionOK, Drafting
<1>2. /\ planned \in Runs /\ planned.inbox = i /\ planned.at = "none"
      /\ planned.ids <=> key[i] = "staged"
  BY DEF Planned, Idle, Runs
<1>3. Becomes(t, r)
  <2>1. noted = page[t].noted
          => r = [page[t] EXCEPT !.op = "creating", !.user = Planned(i)]
    BY Known DEF PageRecords
  <2>2. QED BY <2>1 DEF r
<1> HIDE DEF planned
<1>4. /\ r \in PageRecords /\ r.op = "creating" /\ r.user = planned /\ r.noted = noted
      /\ r.session = page[t].session /\ r.prev = page[t].prev /\ r.boot = page[t].boot
      /\ r.client = page[t].client /\ r.authed = page[t].authed
      /\ r.hydrated = page[t].hydrated
  BY <1>2, Known DEF PageRecords, Ops
<1> HIDE DEF r
<1>5. page'[t] = r /\ \A u \in Pages \ {t} : page'[u] = page[u]
  BY <1>3, <1>4, Replaced DEF LifecycleInv
<1>6. /\ UNCHANGED <<key, file, network, history>> /\ entries' \subseteq Inboxes
      /\ current' \in Optional /\ force' \in Optional /\ CountersTyped'
  BY Known DEF browser, Free, Act, LifecycleInv, CountersTyped, history
<1>7. \A x \in Inboxes : (Safe(x)' <=> Safe(x)) /\ (Held(x)' <=> Held(x))
  BY <1>6, SameKeys DEF history
<1>8. RunsOK(t)'
  BY <1>2, <1>4, <1>5, <1>7, Known DEF RunsOK, RunOK
<1>9. SessionOK(t)'
  BY <1>1, <1>2, <1>4, <1>5, <1>7, Known DEF SessionOK, Drafting, Burning
<1>10. BootOK(t)'
  BY <1>4, <1>5, Known DEF BootOK
<1>11. BurntOK(t)'
  BY <1>3, <1>4, <1>6, BurntStays DEF history
<1>12. ASSUME NEW u \in Pages \ {t}, Fresh(u)
       PROVE  page[u].user.inbox \notin {r.session, r.prev, r.boot.inbox, r.user.inbox}
  <2>1. page[u].user.inbox # i
    BY <1>12, Elsewhere DEF Generated
  <2>2. QED BY <1>2, <1>4, <1>12, <2>1, Elsewhere
<1>13. ASSUME Fresh(t)' PROVE Unknown(i, t)'
  <2>1. Generated(i)
    BY <1>2, <1>4, <1>5, <1>13 DEF Fresh
  <2>2. QED BY <1>2, <1>4, <1>5, <1>6, <2>1 DEF Unknown, Generated
<1>14. QED BY <1>2, <1>3, <1>4, <1>6, <1>8, <1>9, <1>10, <1>11, <1>12, <1>13, OnePageMoves

\* A create without a keyfile resumes a staged identity or draws a fresh one.
LEMMA PlanCreateKeeps ==
  ASSUME LifecycleInv, NEW t \in Pages, PlanCreate(t)
  PROVE  LifecycleInv'
<1> DEFINE resumable == {i \in Attempts(t) : key[i] = "staged"}
           fresh == {i \in Inboxes \ Keyfiles : Generated(i)}
           noted == {j \in Attempts(t) : key[j] = "draft"}
<1>1. PICK i \in IF resumable # {} THEN resumable ELSE fresh :
        Becomes(t, [page[t] EXCEPT !.op = "creating", !.user = Planned(i), !.noted = noted])
  BY DEF PlanCreate
<1>2. i \in Inboxes /\ (key[i] = "staged" \/ Generated(i)) /\ noted \in SUBSET (Inboxes \ Keyfiles)
  BY DEF Attempts, Stored
<1> HIDE DEF noted
<1>3. QED BY <1>1, <1>2, PlanKeeps DEF PlanCreate

\* A create from a keyfile.
LEMMA PlanRestoreKeeps ==
  ASSUME LifecycleInv, NEW t \in Pages, PlanRestore(t)
  PROVE  LifecycleInv'
<1>1. PICK i \in Keyfiles :
        /\ Free(t) /\ UNCHANGED <<browser, network, pageFaults, history>>
        /\ Becomes(t, [page[t] EXCEPT !.op = "creating", !.user = Planned(i)])
  BY DEF PlanRestore
<1>2. page[t].noted = {} /\ i \in Inboxes
  BY <1>1, Known DEF SessionOK, Free, Burning
<1>3. QED BY <1>1, <1>2, PlanKeeps
\* Storing the draft of a create drops rows without ids that are in nobody's hands, or
\* records what it should not have dropped; the key it stores was nobody's.
LEMMA StoreDraftKeeps ==
  ASSUME LifecycleInv, NEW t \in Pages, StoreDraft(t)
  PROVE  LifecycleInv'
<1>1. PICK i \in Inboxes : i = page[t].user.inbox
  BY Known DEF StoreDraft, SessionOK
<1>2. PICK prev \in Optional : prev = IF page[t].authed THEN page[t].session ELSE NoInbox
  BY Known DEF Optional
<1>3. PICK run \in Runs : run = StartRun(i, FALSE)
  BY DEF StartRun, Runs
<1> DEFINE dropped == page[t].noted \ {i}
           planned == IF page[t].user.ids THEN "staged" ELSE "draft"
           r == [page[t] EXCEPT !.user = run, !.noted = {}, !.session = i, !.prev = prev]
<1>4. /\ page[t].op = "creating" /\ page[t].user.at = "none" /\ ~Drafting(t)
      /\ page[t].prev = NoInbox /\ page[t].noted \cap Keyfiles = {} /\ page[t].hydrated
      /\ page[t].authed => page[t].session \in Inboxes /\ Safe(page[t].session)
      /\ ~page[t].authed => page[t].boot = Idle
  BY Known, NewPageIs DEF StoreDraft, SessionOK, Drafting, NewPage
<1>5. /\ key' = [j \in Inboxes |-> IF j \in dropped THEN "none"
                                   ELSE IF j = i THEN planned ELSE key[j]]
      /\ discarded' = discarded \cup
          {j \in dropped : key[j] # "none" /\ (key[j] # "draft" \/ UnderWay(j))}
      /\ gone' = gone \ {i}
      /\ late' = IF BeingForgotten(i) THEN late \cup {i} ELSE late \ {i}
      /\ Becomes(t, r)
      /\ UNCHANGED <<file, entries, current, force, network, pageFaults, acts, ours>>
  BY <1>1, <1>2, <1>3 DEF StoreDraft
<1>6. ProfileTyped' /\ CountersTyped'
  BY <1>5, PageIs DEF LifecycleInv, ProfileTyped, CountersTyped
<1>7. /\ r \in PageRecords /\ r.user = run /\ r.noted = {} /\ r.session = i /\ r.prev = prev
      /\ r.boot = page[t].boot /\ r.op = "creating" /\ r.client = page[t].client
      /\ r.authed = page[t].authed /\ r.hydrated
  <2>1. page[t] \in PageRecords /\ page[t].op = "creating" /\ page[t].hydrated
        /\ i \in Optional /\ {} \in SUBSET Inboxes
    BY <1>4, PageIs DEF LifecycleInv, Optional
  <2>2. QED BY <2>1 DEF PageRecords
<1>8. run.at = "connect" /\ run.inbox = i
  BY <1>3 DEF StartRun
<1>9. key'[i] = planned /\ planned # "none"
  BY <1>5
<1>10. Fresh(t) => Unknown(i, t)
  BY <1>1 DEF LifecycleInv, FreshAreUnknown
<1>11. ~Fresh(t) => page[t].user.ids \/ i \in Keyfiles
  BY <1>1, <1>4 DEF Fresh
<1> HIDE DEF r
<1>12. ASSUME NEW x \in Inboxes, x # i \/ ~Fresh(t)
       PROVE  (Safe(x) => Safe(x)') /\ (Held(x) /\ UnderWay(x) => Held(x)')
  <2>1. CASE x = i
    BY <1>9, <1>11, <1>12, <2>1 DEF Safe, Held
  <2>2. CASE x \in dropped
    <3>1. x \notin Keyfiles /\ x # i
      BY <1>4, <2>2
    <3> HIDE DEF dropped
    <3>2. QED BY <1>5, <2>2, <3>1 DEF Safe, Held, LifecycleInv, ProfileTyped
  <2>3. CASE x # i /\ x \notin dropped
    <3>1. key'[x] = key[x] /\ (x \in gone => x \in gone') /\ discarded \subseteq discarded'
      BY <1>5, <2>3
    <3>2. QED BY <3>1 DEF Safe, Held
  <2>4. QED BY <2>1, <2>2, <2>3
<1>13. page'[t] = r /\ \A u \in Pages \ {t} : page'[u] = page[u]
  BY <1>5, <1>7, Replaced DEF LifecycleInv
<1>14. OursOK'
  BY <1>5, <1>10, <1>12 DEF LifecycleInv, OursOK, Unknown, ProfileTyped
<1>15. RunsOK(t)'
  <2>1. page'[t].boot = page[t].boot /\ page'[t].user = run
    BY <1>7, <1>13
  <2>2. RunOK(t, "user")'
    BY <1>8, <1>9, <2>1 DEF RunOK, Held
  <2>3. page[t].boot.at # "none" => UnderWay(page[t].boot.inbox)
    BY DEF UnderWay, Slots
  <2>4. Fresh(t) => page[t].boot.inbox # i
    BY <1>10 DEF Unknown
  <2>5. RunOK(t, "boot")'
    BY <1>7, <1>12, <1>13, <2>1, <2>3, <2>4, Known DEF RunOK, RunsOK
  <2>6. QED BY <1>8, <2>1, <2>2, <2>5 DEF RunsOK
<1>16. SessionOK(t)'
  <2>1. prev # NoInbox
          => prev = page[t].session /\ prev \in Inboxes /\ page[t].authed /\ Safe(prev)
    BY <1>2, <1>4
  <2>2. prev # NoInbox => page[t].authed /\ Safe(prev)'
    BY <1>10, <1>12, <2>1 DEF Unknown
  <2>3. Drafting(t)' /\ (page[t].authed => prev # NoInbox)
    BY <1>2, <1>4, <1>7, <1>8, <1>13 DEF Drafting
  <2>4. QED BY <1>1, <1>4, <1>7, <1>8, <1>13, <2>2, <2>3 DEF SessionOK, Burning
<1>17. BootOK(t)'
  BY <1>2, <1>4, <1>7, <1>13, Known DEF BootOK
<1>18. BurntOK(t)' /\ ~Fresh(t)'
  BY <1>7, <1>8, <1>13 DEF BurntOK, Fresh
<1>19. ASSUME NEW u \in Pages \ {t} PROVE BurntOK(u)'
  <2> DEFINE x == page[u].session
  <2>1. page'[u] = page[u] /\ BurntOK(u) /\ (page[u].op \in Burning => x \in Inboxes)
    BY <1>13, Known DEF SessionOK
  <2>2. ASSUME page[u].op \in {"forgetting", "forgotten"}, x \notin late'
        PROVE  x # i /\ x \notin late
    BY <1>5, <2>2 DEF BeingForgotten
  <2>3. \A y \in Inboxes : IsOpen(y)' <=> IsOpen(y)
    BY <1>7, <1>13 DEF IsOpen
  <2>4. \A y \in Inboxes : y # i /\ key[y] = "none" => key'[y] = "none"
    BY <1>5
  <2>5. QED BY <1>5, <2>1, <2>2, <2>3, <2>4 DEF BurntOK, Burning
<1>20. ASSUME NEW u \in Pages \ {t}, Fresh(u) PROVE Unknown(page[u].user.inbox, u)'
  <2>1. PICK x \in Inboxes : x = page[u].user.inbox
    BY <1>20, Elsewhere
  <2>2. x \notin {i, NoInbox, page[t].session, page[t].prev, page[t].boot.inbox} /\ Unknown(x, u)
    BY <1>1, <1>20, <2>1, Elsewhere DEF LifecycleInv, FreshAreUnknown
  <2>3. x \notin {r.session, r.prev, r.boot.inbox, r.user.inbox}
    BY <1>2, <1>7, <1>8, <2>2
  <2>4. key'[x] = "none" /\ network' = network
    BY <1>5, <2>2 DEF Unknown
  <2>5. Unknown(x, u)'
    BY <1>13, <2>2, <2>3, <2>4 DEF Unknown
  <2>6. QED BY <1>13, <2>1, <2>5
<1>21. \A u \in Pages \ {t} : \A x \in Names(u) \cap Inboxes :
         (Safe(x) => Safe(x)') /\ (Held(x) /\ UnderWay(x) => Held(x)')
  BY <1>10, <1>12 DEF Names, Unknown
<1>22. r.client # NoInbox => \A u \in Pages \ {t} : page[u].client # r.client
  BY <1>7 DEF LifecycleInv, LockOK
<1>23. PageOK(t)'
  BY <1>15, <1>16, <1>17, <1>18 DEF PageOK
<1>24. QED
  BY <1>5, <1>6, <1>7, <1>14, <1>18, <1>19, <1>20, <1>21, <1>22, <1>23, Frame

\* A key that is safe is one that somebody holds.
LEMMA SafeIsHeld ==
  \A i \in Inboxes : Safe(i) => Held(i)
BY DEF Safe, Held

\* A create that is over leaves onboarding with the session it made, or the tab of the
\* switcher to the inbox it made.
LEMMA CreatedKeeps ==
  ASSUME LifecycleInv, NEW t \in Pages, Created(t)
  PROVE  LifecycleInv'
<1> DEFINE r == [page[t] EXCEPT !.op = "none", !.user = Idle, !.authed = TRUE]
<1>1. /\ page[t].op = "creating" /\ page[t].user.at = "mark" /\ Drafting(t)
      /\ UNCHANGED <<key, file, entries, network, history>> /\ CountersTyped'
      /\ entries' \subseteq Inboxes
  BY Known DEF Created, Drafting, LifecycleInv, CountersTyped, history
<1>2. CASE page[t].prev # NoInbox /\ ReloadInto(t, page[t].session)
  BY <1>1, <1>2, Known, Reloads DEF ReloadInto, history
<1>3. CASE page[t].prev = NoInbox /\ Becomes(t, r) /\ UNCHANGED <<current, force>>
  <2>1. /\ page[t].session \in Inboxes /\ Safe(page[t].session) /\ page[t].boot = Idle
        /\ page[t].noted = {} /\ page[t].hydrated
    BY <1>1, <1>3, Known, NewPageIs DEF SessionOK, RunsOK, RunOK, NewPage
  <2>2. /\ r \in PageRecords /\ r.op = "none" /\ r.user = Idle /\ r.authed /\ r.noted = {}
        /\ r.session = page[t].session /\ r.boot = Idle /\ r.prev = NoInbox
        /\ r.client = page[t].client /\ r.hydrated
    BY <1>3, <2>1, Known, NewPageIs DEF PageRecords, Ops
  <2> HIDE DEF r
  <2>3. page'[t] = r
    BY <1>3, <2>2, Replaced DEF LifecycleInv
  <2>4. \A x \in Inboxes : Safe(x)' <=> Safe(x)
    BY <1>1, SameKeys DEF history
  <2>5. RunsOK(t)' /\ BootOK(t)' /\ ~Fresh(t)' /\ BurntOK(t)' /\ ~Drafting(t)'
    BY <2>2, <2>3, NewPageIs DEF RunsOK, RunOK, BootOK, Fresh, BurntOK, Drafting
  <2>6. SessionOK(t)'
    BY <2>1, <2>2, <2>3, <2>4, <2>5 DEF SessionOK, Burning
  <2>7. current' \in Optional /\ force' \in Optional
    BY <1>3, Known
  <2>8. QED BY <1>1, <1>3, <2>2, <2>5, <2>6, <2>7, NewPageIs, Stays
<1>4. QED BY <1>1, <1>2, <1>3 DEF Created

\* A create that failed leaves the tab with the session it had put aside.
LEMMA CreateFailedKeeps ==
  ASSUME LifecycleInv, NEW t \in Pages, CreateFailed(t)
  PROVE  LifecycleInv'
<1>1. /\ page[t].op = "creating" /\ page[t].user.at = "failed" /\ Drafting(t)
      /\ UNCHANGED <<key, file, network, history>> /\ CountersTyped'
      /\ entries' \subseteq Inboxes /\ current' \in Optional /\ force' \in Optional
      /\ page[t].noted = {} /\ page[t].hydrated
  BY Known, NewPageIs
  DEF CreateFailed, Drafting, LifecycleInv, CountersTyped, history, browser, SessionOK, NewPage
<1>2. \A x \in Inboxes : (Safe(x)' <=> Safe(x)) /\ (Held(x)' <=> Held(x))
  BY <1>1, SameKeys DEF history
<1>3. CASE page[t].prev = NoInbox
  <2> DEFINE r == [page[t] EXCEPT !.op = "none", !.user = Idle]
  <2>1. Becomes(t, r)
    BY <1>3 DEF CreateFailed
  <2>2. ~page[t].authed /\ page[t].boot = Idle
    BY <1>1, <1>3, Known DEF SessionOK
  <2>3. /\ r \in PageRecords /\ r.op = "none" /\ r.user = Idle /\ ~r.authed /\ r.noted = {}
        /\ r.session = page[t].session /\ r.boot = Idle /\ r.prev = NoInbox
        /\ r.client = page[t].client /\ r.hydrated
    BY <1>1, <1>3, <2>2, Known, NewPageIs DEF PageRecords, Ops
  <2> HIDE DEF r
  <2>4. page'[t] = r
    BY <2>1, <2>3, Replaced DEF LifecycleInv
  <2>5. RunsOK(t)' /\ BootOK(t)' /\ ~Fresh(t)' /\ BurntOK(t)' /\ SessionOK(t)'
    BY <2>3, <2>4, NewPageIs
    DEF RunsOK, RunOK, BootOK, Fresh, BurntOK, Drafting, SessionOK, Burning
  <2>6. QED BY <1>1, <2>1, <2>3, <2>5, NewPageIs, Stays
<1>4. CASE page[t].prev # NoInbox
  <2>1. PICK prev \in Inboxes : prev = page[t].prev
    BY <1>4, Known DEF Optional
  <2>2. PICK run \in Runs : run = StartRun(prev, FALSE)
    BY DEF StartRun, Runs
  <2>3. run.at = "connect" /\ run.inbox = prev
    BY <2>2 DEF StartRun
  <2> DEFINE r == [page[t] EXCEPT !.op = "returning", !.session = prev, !.prev = NoInbox,
                     !.user = run]
  <2>4. Becomes(t, r)
    BY <1>4, <2>1, <2>2, Known DEF CreateFailed, PageRecords
  <2>5. page[t].authed /\ Safe(prev) /\ prev # NoInbox
    BY <1>4, <2>1, Known DEF SessionOK
  <2>6. /\ r \in PageRecords /\ r.op = "returning" /\ r.user = run /\ r.authed /\ r.noted = {}
        /\ r.session = prev /\ r.boot = page[t].boot /\ r.prev = NoInbox
        /\ r.client = page[t].client /\ r.hydrated
    BY <1>1, <2>5, Known DEF PageRecords, Ops, Optional
  <2> HIDE DEF r
  <2>7. page'[t] = r
    BY <2>4, <2>6, Replaced DEF LifecycleInv
  <2>8. RunsOK(t)'
    BY <1>2, <2>3, <2>5, <2>6, <2>7, Known, SafeIsHeld DEF RunsOK, RunOK
  <2>9. SessionOK(t)'
    BY <1>2, <2>3, <2>5, <2>6, <2>7 DEF SessionOK, Drafting, Burning
  <2>10. BootOK(t)' /\ BurntOK(t)' /\ ~Fresh(t)'
    BY <1>4, <2>1, <2>6, <2>7, Known DEF BootOK, BurntOK, Fresh
  <2>11. QED BY <1>1, <2>1, <2>3, <2>4, <2>6, <2>8, <2>9, <2>10, Stays
<1>5. QED BY <1>3, <1>4

\* The session that was put back is connected again, or is not.
LEMMA ReturnedKeeps ==
  ASSUME LifecycleInv, NEW t \in Pages, Returned(t)
  PROVE  LifecycleInv'
<1> DEFINE r == [page[t] EXCEPT !.op = "none", !.user = Idle]
<1>1. /\ page[t].op = "returning" /\ ~Drafting(t) /\ Becomes(t, r)
      /\ UNCHANGED <<key, file, network, history>> /\ CountersTyped'
      /\ entries' \subseteq Inboxes /\ current' \in Optional /\ force' \in Optional
  BY Known DEF Returned, Drafting, LifecycleInv, CountersTyped, history, browser
<1>2. \A x \in Inboxes : (Safe(x)' <=> Safe(x)) /\ (Held(x)' <=> Held(x))
  BY <1>1, SameKeys DEF history
<1>3. /\ page[t].authed /\ page[t].session \in Inboxes /\ Safe(page[t].session)
      /\ page[t].prev = NoInbox /\ page[t].noted = {} /\ page[t].hydrated
  BY <1>1, Known, NewPageIs DEF SessionOK, Burning, NewPage
<1>4. /\ r \in PageRecords /\ r.op = "none" /\ r.user = Idle /\ r.authed /\ r.noted = {}
      /\ r.session = page[t].session /\ r.boot = page[t].boot /\ r.prev = NoInbox
      /\ r.client = page[t].client /\ r.hydrated
  BY <1>3, Known, NewPageIs DEF PageRecords, Ops
<1> HIDE DEF r
<1>5. page'[t] = r
  BY <1>1, <1>4, Replaced DEF LifecycleInv
<1>6. RunsOK(t)'
  BY <1>2, <1>4, <1>5, Known, NewPageIs DEF RunsOK, RunOK
<1>7. SessionOK(t)'
  BY <1>2, <1>3, <1>4, <1>5 DEF SessionOK, Drafting, Burning
<1>8. BootOK(t)' /\ BurntOK(t)' /\ ~Fresh(t)'
  BY <1>3, <1>4, <1>5, Known DEF BootOK, BurntOK, Fresh
<1>9. QED BY <1>1, <1>4, <1>6, <1>7, <1>8, NewPageIs, Stays
-----------------------------------------------------------------------------
(* The burn, and clearing everything *)

\* Keys are only removed, as burned.
OnlyBurnt ==
  /\ \A x \in Inboxes : key'[x] = key[x] \/ (key'[x] = "none" /\ x \in gone')
  /\ gone \subseteq gone' /\ UNCHANGED <<network, ours, discarded, late>>

\* A burn takes no key from any other inbox.
LEMMA BurntKeys ==
  ASSUME OnlyBurnt
  PROVE  \A x \in Inboxes : /\ Safe(x) => Safe(x)'
                            /\ Held(x) => Held(x)'
                            /\ key[x] = "none" => key'[x] = "none"
BY DEF OnlyBurnt, Safe, Held

\* A step of a burn, of which only its own page hears.
LEMMA Burns ==
  ASSUME LifecycleInv, NEW t \in Pages, NEW r \in PageRecords, Becomes(t, r),
         OnlyBurnt, ProfileTyped', CountersTyped',
         \A x \in Inboxes : file[x] = "none" /\ ~IsOpen(x) => file'[x] = "none",
         r.client \in {page[t].client, NoInbox}, r.session = page[t].session,
         r.prev = page[t].prev, r.boot \in {page[t].boot, Idle}, r.user = Idle,
         r.op # "creating",
         RunsOK(t)', SessionOK(t)', BootOK(t)', BurntOK(t)'
  PROVE  LifecycleInv'
<1>1. page'[t] = r /\ \A u \in Pages \ {t} : page'[u] = page[u]
  BY Replaced DEF LifecycleInv
<1>2. \A x \in Inboxes : /\ Safe(x) => Safe(x)'
                         /\ Held(x) => Held(x)'
                         /\ key[x] = "none" => key'[x] = "none"
  BY BurntKeys
<1>3. OursOK'
  BY <1>2 DEF LifecycleInv, OursOK, OnlyBurnt, ProfileTyped
<1>4. PageOK(t)' /\ ~Fresh(t)'
  BY <1>1 DEF PageOK, Fresh
<1>5. ASSUME NEW u \in Pages \ {t}, Fresh(u) PROVE Unknown(page[u].user.inbox, u)'
  <2>1. PICK x \in Inboxes : x = page[u].user.inbox
    BY <1>5, Elsewhere
  <2>2. Unknown(x, u) /\ x # NoInbox
    BY <1>5, <2>1 DEF LifecycleInv, FreshAreUnknown
  <2>3. x \notin {r.session, r.prev, r.boot.inbox, r.user.inbox}
    BY <2>2, NewPageIs DEF Unknown
  <2>4. Unknown(x, u)'
    BY <1>1, <1>2, <2>2, <2>3 DEF Unknown, OnlyBurnt
  <2>5. QED BY <1>1, <2>1, <2>4
<1>6. ASSUME NEW u \in Pages \ {t} PROVE BurntOK(u)'
  <2>1. page'[u] = page[u] /\ BurntOK(u)
        /\ (page[u].op \in Burning => page[u].session \in Inboxes)
    BY <1>1, Known DEF SessionOK
  <2>2. \A x \in Inboxes : IsOpen(x)' => IsOpen(x)
    BY <1>1 DEF IsOpen
  <2>3. QED BY <1>2, <2>1, <2>2 DEF BurntOK, Burning, OnlyBurnt
<1>7. r.client # NoInbox => \A u \in Pages \ {t} : page[u].client # r.client
  BY DEF LifecycleInv, LockOK
<1>8. QED BY <1>1, <1>2, <1>3, <1>4, <1>5, <1>6, <1>7, Frame

\* A burn begins with the inbox of its session.
LEMMA BurnBeginKeeps ==
  ASSUME LifecycleInv, NEW t \in Pages, BurnBegin(t)
  PROVE  LifecycleInv'
<1> DEFINE i == page[t].session
           connected == page[t].client = i /\ ~Connecting(t)
<1>1. PICK op \in {"revoking", "clearing"} : op = IF connected THEN "revoking" ELSE "clearing"
  OBVIOUS
<1>2. PICK noted \in SUBSET Inboxes : noted = (page[t].noted \cup page[t].entries \cup Named) \ {i}
  BY PageIs DEF LifecycleInv, Named
<1> DEFINE r == [page[t] EXCEPT !.noted = noted, !.op = op]
<1>3. /\ page[t].op = "none" /\ page[t].user = Idle /\ page[t].hydrated /\ page[t].authed
      /\ Becomes(t, r) /\ UNCHANGED <<key, file, network, history>> /\ CountersTyped'
      /\ entries' \subseteq Inboxes /\ current' \in Optional /\ force' \in Optional
  BY <1>1, <1>2, Known DEF BurnBegin, Free, Act, LifecycleInv, CountersTyped, history, browser, PageRecords
<1>4. page[t].prev = NoInbox /\ Safe(page[t].session) /\ page[t].session \in Inboxes
  BY <1>3, Known DEF SessionOK, Drafting
<1>5. /\ r \in PageRecords /\ r.op = op /\ r.user = Idle /\ r.authed
      /\ r.session = page[t].session /\ r.boot = page[t].boot /\ r.prev = NoInbox
      /\ r.client = page[t].client /\ r.hydrated
  BY <1>3, <1>4, Known DEF PageRecords, Ops
<1> HIDE DEF r
<1>6. page'[t] = r
  BY <1>3, <1>5, Replaced DEF LifecycleInv
<1>7. \A x \in Inboxes : (Safe(x)' <=> Safe(x)) /\ (Held(x)' <=> Held(x))
  BY <1>3, SameKeys DEF history
<1>8. RunsOK(t)'
  BY <1>3, <1>5, <1>6, <1>7, Known, NewPageIs DEF RunsOK, RunOK
<1>9. SessionOK(t)'
  BY <1>4, <1>5, <1>6, <1>7 DEF SessionOK, Drafting, Burning
<1>10. BootOK(t)' /\ BurntOK(t)' /\ ~Fresh(t)'
  BY <1>4, <1>5, <1>6, Known DEF BootOK, BurntOK, Fresh
<1>11. QED BY <1>3, <1>4, <1>5, <1>8, <1>9, <1>10, NewPageIs, Stays

\* What is known of a page that burns, and stays true of it.
LEMMA WhileBurning ==
  ASSUME LifecycleInv, NEW t \in Pages, page[t].op \in Burning
  PROVE  /\ page[t].user = Idle /\ page[t].prev = NoInbox /\ page[t].hydrated
         /\ page[t].authed /\ page[t].session \in Inboxes /\ Safe(page[t].session)
         /\ ~Drafting(t)
BY Known, NewPageIs DEF SessionOK, Burning, Drafting, NewPage

\* A step of a burn after its first keeps its session and its run.
LEMMA BurnsOn ==
  ASSUME LifecycleInv, NEW t \in Pages, NEW r \in PageRecords, Becomes(t, r),
         page[t].op \in Burning,
         OnlyBurnt, ProfileTyped', CountersTyped',
         \A x \in Inboxes : file[x] = "none" /\ ~IsOpen(x) => file'[x] = "none",
         \/ r.client = page[t].client
         \/ r.client = NoInbox /\ page[t].boot.at \notin {"stage", "publish"},
         r.session = page[t].session, r.authed, r.hydrated,
         r.prev = page[t].prev, r.boot = page[t].boot, r.user = page[t].user,
         r.op \in Burning \/ (r.op = "none" /\ r.noted = {}),
         BurntOK(t)'
  PROVE  LifecycleInv'
<1>1. page'[t] = r
  BY Replaced DEF LifecycleInv
<1>2. \A x \in Inboxes : (Safe(x) => Safe(x)') /\ (Held(x) => Held(x)')
  BY BurntKeys
<1>3. r.user = Idle /\ r.prev = NoInbox /\ r.session \in Inboxes /\ Safe(r.session)
  BY WhileBurning
<1>4. RunsOK(t)'
  BY <1>1, <1>2, <1>3, Known, NewPageIs DEF RunsOK, RunOK
<1>5. SessionOK(t)'
  BY <1>1, <1>2, <1>3 DEF SessionOK, Drafting, Burning
<1>6. BootOK(t)'
  BY <1>1, Known DEF BootOK
<1>7. r.op # "creating" /\ r.client \in {page[t].client, NoInbox}
  BY DEF Burning
<1>8. QED BY <1>3, <1>4, <1>5, <1>6, <1>7, Burns
\* The client of the page may be closed, and the file it had becomes a blank one.
LEMMA BurnDisconnectKeeps ==
  ASSUME LifecycleInv, NEW t \in Pages, BurnDisconnect(t)
  PROVE  LifecycleInv'
<1>1. PICK i \in Inboxes : i = page[t].session
  BY WhileBurning DEF BurnDisconnect, Burning
<1>2. PICK client \in Optional :
        /\ Becomes(t, [page[t] EXCEPT !.op = "clearing", !.client = client])
        /\ client \in {page[t].client, NoInbox}
  <2>1. CASE Becomes(t, [page[t] EXCEPT !.op = "clearing", !.client = NoInbox])
    BY <2>1 DEF Optional
  <2>2. CASE Becomes(t, [page[t] EXCEPT !.op = "clearing"])
    <3>1. [page[t] EXCEPT !.op = "clearing"]
            = [page[t] EXCEPT !.op = "clearing", !.client = page[t].client]
      BY Known DEF PageRecords
    <3>2. QED BY <2>2, <3>1, Known
  <2>3. QED BY <2>1, <2>2 DEF BurnDisconnect
<1> DEFINE r == [page[t] EXCEPT !.op = "clearing", !.client = client]
<1>3. /\ page[t].op = "revoking" /\ page[t].op \in Burning
      /\ \A s \in Slots : page[t][s].at \notin {"stage", "publish"}
      /\ UNCHANGED <<key, entries, current, force, network, acts, history>>
      /\ (page[t].client = i /\ file' = [file EXCEPT ![i] = "blank"]) \/ UNCHANGED file
  BY <1>1 DEF BurnDisconnect, Connecting, Burning
<1>4. ProfileTyped' /\ CountersTyped'
  BY <1>1, <1>3 DEF BurnDisconnect, PageFault, LifecycleInv, ProfileTyped, CountersTyped, history
<1>5. OnlyBurnt
  BY <1>3 DEF OnlyBurnt, history
<1>6. \A x \in Inboxes : file[x] = "none" /\ ~IsOpen(x) => file'[x] = "none"
  BY <1>1, <1>3 DEF IsOpen, LifecycleInv, ProfileTyped
<1>7. /\ r \in PageRecords /\ r.op = "clearing" /\ r.user = page[t].user
      /\ r.authed = page[t].authed /\ r.session = page[t].session /\ r.boot = page[t].boot
      /\ r.prev = page[t].prev /\ r.client = client /\ r.hydrated = page[t].hydrated
      /\ Becomes(t, r)
  BY <1>2, Known DEF PageRecords, Ops
<1> HIDE DEF r
<1>8. BurntOK(t)'
  BY <1>2, <1>7, Replaced DEF BurntOK, LifecycleInv
<1>9. page[t].authed /\ page[t].hydrated /\ page[t].boot.at \notin {"stage", "publish"}
  BY <1>3, WhileBurning DEF Slots
<1>10. QED
  BY <1>2, <1>3, <1>4, <1>5, <1>6, <1>7, <1>8, <1>9, BurnsOn DEF Burning

\* The files are removed, nobody having them open.
LEMMA BurnClearKeeps ==
  ASSUME LifecycleInv, NEW t \in Pages, BurnClear(t)
  PROVE  LifecycleInv'
<1>1. PICK i \in Inboxes : i = page[t].session
  BY WhileBurning DEF BurnClear, Burning
<1> DEFINE r == [page[t] EXCEPT !.op = "forgetting"]
<1>2. /\ page[t].op = "clearing" /\ page[t].op \in Burning /\ ~IsOpen(i) /\ Becomes(t, r)
      /\ UNCHANGED <<key, entries, current, force, network, pageFaults, acts, history>>
      /\ file' = [file EXCEPT ![i] = "none"]
  BY <1>1 DEF BurnClear, Burning
<1>3. ProfileTyped' /\ CountersTyped'
  BY <1>1, <1>2 DEF LifecycleInv, ProfileTyped, CountersTyped, history
<1>4. OnlyBurnt
  BY <1>2 DEF OnlyBurnt, history
<1>5. \A x \in Inboxes : file[x] = "none" /\ ~IsOpen(x) => file'[x] = "none"
  BY <1>1, <1>2 DEF LifecycleInv, ProfileTyped
<1>6. /\ r \in PageRecords /\ r.op = "forgetting" /\ r.user = page[t].user
      /\ r.authed = page[t].authed /\ r.session = page[t].session /\ r.boot = page[t].boot
      /\ r.prev = page[t].prev /\ r.client = page[t].client /\ r.hydrated = page[t].hydrated
  BY Known DEF PageRecords, Ops
<1> HIDE DEF r
<1>7. page'[t] = r /\ \A u \in Pages \ {t} : page'[u] = page[u]
  BY <1>2, <1>6, Replaced DEF LifecycleInv
<1>8. BurntOK(t)'
  <2>1. page'[t].session = i /\ page'[t].op = "forgetting"
    BY <1>1, <1>6, <1>7
  <2>2. file'[i] = "none"
    BY <1>2 DEF LifecycleInv, ProfileTyped
  <2>3. ~IsOpen(i)'
    BY <1>2, <1>6, <1>7 DEF IsOpen
  <2>4. QED BY <2>1, <2>2, <2>3 DEF BurntOK
<1>9. page[t].authed /\ page[t].hydrated
  BY <1>2, WhileBurning
<1>10. QED
  BY <1>2, <1>3, <1>4, <1>5, <1>6, <1>8, <1>9, BurnsOn DEF Burning

\* The key goes last.
LEMMA BurnForgetKeeps ==
  ASSUME LifecycleInv, NEW t \in Pages, BurnForget(t)
  PROVE  LifecycleInv'
<1>1. PICK i \in Inboxes : i = page[t].session
  BY WhileBurning DEF BurnForget, Burning
<1>2. PICK left \in SUBSET Inboxes : left = Removed(t, i)
  BY PageIs DEF Removed, LifecycleInv
<1>3. PICK next \in IF page[t].noted = {} THEN {NoInbox} ELSE page[t].noted :
        /\ current' = next
        /\ Becomes(t, [page[t] EXCEPT !.op = "forgotten", !.entries = left, !.current = next])
  BY <1>1, <1>2 DEF BurnForget
<1> DEFINE r == [page[t] EXCEPT !.op = "forgotten", !.entries = left, !.current = next]
<1>4. next \in Optional
  BY PageIs DEF LifecycleInv, Optional
<1>5. /\ page[t].op = "forgetting" /\ page[t].op \in Burning /\ Becomes(t, r)
      /\ key' = [key EXCEPT ![i] = "none"] /\ gone' = gone \cup {i}
      /\ entries' = left /\ force' = HintWithout(i)
      /\ UNCHANGED <<file, network, pageFaults, acts, ours, discarded, late>>
  BY <1>1, <1>2, <1>3 DEF BurnForget, Burning
<1>6. ProfileTyped' /\ CountersTyped'
  BY <1>1, <1>3, <1>4, <1>5 DEF LifecycleInv, ProfileTyped, CountersTyped, HintWithout, Optional
<1>7. OnlyBurnt
  BY <1>1, <1>5 DEF OnlyBurnt, LifecycleInv, ProfileTyped
<1>8. /\ r \in PageRecords /\ r.op = "forgotten" /\ r.user = page[t].user
      /\ r.authed = page[t].authed /\ r.session = page[t].session /\ r.boot = page[t].boot
      /\ r.prev = page[t].prev /\ r.client = page[t].client /\ r.hydrated = page[t].hydrated
  BY <1>4, Known DEF PageRecords, Ops
<1> HIDE DEF r
<1>9. page'[t] = r /\ \A u \in Pages \ {t} : page'[u] = page[u]
  BY <1>5, <1>8, Replaced DEF LifecycleInv
<1>10. BurntOK(t)'
  <2>1. i \notin late => file[i] = "none" /\ ~IsOpen(i)
    BY <1>1, <1>5, Known DEF BurntOK
  <2>2. IsOpen(i)' => IsOpen(i)
    BY <1>8, <1>9 DEF IsOpen
  <2>3. key'[i] = "none"
    BY <1>5 DEF LifecycleInv, ProfileTyped
  <2>4. page'[t].session = i
    BY <1>1, <1>8, <1>9
  <2>5. QED BY <1>5, <2>1, <2>2, <2>3, <2>4 DEF BurntOK
<1>11. page[t].authed /\ page[t].hydrated
  BY <1>5, WhileBurning
<1>12. QED
  BY <1>5, <1>6, <1>7, <1>8, <1>10, <1>11, BurnsOn DEF Burning

\* A wipe that does not finish leaves the inbox loaded.
LEMMA BurnBlockedKeeps ==
  ASSUME LifecycleInv, NEW t \in Pages, BurnBlocked(t)
  PROVE  LifecycleInv'
<1>1. PICK i \in Inboxes : i = page[t].session
  BY WhileBurning DEF BurnBlocked, Burning
<1> DEFINE r == [page[t] EXCEPT !.op = "none", !.noted = {}]
<1>2. /\ page[t].op \in Burning /\ Becomes(t, r)
      /\ UNCHANGED <<key, entries, current, force, network, acts, history>>
      /\ file' \in {file, [file EXCEPT ![i] = "none"]}
      /\ UNCHANGED pageFaults \/ PageFault
  BY <1>1 DEF BurnBlocked, Burning
<1>3. ProfileTyped' /\ CountersTyped'
  BY <1>1, <1>2 DEF LifecycleInv, ProfileTyped, CountersTyped, history, PageFault
<1>4. OnlyBurnt
  BY <1>2 DEF OnlyBurnt, history
<1>5. \A x \in Inboxes : file[x] = "none" /\ ~IsOpen(x) => file'[x] = "none"
  BY <1>1, <1>2 DEF LifecycleInv, ProfileTyped
<1>6. /\ r \in PageRecords /\ r.op = "none" /\ r.user = page[t].user /\ r.noted = {}
      /\ r.authed = page[t].authed /\ r.session = page[t].session /\ r.boot = page[t].boot
      /\ r.prev = page[t].prev /\ r.client = page[t].client /\ r.hydrated = page[t].hydrated
  BY Known DEF PageRecords, Ops
<1> HIDE DEF r
<1>7. BurntOK(t)'
  BY <1>2, <1>6, Replaced DEF BurntOK, LifecycleInv
<1>8. page[t].authed /\ page[t].hydrated
  BY <1>2, WhileBurning
<1>9. QED
  BY <1>2, <1>3, <1>4, <1>5, <1>6, <1>7, <1>8, BurnsOn DEF Burning

\* Clearing the databases counts every inbox as burned.
LEMMA ClearDatabasesKeeps ==
  ASSUME LifecycleInv, NEW t \in Pages, ClearDatabases(t)
  PROVE  LifecycleInv'
<1> DEFINE r == [page[t] EXCEPT !.op = "wiping", !.client = NoInbox, !.boot = Idle, !.user = Idle]
<1>1. /\ page[t].op = "none" /\ page[t].hydrated /\ Becomes(t, r)
      /\ key' = [x \in Inboxes |-> "none"] /\ gone' = Inboxes
      /\ file' = [x \in Inboxes |->
                    IF \E u \in Pages \ {t} : page[u].client = x THEN file[x] ELSE "none"]
      /\ UNCHANGED <<entries, current, force, network, pageFaults, ours, discarded, late>>
      /\ acts < MaxActs /\ acts' = acts + 1
  BY DEF ClearDatabases, Act
<1>2. ProfileTyped' /\ CountersTyped' /\ OnlyBurnt
  BY <1>1 DEF LifecycleInv, ProfileTyped, CountersTyped, OnlyBurnt
<1>3. \A x \in Inboxes : file[x] = "none" /\ ~IsOpen(x) => file'[x] = "none"
  BY <1>1
<1>4. page[t].prev = NoInbox /\ page[t].noted = {}
      /\ (page[t].authed => page[t].session \in Inboxes /\ Safe(page[t].session))
  BY <1>1, Known DEF SessionOK, Drafting, Burning
<1>5. /\ r \in PageRecords /\ r.op = "wiping" /\ r.user = Idle /\ r.noted = {}
      /\ r.authed = page[t].authed /\ r.session = page[t].session /\ r.boot = Idle
      /\ r.prev = NoInbox /\ r.client = NoInbox /\ r.hydrated
  BY <1>1, <1>4, Known, NewPageIs DEF PageRecords, Ops, Optional
<1> HIDE DEF r
<1>6. page'[t] = r
  BY <1>1, <1>5, Replaced DEF LifecycleInv
<1>7. RunsOK(t)' /\ BootOK(t)' /\ BurntOK(t)'
  BY <1>5, <1>6, NewPageIs DEF RunsOK, RunOK, BootOK, BurntOK
<1>8. \A x \in Inboxes : Safe(x) => Safe(x)'
  BY <1>2, BurntKeys
<1>9. SessionOK(t)'
  BY <1>4, <1>5, <1>6, <1>8 DEF SessionOK, Drafting, Burning
<1>10. QED BY <1>1, <1>2, <1>3, <1>4, <1>5, <1>7, <1>9, Burns
-----------------------------------------------------------------------------
(* A connect *)

\* A run that is put off from storing the profile is as it was but for that.
LEMMA DrainedIs ==
  ASSUME NEW run \in Runs
  PROVE  /\ Drained(run) \in Runs /\ Drained(run).inbox = run.inbox
         /\ Drained(run).at \in {run.at, "mark"}
         /\ Drained(run).at = "none" <=> run.at = "none"
         /\ Drained(run).at = "mark" <=> run.at \in {"mark", "profile"}
         /\ Drained(Idle) = Idle
BY DEF Drained, Runs, Idle

\* The connect in one slot of a page goes on: what has to be shown of its step.
LEMMA RunKeeps ==
  ASSUME LifecycleInv, NEW t \in Pages, NEW s \in Slots, NEW r \in PageRecords, NEW i \in Inboxes,
         Becomes(t, r),
         i = page[t][s].inbox, page[t][s].at # "none", r[s].at # "none", r[s].inbox = i,
         s = "boot" => r.user = page[t].user,
         s = "user" => r.boot \in {page[t].boot, Drained(page[t].boot)},
         r.op = page[t].op, r.prev = page[t].prev, r.noted = page[t].noted,
         r.authed = page[t].authed, r.hydrated = page[t].hydrated,
         r.session = page[t].session \/ (r.session = i /\ Safe(i)),
         \/ r.client \in {page[t].client, NoInbox}
         \/ r.client = i /\ \A u \in Pages \ {t} : page[u].client # i,
         ProfileTyped', CountersTyped',
         \A x \in Inboxes \ {i} : key'[x] = key[x], network' \subseteq network \cup {i},
         \A x \in Inboxes : (Safe(x) => Safe(x)') /\ (Held(x) => Held(x)'),
         OursOK', RunsOK(t)', late \subseteq late',
         \A x \in Inboxes \ late' : BeingForgotten(x) =>
           /\ file[x] = "none" /\ ~IsOpen(x) => file'[x] = "none" /\ ~IsOpen(x)'
           /\ key[x] = "none" => key'[x] = "none"
  PROVE  LifecycleInv'
<1>1. page'[t] = r /\ \A u \in Pages \ {t} : page'[u] = page[u]
  BY Replaced DEF LifecycleInv
<1>2. /\ page[t].hydrated /\ s \in {"boot", "user"} /\ page[t].user \in Runs
      /\ s = "user" => Drafting(t) \/ page[t].op = "returning"
      /\ s = "user" /\ page[t].op = "returning" => page[t].session = i
      /\ page[t].prev # NoInbox => Drafting(t) /\ page[t].authed
  <2>1. SessionOK(t) /\ page[t].user \in Runs
    BY Known
  <2>2. page[t] # NewPage
    BY NewPageIs DEF NewPage, Slots
  <2>3. s = "user" => page[t].user # Idle /\ page[t].user.at # "none" /\ page[t].user.inbox = i
    BY NewPageIs
  <2>4. QED BY <2>1, <2>2, <2>3 DEF SessionOK, Drafting, Slots
<1>3. s = "boot" => i = IF page[t].prev = NoInbox THEN page[t].session ELSE page[t].prev
  BY Known, NewPageIs DEF BootOK
<1>4. Drafting(t)' <=> Drafting(t)
  BY <1>1, <1>2 DEF Drafting, Slots
<1>5. SessionOK(t)'
  <2>1. SessionOK(t) /\ r.user.inbox = page[t].user.inbox
    BY <1>2, Known
  <2>2. page[t].op = "creating" /\ ~page[t].authed => r.boot = Idle
    BY <1>2, <1>3, <2>1, DrainedIs, NewPageIs DEF SessionOK
  <2>3. page[t].op \notin {"creating", "returning"} => r.user = Idle
    BY <1>2, <2>1 DEF SessionOK, Drafting
  <2>4. page[t].op = "returning" => r.user.inbox = r.session
    <3>1. page[t].op = "returning" => page[t].prev = NoInbox
      BY <1>2 DEF Drafting
    <3>2. QED BY <1>2, <1>3, <2>1, <3>1 DEF SessionOK
  <2>5. /\ r.session = page[t].session \/ (r.session \in Inboxes /\ Safe(r.session)')
        /\ page[t].prev \in Optional
    BY Known
  <2>6. \A x \in Inboxes : Safe(x) => Safe(x)'
    OBVIOUS
  <2>7. Drafting(t) => page[t].op = "creating"
    BY DEF Drafting
  <2> HIDE DEF Drafting
  <2>8. QED BY <1>1, <1>2, <1>4, <2>1, <2>2, <2>3, <2>4, <2>5, <2>6, <2>7 DEF SessionOK, Optional
<1>6. BootOK(t)'
  <2>1. CASE s = "boot"
    BY <1>1, <1>3, <2>1 DEF BootOK
  <2>2. CASE s = "user"
    <3>1. r.boot # Idle => page[t].boot # Idle /\ r.boot.inbox = page[t].boot.inbox
      BY <2>2, Known, DrainedIs
    <3>2. Drafting(t) /\ page[t].prev = NoInbox => page[t].boot = Idle
      BY Known DEF SessionOK, Drafting
    <3>3. QED BY <1>1, <1>2, <2>2, <3>1, <3>2, Known DEF BootOK
  <2>3. QED BY <1>2, <2>1, <2>2
<1>7. page[t].op \in Burning => r.session = page[t].session
  BY <1>2, <1>3, WhileBurning DEF Burning
<1>8. ASSUME NEW u \in Pages PROVE BurntOK(u)'
  <2> SUFFICES ASSUME NEW x, x = page'[u].session, x \notin late',
                      page'[u].op \in {"forgetting", "forgotten"}
               PROVE  /\ file'[x] = "none" /\ ~IsOpen(x)'
                      /\ page'[u].op = "forgotten" => key'[x] = "none"
    BY DEF BurntOK
  <2>1. page'[u].op = page[u].op /\ page'[u].session = page[u].session
    BY <1>1, <1>7 DEF Burning
  <2>2. x \in Inboxes /\ x = page[u].session
    BY <2>1, WhileBurning DEF Burning
  <2>3. x \notin late' /\ BeingForgotten(x)
    BY <2>1, <2>2 DEF BeingForgotten
  <2>4. file[x] = "none" /\ ~IsOpen(x) /\ (page[u].op = "forgotten" => key[x] = "none")
    BY <2>1, <2>2, <2>3, Known DEF BurntOK
  <2>5. file'[x] = "none" /\ ~IsOpen(x)' /\ (page[u].op = "forgotten" => key'[x] = "none")
    BY <2>2, <2>3, <2>4
  <2>6. QED BY <2>1, <2>5
<1>9. ASSUME NEW u \in Pages, Fresh(u)' PROVE Fresh(u) /\ (u = t => s = "boot" /\ r.user = page[t].user)
  BY <1>1, <1>2, <1>9 DEF Fresh, Slots
<1>10. ASSUME NEW u \in Pages, Fresh(u), u = t => s = "boot" /\ r.user = page[t].user
       PROVE  \A x \in Inboxes : x = page[u].user.inbox => Unknown(x, u)'
  <2> SUFFICES ASSUME NEW x \in Inboxes, x = page[u].user.inbox PROVE Unknown(x, u)'
    OBVIOUS
  <2>1. Unknown(x, u) /\ x # i
    BY <1>10 DEF LifecycleInv, FreshAreUnknown, Unknown, Slots
  <2>2. key'[x] = "none" /\ x \notin network'
    BY <2>1 DEF Unknown
  <2>3. r.boot.inbox = page[t].boot.inbox
    BY <1>2, Known, DrainedIs
  <2>4. \A w \in Pages : /\ x \notin {page'[w].session, page'[w].prev, page'[w].boot.inbox}
                         /\ w # u => x # page'[w].user.inbox
    <3>1. TAKE w \in Pages
    <3>2. CASE w = t
      BY <1>1, <1>2, <2>1, <2>3, <3>2 DEF Unknown
    <3>3. CASE w # t
      BY <1>1, <2>1, <3>3 DEF Unknown
    <3>4. QED BY <3>2, <3>3
  <2>5. QED BY <2>2, <2>4 DEF Unknown
<1>11. ASSUME Fresh(t)' PROVE Unknown(r.user.inbox, t)'
  <2>1. PICK x \in Inboxes : x = page[t].user.inbox
    BY <1>9, <1>11, Known DEF SessionOK, Fresh
  <2>2. QED BY <1>9, <1>10, <1>11, <2>1
<1>12. ASSUME NEW u \in Pages \ {t}, Fresh(u) PROVE Unknown(page[u].user.inbox, u)'
  <2>1. PICK x \in Inboxes : x = page[u].user.inbox
    BY <1>12, Elsewhere
  <2>2. QED BY <1>1, <1>10, <1>12, <2>1
<1>13. r.client # NoInbox => \A u \in Pages \ {t} : page[u].client # r.client
  BY DEF LifecycleInv, LockOK
<1>14. PageOK(t)'
  BY <1>5, <1>6, <1>8 DEF PageOK
<1>15. \A u \in Pages \ {t} : \A x \in Names(u) \cap Inboxes :
         (Safe(x) => Safe(x)') /\ (Held(x) /\ UnderWay(x) => Held(x)')
  OBVIOUS
<1>16. QED BY <1>8, <1>11, <1>12, <1>13, <1>14, <1>15, Frame
RunAts == {"none", "connect", "stage", "publish", "save", "profile", "mark", "failed"}
Moved(p, s, at) == [p EXCEPT ![s].at = at]

\* One run of a page moves on.
LEMMA MovedIs ==
  ASSUME NEW p \in PageRecords, NEW s \in Slots, NEW at \in RunAts
  PROVE  /\ Moved(p, s, at) \in PageRecords
         /\ Moved(p, s, at)[s].at = at /\ Moved(p, s, at)[s].inbox = p[s].inbox
         /\ s = "boot" => Moved(p, s, at).user = p.user
         /\ s = "user" => Moved(p, s, at).boot = p.boot
         /\ Moved(p, s, at).op = p.op /\ Moved(p, s, at).prev = p.prev
         /\ Moved(p, s, at).noted = p.noted /\ Moved(p, s, at).authed = p.authed
         /\ Moved(p, s, at).hydrated = p.hydrated /\ Moved(p, s, at).session = p.session
         /\ Moved(p, s, at).client = p.client
<1>1. CASE s = "boot"
  <2>1. Moved(p, s, at) = [p EXCEPT !.boot = [p.boot EXCEPT !.at = at]]
    BY <1>1 DEF Moved, PageRecords
  <2>2. PICK run \in Runs : run = [p.boot EXCEPT !.at = at]
    BY DEF PageRecords, Runs, RunAts
  <2>3. run.at = at /\ run.inbox = p.boot.inbox
    BY <2>2 DEF PageRecords, Runs
  <2>4. Moved(p, s, at) = [p EXCEPT !.boot = run]
    BY <2>1, <2>2
  <2>5. QED BY <1>1, <2>3, <2>4 DEF PageRecords
<1>2. CASE s = "user"
  <2>1. Moved(p, s, at) = [p EXCEPT !.user = [p.user EXCEPT !.at = at]]
    BY <1>2 DEF Moved, PageRecords
  <2>2. PICK run \in Runs : run = [p.user EXCEPT !.at = at]
    BY DEF PageRecords, Runs, RunAts
  <2>3. run.at = at /\ run.inbox = p.user.inbox
    BY <2>2 DEF PageRecords, Runs
  <2>4. Moved(p, s, at) = [p EXCEPT !.user = run]
    BY <2>1, <2>2
  <2>5. QED BY <1>2, <2>3, <2>4 DEF PageRecords
<1>3. QED BY <1>1, <1>2 DEF Slots

\* The inbox of a run, and what the page knows of both its runs.
LEMMA RunIs ==
  ASSUME LifecycleInv, NEW t \in Pages, NEW s \in Slots, page[t][s].at # "none"
  PROVE  /\ page[t][s].inbox \in Inboxes /\ RunOK(t, "boot") /\ RunOK(t, "user") /\ RunOK(t, s)
         /\ page[t].boot.at \in {"stage", "publish"} => page[t].user.at \notin {"stage", "publish"}
         /\ page[t] \in PageRecords
BY Known DEF RunsOK, RunOK, Slots

\* A connect takes the worker of its page, with the database of its inbox.
LEMMA ConnectInboxKeeps ==
  ASSUME LifecycleInv, NEW t \in Pages, NEW s \in Slots, ConnectInbox(t, s)
  PROVE  LifecycleInv'
<1>1. PICK i \in Inboxes : i = page[t][s].inbox
  BY RunIs DEF ConnectInbox
<1>2. page[t][s].at = "connect" /\ \A q \in Slots : page[t][q].at \notin {"stage", "publish"}
  BY DEF ConnectInbox, Connecting
<1> DEFINE p == [page[t] EXCEPT !.client = i]
           r == Moved(p, s, "stage")
<1>3. /\ p \in PageRecords /\ p.client = i /\ p.boot = page[t].boot /\ p.user = page[t].user
      /\ p.op = page[t].op /\ p.prev = page[t].prev /\ p.noted = page[t].noted
      /\ p.authed = page[t].authed /\ p.hydrated = page[t].hydrated
      /\ p.session = page[t].session
  BY Known DEF PageRecords, Optional
<1>4. /\ Becomes(t, r) /\ \A u \in Pages \ {t} : page[u].client # i
      /\ file' = [file EXCEPT ![i] = IF @ = "none" THEN "blank" ELSE @]
      /\ late' = IF i \in gone \/ BeingForgotten(i) THEN late \cup {i} ELSE late
      /\ UNCHANGED <<key, entries, current, force, network, pageFaults, acts, ours, gone, discarded>>
  BY <1>1 DEF ConnectInbox, Moved
<1> HIDE DEF p
<1>5. p[s] = page[t][s]
  BY <1>3 DEF Slots
<1>6. /\ r \in PageRecords /\ r[s].at = "stage" /\ r[s].inbox = i
      /\ s = "boot" => r.user = page[t].user
      /\ s = "user" => r.boot = page[t].boot
      /\ r.op = page[t].op /\ r.prev = page[t].prev /\ r.noted = page[t].noted
      /\ r.authed = page[t].authed /\ r.hydrated = page[t].hydrated
      /\ r.session = page[t].session /\ r.client = i
  <2>1. "stage" \in RunAts
    BY DEF RunAts
  <2>2. r \in PageRecords /\ r[s].at = "stage" /\ r[s].inbox = p[s].inbox
        /\ (s = "boot" => r.user = p.user) /\ (s = "user" => r.boot = p.boot)
    BY <1>3, <2>1, MovedIs
  <2>3. /\ r.op = p.op /\ r.prev = p.prev /\ r.noted = p.noted /\ r.authed = p.authed
        /\ r.hydrated = p.hydrated /\ r.session = p.session /\ r.client = p.client
    BY <1>3, <2>1, MovedIs
  <2>4. QED BY <1>1, <1>3, <1>5, <2>2, <2>3
<1> HIDE DEF r
<1>7. page'[t] = r /\ \A u \in Pages \ {t} : page'[u] = page[u]
  BY <1>4, <1>6, Replaced DEF LifecycleInv
<1>8. ProfileTyped' /\ CountersTyped'
  BY <1>1, <1>4 DEF LifecycleInv, ProfileTyped, CountersTyped
<1>9. \A x \in Inboxes : (Safe(x)' <=> Safe(x)) /\ (Held(x)' <=> Held(x))
  BY <1>4, SameKeys
<1>10. OursOK'
  BY <1>4, <1>9 DEF LifecycleInv, OursOK, ProfileTyped
<1>11. RunsOK(t)'
  BY <1>1, <1>2, <1>6, <1>7, <1>9, RunIs DEF RunsOK, RunOK, Slots
<1>12. ASSUME NEW x \in Inboxes \ late', BeingForgotten(x)
       PROVE  file[x] = "none" /\ ~IsOpen(x) => file'[x] = "none" /\ ~IsOpen(x)'
  <2>1. x # i
    BY <1>4, <1>12
  <2>2. file'[x] = file[x]
    BY <1>4, <2>1 DEF LifecycleInv, ProfileTyped
  <2>3. IsOpen(x)' => IsOpen(x)
    BY <1>6, <1>7, <2>1 DEF IsOpen
  <2>4. QED BY <2>2, <2>3
<1>13. QED
  BY <1>1, <1>2, <1>4, <1>6, <1>8, <1>9, <1>10, <1>11, <1>12, RunKeeps
\* The ids of a draft are stored, and from then on no create drops it.
LEMMA StageKeeps ==
  ASSUME LifecycleInv, NEW t \in Pages, NEW s \in Slots, Stage(t, s)
  PROVE  LifecycleInv'
<1>1. PICK i \in Inboxes : i = page[t][s].inbox
  BY RunIs DEF Stage
<1>2. PICK boot \in Runs : boot = IF s = "user" THEN Drained(page[t].boot) ELSE page[t].boot
  BY Known, DrainedIs
<1> DEFINE p == [page[t] EXCEPT !.boot = boot]
           r == Moved(p, s, "publish")
<1>3. /\ p \in PageRecords /\ p.client = page[t].client /\ p.boot = boot /\ p.user = page[t].user
      /\ p.op = page[t].op /\ p.prev = page[t].prev /\ p.noted = page[t].noted
      /\ p.authed = page[t].authed /\ p.hydrated = page[t].hydrated
      /\ p.session = page[t].session
  BY Known DEF PageRecords, Optional
<1>4. p = IF s = "user" THEN [page[t] EXCEPT !.boot = Drained(@)] ELSE page[t]
  BY <1>2, Known DEF PageRecords
<1>5. /\ page[t][s].at = "stage" /\ Becomes(t, r)
      /\ key' = [key EXCEPT ![i] = IF @ = "draft" THEN "staged" ELSE @]
      /\ UNCHANGED <<file, entries, current, force, network, pageFaults, acts, history>>
  BY <1>1, <1>4 DEF Stage, Moved
<1> HIDE DEF p
<1>6. p[s] = page[t][s]
  BY <1>2, <1>3 DEF Slots
<1>7. /\ r \in PageRecords /\ r[s].at = "publish" /\ r[s].inbox = i
      /\ s = "boot" => r.user = page[t].user
      /\ s = "user" => r.boot = Drained(page[t].boot)
      /\ r.op = page[t].op /\ r.prev = page[t].prev /\ r.noted = page[t].noted
      /\ r.authed = page[t].authed /\ r.hydrated = page[t].hydrated
      /\ r.session = page[t].session /\ r.client = page[t].client
  <2>1. "publish" \in RunAts
    BY DEF RunAts
  <2>2. r \in PageRecords /\ r[s].at = "publish" /\ r[s].inbox = p[s].inbox
        /\ (s = "boot" => r.user = p.user) /\ (s = "user" => r.boot = p.boot)
    BY <1>3, <2>1, MovedIs
  <2>3. /\ r.op = p.op /\ r.prev = p.prev /\ r.noted = p.noted /\ r.authed = p.authed
        /\ r.hydrated = p.hydrated /\ r.session = p.session /\ r.client = p.client
    BY <1>3, <2>1, MovedIs
  <2>4. QED BY <1>1, <1>2, <1>3, <1>6, <2>2, <2>3
<1> HIDE DEF r
<1>8. page'[t] = r
  BY <1>5, <1>7, Replaced DEF LifecycleInv
<1>9. ProfileTyped' /\ CountersTyped'
  BY <1>1, <1>5 DEF LifecycleInv, ProfileTyped, CountersTyped, history
<1>10. Held(i) /\ page[t].client = i
  BY <1>1, <1>5, RunIs DEF RunOK
<1>11. /\ key'[i] = IF key[i] = "draft" THEN "staged" ELSE key[i]
       /\ key[i] \in {"none", "draft", "staged", "ready"}
       /\ \A x \in Inboxes \ {i} : key'[x] = key[x]
  BY <1>5 DEF LifecycleInv, ProfileTyped
<1>12. Safe(i)' /\ \A x \in Inboxes : (Safe(x) => Safe(x)') /\ (Held(x) => Held(x)')
  BY <1>5, <1>10, <1>11 DEF Safe, Held, history
<1>13. OursOK'
  BY <1>5, <1>12 DEF LifecycleInv, OursOK, ProfileTyped, history
<1>14. RunsOK(t)'
  <2>1. CASE s = "boot"
    BY <1>5, <1>7, <1>8, <1>10, <1>12, <2>1, RunIs DEF RunsOK, RunOK
  <2>2. CASE s = "user"
    <3>1. Drained(page[t].boot).at = page[t].boot.at \/ Drained(page[t].boot).at = "mark"
      BY Known, DrainedIs
    <3>2. Drained(page[t].boot).inbox = page[t].boot.inbox
          /\ (Drained(page[t].boot).at = "mark" => page[t].boot.at \in {"mark", "profile"})
      BY Known, DrainedIs
    <3>3. /\ page[t].boot.at \notin {"stage", "publish"} /\ RunOK(t, "boot")
          /\ page'[t].boot = Drained(page[t].boot) /\ page'[t].user.at = "publish"
          /\ page'[t].user.inbox = i /\ page'[t].client = i
      BY <1>1, <1>5, <1>7, <1>8, <1>10, <2>2, RunIs
    <3>4. RunOK(t, "boot")'
      BY <1>12, <3>1, <3>2, <3>3 DEF RunOK
    <3>5. RunOK(t, "user")'
      BY <1>12, <3>3 DEF RunOK
    <3>6. QED BY <3>1, <3>3, <3>4, <3>5 DEF RunsOK
  <2>3. QED BY <2>1, <2>2 DEF Slots
<1>15. ASSUME NEW x \in Inboxes \ late', BeingForgotten(x)
       PROVE  /\ file[x] = "none" /\ ~IsOpen(x) => file'[x] = "none" /\ ~IsOpen(x)'
              /\ key[x] = "none" => key'[x] = "none"
  <2>1. page'[t].client = page[t].client /\ \A u \in Pages \ {t} : page'[u] = page[u]
    BY <1>5, <1>7, <1>8, Replaced DEF LifecycleInv
  <2>2. IsOpen(x)' => IsOpen(x)
    BY <2>1 DEF IsOpen
  <2>3. QED BY <1>5, <1>11, <2>2
<1>16. QED
  BY <1>1, <1>5, <1>7, <1>9, <1>11, <1>12, <1>13, <1>14, <1>15, RunKeeps DEF history

\* What is published is held by this browser.
LEMMA PublishInboxKeeps ==
  ASSUME LifecycleInv, NEW t \in Pages, NEW s \in Slots, PublishInbox(t, s)
  PROVE  LifecycleInv'
<1>1. PICK i \in Inboxes : i = page[t][s].inbox
  BY RunIs DEF PublishInbox
<1> DEFINE r == Moved(page[t], s, "save")
<1>2. /\ page[t][s].at = "publish" /\ Becomes(t, r)
      /\ file' = [file EXCEPT ![i] = "registered"]
      /\ network' = network \cup {i}
      /\ ours' = IF i \in network THEN ours ELSE ours \cup {i}
      /\ UNCHANGED <<key, entries, current, force, pageFaults, acts, gone, discarded, late>>
  BY <1>1 DEF PublishInbox, Moved
<1>3. /\ r \in PageRecords /\ r[s].at = "save" /\ r[s].inbox = i
      /\ s = "boot" => r.user = page[t].user
      /\ s = "user" => r.boot = page[t].boot
  <2>1. "save" \in RunAts /\ page[t] \in PageRecords
    BY Known DEF RunAts
  <2>2. QED BY <1>1, <2>1, MovedIs
<1>4. /\ r.op = page[t].op /\ r.prev = page[t].prev /\ r.noted = page[t].noted
      /\ r.authed = page[t].authed /\ r.hydrated = page[t].hydrated
      /\ r.session = page[t].session /\ r.client = page[t].client
  <2>1. "save" \in RunAts /\ page[t] \in PageRecords
    BY Known DEF RunAts
  <2>2. QED BY <2>1, MovedIs
<1> HIDE DEF r
<1>5. page'[t] = r /\ \A u \in Pages \ {t} : page'[u] = page[u]
  BY <1>2, <1>3, Replaced DEF LifecycleInv
<1>6. ProfileTyped' /\ CountersTyped'
  BY <1>1, <1>2 DEF LifecycleInv, ProfileTyped, CountersTyped
<1>7. Safe(i) /\ page[t].client = i
  BY <1>1, <1>2, RunIs DEF RunOK
<1>8. \A x \in Inboxes : (Safe(x)' <=> Safe(x)) /\ (Held(x)' <=> Held(x))
  BY <1>2, SameKeys
<1>9. OursOK'
  BY <1>2, <1>7, <1>8 DEF LifecycleInv, OursOK, ProfileTyped
<1>10. RunsOK(t)'
  BY <1>1, <1>2, <1>3, <1>4, <1>5, <1>7, <1>8, RunIs DEF RunsOK, RunOK, Slots
<1>11. ASSUME NEW x \in Inboxes \ late', BeingForgotten(x)
       PROVE  file[x] = "none" /\ ~IsOpen(x) => file'[x] = "none" /\ ~IsOpen(x)'
  <2>1. IsOpen(x)' => IsOpen(x)
    BY <1>4, <1>5 DEF IsOpen
  <2>2. ~IsOpen(x) => x # i
    BY <1>7 DEF IsOpen
  <2>3. QED BY <1>2, <2>1, <2>2 DEF LifecycleInv, ProfileTyped
<1>12. QED
  BY <1>1, <1>2, <1>3, <1>4, <1>6, <1>8, <1>9, <1>10, <1>11, RunKeeps
\* Storing a completed identity, or one with its profile, takes no key from anybody.
LEMMA StoringKeeps ==
  ASSUME LifecycleInv, NEW t \in Pages, NEW s \in Slots, NEW i \in Inboxes, i = page[t][s].inbox,
         page[t][s].at \in {"save", "profile"}, NEW at \in {"profile", "mark"},
         NEW session \in {page[t].session, i}, NEW known \in SUBSET Inboxes, NEW now \in Optional,
         Becomes(t, [Moved(page[t], s, at) EXCEPT !.session = session, !.entries = known,
                       !.current = now]),
         \/ UNCHANGED key
         \/ key' = [key EXCEPT ![i] = "ready"] /\ (key[i] = "none" => i \in late'),
         late' \in {late, late \cup {i}}, entries' \subseteq Inboxes, current' \in Optional,
         UNCHANGED <<file, force, network, pageFaults, acts, ours, gone, discarded>>
  PROVE  LifecycleInv'
<1> DEFINE p == Moved(page[t], s, at)
           r == [p EXCEPT !.session = session, !.entries = known, !.current = now]
<1>1. at \in RunAts /\ page[t] \in PageRecords /\ session \in Optional
  BY Known DEF RunAts, Optional
<1>2. /\ p \in PageRecords /\ p[s].at = at /\ p[s].inbox = i
      /\ s = "boot" => p.user = page[t].user
      /\ s = "user" => p.boot = page[t].boot
      /\ p.client = page[t].client /\ p.op = page[t].op /\ p.prev = page[t].prev
      /\ p.noted = page[t].noted /\ p.authed = page[t].authed /\ p.hydrated = page[t].hydrated
  BY <1>1, MovedIs
<1> HIDE DEF p
<1>3. /\ r \in PageRecords /\ r.boot = p.boot /\ r.user = p.user /\ r.session = session
      /\ r.client = page[t].client /\ r.op = page[t].op /\ r.prev = page[t].prev
      /\ r.noted = page[t].noted /\ r.authed = page[t].authed /\ r.hydrated = page[t].hydrated
      /\ Becomes(t, r)
  BY <1>1, <1>2 DEF PageRecords, p
<1> HIDE DEF r
<1>4. r[s].at = at /\ r[s].inbox = i
      /\ (s = "boot" => r.user = page[t].user) /\ (s = "user" => r.boot = page[t].boot)
  BY <1>2, <1>3 DEF Slots
<1>5. page'[t] = r /\ \A u \in Pages \ {t} : page'[u] = page[u]
  BY <1>3, Replaced DEF LifecycleInv
<1>6. ProfileTyped' /\ CountersTyped'
  BY DEF LifecycleInv, ProfileTyped, CountersTyped
<1>7. Safe(i)
  BY RunIs DEF RunOK
<1>8. \A x \in Inboxes : (Safe(x) => Safe(x)') /\ (Held(x) => Held(x)')
  BY DEF Safe, Held, LifecycleInv, ProfileTyped
<1>9. OursOK'
  BY <1>8 DEF LifecycleInv, OursOK, ProfileTyped
<1>10. RunsOK(t)'
  <2>1. CASE s = "boot"
    BY <1>3, <1>4, <1>5, <1>7, <1>8, <2>1, RunIs DEF RunsOK, RunOK
  <2>2. CASE s = "user"
    BY <1>3, <1>4, <1>5, <1>7, <1>8, <2>2, RunIs DEF RunsOK, RunOK
  <2>3. QED BY <2>1, <2>2 DEF Slots
<1>11. ASSUME NEW x \in Inboxes \ late', BeingForgotten(x)
       PROVE  /\ file[x] = "none" /\ ~IsOpen(x) => file'[x] = "none" /\ ~IsOpen(x)'
              /\ key[x] = "none" => key'[x] = "none"
  <2>1. IsOpen(x)' => IsOpen(x)
    BY <1>3, <1>5 DEF IsOpen
  <2>2. key[x] = "none" => key'[x] = "none"
    BY <1>11 DEF LifecycleInv, ProfileTyped
  <2>3. QED BY <2>1, <2>2
<1>12. \A x \in Inboxes \ {i} : key'[x] = key[x]
  BY DEF LifecycleInv, ProfileTyped
<1>13. page[t][s].at # "none" /\ r[s].at # "none" /\ late \subseteq late' /\ network' = network
  BY <1>4
<1>14. r.session = page[t].session \/ (r.session = i /\ Safe(i))
  BY <1>3, <1>7
<1>15. QED
  BY <1>3, <1>4, <1>6, <1>8, <1>9, <1>10, <1>11, <1>12, <1>13, <1>14, RunKeeps

\* A connection that is up writes the entry of its inbox and makes its key ready.
LEMMA SaveKeeps ==
  ASSUME LifecycleInv, NEW t \in Pages, NEW s \in Slots, Save(t, s)
  PROVE  LifecycleInv'
<1>1. PICK i \in Inboxes : i = page[t][s].inbox
  BY RunIs DEF Save
<1>2. PICK known \in SUBSET Inboxes : known = Upserted(t, i)
  BY PageIs DEF LifecycleInv, Upserted
<1>3. /\ page[t][s].at = "save" /\ late' = late /\ page[t] \in PageRecords
      /\ UNCHANGED <<file, force, network, pageFaults, acts, ours, gone, discarded>>
  BY Known DEF Save, history
<1>4. CASE /\ key[i] # "none" /\ key' = [key EXCEPT ![i] = "ready"]
           /\ entries' = known /\ current' = i
           /\ Becomes(t, [page[t] EXCEPT ![s].at = "profile", !.session = i,
                            !.entries = known, !.current = i])
  <2>1. Becomes(t, [Moved(page[t], s, "profile") EXCEPT !.session = i, !.entries = known,
                      !.current = i])
    BY <1>4 DEF Moved
  <2>2. QED BY <1>1, <1>3, <1>4, <2>1, StoringKeeps DEF Optional
<1>5. CASE Becomes(t, Moved(page[t], s, "mark")) /\ UNCHANGED <<key, entries, current>>
  <2> DEFINE p == Moved(page[t], s, "mark")
  <2>1. p \in PageRecords /\ p.session = page[t].session
    BY <1>3, MovedIs DEF RunAts
  <2> HIDE DEF p
  <2>2. PICK old \in SUBSET Inboxes, now \in Optional : old = p.entries /\ now = p.current
    BY <2>1 DEF PageRecords
  <2>3. PICK session \in Optional : session = page[t].session
    BY Known
  <2>4. p = [p EXCEPT !.session = session, !.entries = old, !.current = now]
    BY <2>1, <2>2, <2>3 DEF PageRecords
  <2>5. Becomes(t, [Moved(page[t], s, "mark") EXCEPT !.session = session, !.entries = old,
                      !.current = now])
    BY <1>5, <2>4 DEF p
  <2>6. entries' \subseteq Inboxes /\ current' \in Optional
    BY <1>5, Known
  <2>7. QED BY <1>1, <1>3, <1>5, <2>3, <2>5, <2>6, StoringKeeps
<1>6. QED BY <1>1, <1>2, <1>4, <1>5 DEF Save, Moved

\* The profile of the inbox is written back with the identity it was read from.
LEMMA ProfileKeeps ==
  ASSUME LifecycleInv, NEW t \in Pages, NEW s \in Slots, Profile(t, s)
  PROVE  LifecycleInv'
<1>1. PICK i \in Inboxes : i = page[t][s].inbox
  BY RunIs DEF Profile
<1>2. PICK session \in {page[t].session, i} :
        Becomes(t, [Moved(page[t], s, "mark") EXCEPT !.session = session])
        /\ \/ /\ key' = [key EXCEPT ![i] = "ready"]
              /\ late' = IF key[i] = "none" THEN late \cup {i} ELSE late
           \/ UNCHANGED <<key, late>>
  <2>1. CASE /\ key' = [key EXCEPT ![i] = "ready"]
             /\ Becomes(t, [page[t] EXCEPT ![s].at = "mark", !.session = i])
             /\ late' = IF key[i] = "none" THEN late \cup {i} ELSE late
    BY <2>1 DEF Moved
  <2>2. CASE Becomes(t, Moved(page[t], s, "mark")) /\ UNCHANGED <<key, late>>
    <3>1. "mark" \in RunAts /\ page[t] \in PageRecords
      BY Known DEF RunAts
    <3>2. Moved(page[t], s, "mark") \in PageRecords
          /\ Moved(page[t], s, "mark").session = page[t].session
      BY <3>1, MovedIs
    <3>3. Moved(page[t], s, "mark")
            = [Moved(page[t], s, "mark") EXCEPT !.session = page[t].session]
      BY <3>2 DEF PageRecords
    <3>4. QED BY <2>2, <3>3
  <2>3. QED BY <1>1, <2>1, <2>2 DEF Profile, Moved
<1>3. /\ page[t][s].at = "profile" /\ page[t] \in PageRecords
      /\ UNCHANGED <<file, entries, current, force, network, pageFaults, acts, ours, gone,
                     discarded>>
  BY Known DEF Profile
<1> DEFINE p == Moved(page[t], s, "mark")
<1>4. p \in PageRecords
  BY <1>3, MovedIs DEF RunAts
<1> HIDE DEF p
<1>5. PICK old \in SUBSET Inboxes, now \in Optional : old = p.entries /\ now = p.current
  BY <1>4 DEF PageRecords
<1>6. [p EXCEPT !.session = session]
        = [p EXCEPT !.session = session, !.entries = old, !.current = now]
  BY <1>4, <1>5 DEF PageRecords
<1>7. Becomes(t, [Moved(page[t], s, "mark") EXCEPT !.session = session, !.entries = old,
                    !.current = now])
  BY <1>2, <1>6 DEF p
<1>8. entries' \subseteq Inboxes /\ current' \in Optional
  BY <1>3, Known
<1>9. QED BY <1>1, <1>2, <1>3, <1>7, <1>8, StoringKeeps
\* A connect that throws lets go of the worker, or never had it.
LEMMA ConnectFailsKeeps ==
  ASSUME LifecycleInv, NEW t \in Pages, NEW s \in Slots, ConnectFails(t, s)
  PROVE  LifecycleInv'
<1>1. /\ page[t][s].at \in {"connect", "stage", "publish"}
      /\ UNCHANGED <<key, file, entries, current, force, network, acts, history>>
      /\ UNCHANGED pageFaults \/ PageFault
  BY DEF ConnectFails, browser
<1>2. PICK i \in Inboxes : i = page[t][s].inbox
  BY <1>1, RunIs
<1>3. PICK client \in Optional :
        /\ client = IF page[t][s].at = "connect" THEN page[t].client ELSE NoInbox
        /\ client \in {page[t].client, NoInbox}
  BY Known DEF Optional
<1>4. page[t][s].at = "connect" => \A q \in Slots : page[t][q].at \notin {"stage", "publish"}
  BY DEF ConnectFails, Connecting
<1>5. /\ ProfileTyped' /\ CountersTyped' /\ OursOK' /\ page[t] \in PageRecords
      /\ entries' \subseteq Inboxes /\ current' \in Optional /\ force' \in Optional
      /\ \A x \in Inboxes : (Safe(x)' <=> Safe(x)) /\ (Held(x)' <=> Held(x))
  <2>1. \A x \in Inboxes : (Safe(x)' <=> Safe(x)) /\ (Held(x)' <=> Held(x))
    BY <1>1, SameKeys DEF history
  <2>2. ProfileTyped' /\ CountersTyped'
    BY <1>1 DEF LifecycleInv, ProfileTyped, CountersTyped, PageFault, history
  <2>3. OursOK'
    BY <1>1, <2>1 DEF LifecycleInv, OursOK, ProfileTyped, history
  <2>4. QED BY <1>1, <2>1, <2>2, <2>3, Known
<1> DEFINE goesOn == IF s = "user" THEN "failed" ELSE "mark"
           p == Moved(page[t], s, goesOn)
           r == [p EXCEPT !.client = client]
<1>6. CASE s = "user" \/ page[t].authed
  <2>1. goesOn \in RunAts /\ goesOn \in {"failed", "mark"}
    BY DEF RunAts
  <2> HIDE DEF goesOn
  <2>2. /\ p \in PageRecords /\ p[s].at = goesOn /\ p[s].inbox = i
        /\ s = "boot" => p.user = page[t].user
        /\ s = "user" => p.boot = page[t].boot
        /\ p.session = page[t].session /\ p.op = page[t].op /\ p.prev = page[t].prev
        /\ p.noted = page[t].noted /\ p.authed = page[t].authed
        /\ p.hydrated = page[t].hydrated
    BY <1>2, <1>5, <2>1, MovedIs
  <2>3. Becomes(t, r)
    <3>1. \/ s = "user" /\ Becomes(t, [page[t] EXCEPT ![s] = [@ EXCEPT !.at = goesOn],
                                          !.op = @, !.client = client])
          \/ s = "boot" /\ Becomes(t, [page[t] EXCEPT ![s] = [@ EXCEPT !.at = goesOn],
                                          !.op = @, !.client = client])
      BY <1>3, <1>6 DEF ConnectFails, Slots, goesOn
    <3>2. [page[t] EXCEPT ![s] = [@ EXCEPT !.at = goesOn], !.op = @, !.client = client] = r
      BY <1>5 DEF PageRecords, p, Moved, Slots
    <3>3. QED BY <3>1, <3>2
  <2> HIDE DEF p
  <2>4. /\ r \in PageRecords /\ r.boot = p.boot /\ r.user = p.user /\ r.client = client
        /\ r.session = page[t].session /\ r.op = page[t].op /\ r.prev = page[t].prev
        /\ r.noted = page[t].noted /\ r.authed = page[t].authed
        /\ r.hydrated = page[t].hydrated
    BY <2>2 DEF PageRecords
  <2> HIDE DEF r
  <2>5. r[s].at = goesOn /\ r[s].inbox = i
        /\ (s = "boot" => r.user = page[t].user) /\ (s = "user" => r.boot = page[t].boot)
    BY <2>2, <2>4 DEF Slots
  <2>6. page'[t] = r /\ \A u \in Pages \ {t} : page'[u] = page[u]
    BY <2>3, <2>4, Replaced DEF LifecycleInv
  <2>7. RunsOK(t)'
    <3>1. CASE s = "boot"
      <4>1. page[t].user.at \in {"stage", "publish"} => client = page[t].client
        BY <1>1, <1>3, <3>1, RunIs DEF Slots
      <4>2. goesOn = "mark"
        BY <3>1 DEF goesOn
      <4>3. QED
        BY <1>1, <1>2, <1>5, <2>4, <2>5, <2>6, <3>1, <4>1, <4>2, RunIs DEF RunsOK, RunOK
    <3>2. CASE s = "user"
      <4>1. page[t].boot.at \in {"stage", "publish"} => client = page[t].client
        BY <1>1, <1>3, <3>2, RunIs DEF Slots
      <4>2. goesOn = "failed"
        BY <3>2 DEF goesOn
      <4>3. QED
        BY <1>1, <1>2, <1>5, <2>4, <2>5, <2>6, <3>2, <4>1, <4>2, RunIs DEF RunsOK, RunOK
    <3>3. QED BY <3>1, <3>2 DEF Slots
  <2>8. ASSUME NEW x \in Inboxes, IsOpen(x)' PROVE IsOpen(x)
    BY <1>3, <2>4, <2>6, <2>8 DEF IsOpen
  <2>9. /\ \A x \in Inboxes \ {i} : key'[x] = key[x]
        /\ network' = network /\ late \subseteq late'
        /\ \A x \in Inboxes \ late' : BeingForgotten(x) =>
             /\ file[x] = "none" /\ ~IsOpen(x) => file'[x] = "none" /\ ~IsOpen(x)'
             /\ key[x] = "none" => key'[x] = "none"
    BY <1>1, <2>8 DEF history
  <2>10. page[t][s].at # "none" /\ r[s].at # "none"
    BY <1>1, <2>1, <2>5
  <2>11. QED
    BY <1>2, <1>3, <1>5, <2>3, <2>4, <2>5, <2>7, <2>9, <2>10, RunKeeps
<1>7. CASE s = "boot" /\ ~page[t].authed
  <2>1. PICK op \in Ops : op = IF page[t].op = "opening" THEN "none" ELSE page[t].op
    BY Known, PageIs DEF Ops, LifecycleInv
  <2> DEFINE q == [page[t] EXCEPT !.boot = Idle, !.op = op, !.client = client]
  <2>2. Becomes(t, q)
    BY <1>3, <1>5, <1>7, <2>1 DEF ConnectFails, PageRecords
  <2>3. /\ q \in PageRecords /\ q.boot = Idle /\ q.op = op /\ q.client = client
        /\ q.user = page[t].user /\ q.session = page[t].session /\ q.prev = page[t].prev
        /\ q.noted = page[t].noted /\ ~q.authed /\ q.hydrated = page[t].hydrated
    BY <1>5, <1>7, NewPageIs DEF PageRecords
  <2> HIDE DEF q
  <2>4. page'[t] = q
    BY <2>2, <2>3, Replaced DEF LifecycleInv
  <2>5. /\ page[t].op \notin {"creating", "returning"} \cup Burning /\ page[t].prev = NoInbox
        /\ page[t].user = Idle /\ page[t].noted = {} /\ page[t].hydrated
    BY <1>1, <1>7, Known, NewPageIs DEF SessionOK, Drafting, NewPage
  <2>6. RunsOK(t)' /\ BootOK(t)' /\ ~Fresh(t)'
    BY <2>1, <2>3, <2>4, <2>5, NewPageIs DEF RunsOK, RunOK, BootOK, Fresh
  <2>7. SessionOK(t)' /\ BurntOK(t)'
    BY <2>1, <2>3, <2>4, <2>5, NewPageIs DEF SessionOK, Drafting, Burning, BurntOK
  <2>8. UNCHANGED <<key, file, network, history>>
    BY <1>1
  <2>9. QED BY <1>3, <1>5, <2>2, <2>3, <2>6, <2>7, <2>8, NewPageIs, Stays
<1>8. QED BY <1>6, <1>7 DEF Slots
-----------------------------------------------------------------------------
(* The invariant, and what it says *)

\* The invariant holds of a browser nobody has used yet.
LEMMA InitLifecycleInv ==
  ASSUME LifecycleInit
  PROVE  LifecycleInv
<1>1. ProfileTyped /\ CountersTyped
  BY DEF LifecycleInit, ProfileTyped, CountersTyped, Optional
<1>2. PagesTyped /\ \A t \in Pages : page[t] = NewPage
  BY NewPageIs DEF LifecycleInit, PagesTyped
<1>3. ASSUME NEW t \in Pages PROVE PageOK(t) /\ ~Fresh(t)
  <2>0. page[t] = NewPage
    BY <1>2
  <2>1. RunsOK(t) /\ BootOK(t) /\ ~Fresh(t)
    BY <2>0 DEF RunsOK, RunOK, BootOK, Fresh, NewPage, Idle
  <2>2. SessionOK(t)
    BY <2>0 DEF SessionOK, NewPage, Drafting, Burning
  <2>3. BurntOK(t)
    BY <2>0 DEF BurntOK, NewPage
  <2>4. QED BY <2>1, <2>2, <2>3 DEF PageOK
<1>4. OursOK
  BY DEF LifecycleInit, OursOK
<1>5. LockOK
  BY <1>2 DEF LockOK, NewPage
<1>6. QED BY <1>1, <1>2, <1>3, <1>4, <1>5 DEF LifecycleInv, PagesOK, FreshAreUnknown

\* ... and any step keeps it.
LEMMA NextLifecycleInv ==
  ASSUME LifecycleInv, [LifecycleNext]_lifecycleVars
  PROVE  LifecycleInv'
<1>1. CASE UNCHANGED lifecycleVars
  <2>1. \A x \in Inboxes : (Safe(x)' <=> Safe(x)) /\ (Held(x)' <=> Held(x))
    BY <1>1 DEF lifecycleVars, Safe, Held
  <2>2. ProfileTyped' /\ CountersTyped' /\ PagesTyped' /\ LockOK'
    BY <1>1 DEF lifecycleVars, LifecycleInv, ProfileTyped, CountersTyped, PagesTyped, LockOK
  <2>3. FreshAreUnknown'
    BY <1>1 DEF lifecycleVars, LifecycleInv, FreshAreUnknown, Fresh, Unknown
  <2>4. OursOK'
    BY <1>1, <2>1 DEF lifecycleVars, LifecycleInv, OursOK, ProfileTyped
  <2>5. ASSUME NEW t \in Pages PROVE PageOK(t)'
    <3>1. page'[t] = page[t]
      BY <1>1, Known DEF lifecycleVars
    <3>2. RunsOK(t)' /\ BootOK(t)'
      BY <2>1, <3>1, Known DEF RunsOK, RunOK, BootOK
    <3>3. SessionOK(t)'
      BY <2>1, <3>1, Known DEF SessionOK, Drafting, Optional
    <3>4. BurntOK(t)'
      BY <1>1, Known DEF BurntOK, IsOpen, lifecycleVars
    <3>5. QED BY <3>2, <3>3, <3>4 DEF PageOK
  <2>6. QED BY <2>2, <2>3, <2>4, <2>5 DEF LifecycleInv, PagesOK
<1>2. CASE LifecycleNext
  <2>1. ASSUME NEW t \in Pages, PageStep(t) PROVE LifecycleInv'
    BY <2>1, BootKeeps, OpenLocalKeeps, MarkKeeps, LeaveKeeps, PlanCreateKeeps,
       PlanRestoreKeeps, StoreDraftKeeps, CreatedKeeps, CreateFailedKeeps, ReturnedKeeps,
       BurnBeginKeeps, BurnDisconnectKeeps, BurnClearKeeps, BurnForgetKeeps,
       BurnBlockedKeeps, ClearDatabasesKeeps
    DEF PageStep
  <2>2. ASSUME NEW t \in Pages, NEW s \in Slots, ConnectStep(t, s) PROVE LifecycleInv'
    BY <2>2, ConnectInboxKeeps, StageKeeps, PublishInboxKeeps, SaveKeeps, ProfileKeeps,
       ConnectFailsKeeps
    DEF ConnectStep
  <2>3. QED BY <1>2, <2>1, <2>2 DEF LifecycleNext
<1>3. QED BY <1>1, <1>2

\* What every reachable state of the browser satisfies: who holds a key, what the session
\* and the two connects of each page are, and what a burn has removed so far.
THEOREM LifecycleInvariance == LifecycleSpec => []LifecycleInv
<1>1. LifecycleInit => LifecycleInv
  BY InitLifecycleInv
<1>2. LifecycleInv /\ [LifecycleNext]_lifecycleVars => LifecycleInv'
  BY NextLifecycleInv
<1>3. QED BY <1>1, <1>2, PTL DEF LifecycleSpec

\* Every variable has its type, and no two pages have the database of one inbox open: the
\* lock of withInboxLifecycleLock holds, whatever reloads, crashes or fails.
THEOREM LifecycleTypeCorrect == LifecycleSpec => []LifecycleTypeOK
<1>1. LifecycleInv => LifecycleTypeOK
  <2> SUFFICES ASSUME LifecycleInv PROVE LifecycleTypeOK
    OBVIOUS
  <2>1. \A t \in Pages :
          /\ page[t].entries \cup page[t].noted \subseteq Inboxes
          /\ {page[t].current, page[t].session, page[t].client, page[t].prev} \subseteq
               Inboxes \cup {NoInbox}
          /\ page[t].boot \in Runs /\ page[t].user \in Runs
    BY PageIs DEF LifecycleInv, Optional
  <2>2. QED
    BY <2>1 DEF LifecycleInv, LifecycleTypeOK, ProfileTyped, CountersTyped, LockOK, Optional
<1>2. QED BY <1>1, LifecycleInvariance, PTL

\* An inbox that this browser published keeps its stored key until the user burns it: the
\* ids are staged before anything is published (onInstallationReady), a create drops only
\* rows without ids (planPendingNewInboxAttempts), and a resumed or restored attempt is
\* stored again as it was read.
THEOREM NoInboxIsEverStranded == LifecycleSpec => []NoInboxIsStranded
<1>1. LifecycleInv => NoInboxIsStranded
  BY DEF LifecycleInv, OursOK, Safe, NoInboxIsStranded, ProfileTyped
<1>2. QED BY <1>1, LifecycleInvariance, PTL

\* A burn that ends well has removed the key and the files of its inbox unless another flow
\* brought them back, and one that reports a failure has left the key
\* (burnInboxWithDependencies removes the key last).
THEOREM BurnsReportTheTruth == LifecycleSpec => BurnReportsTruth
<1>1. LifecycleInv /\ [LifecycleNext]_lifecycleVars => [BurnStep]_lifecycleVars
  <2> SUFFICES ASSUME LifecycleInv, NEW t \in Pages
               PROVE  LET i == page[t].session IN
                      /\ BurnFinish(t) => i \in late \/ (key'[i] = "none" /\ file'[i] = "none")
                      /\ BurnBlocked(t) => i \in gone \cup discarded \/ key'[i] # "none"
    BY DEF BurnStep
  <2>1. ASSUME BurnFinish(t), page[t].session \notin late
        PROVE  key'[page[t].session] = "none" /\ file'[page[t].session] = "none"
    BY <2>1, Known DEF BurnFinish, BurntOK, browser
  <2>2. ASSUME BurnBlocked(t), page[t].session \notin gone \cup discarded
        PROVE  key'[page[t].session] # "none"
    <3>1. Safe(page[t].session) /\ key' = key
      BY <2>2, WhileBurning DEF BurnBlocked, Burning
    <3>2. QED BY <2>2, <3>1 DEF Safe
  <2>3. QED BY <2>1, <2>2
<1>2. QED BY <1>1, LifecycleInvariance, PTL DEF LifecycleSpec, BurnReportsTruth
=============================================================================
