---------------------------- MODULE InboxLifecycle ----------------------------
(***************************************************************************)
(* The inboxes of one browser: creating, restoring, booting into,          *)
(* switching and burning them, and clearing everything                     *)
(* (src/src/features/auth/useAuth.ts, InboxSwitcher.tsx,                   *)
(* src/src/lib/identity/burn-inbox.ts).                                    *)
(*                                                                         *)
(* An inbox stands for its account key.  Pages share the identity rows, the *)
(* OPFS files and localStorage; each holds its own copy of the registry    *)
(* and of the session.  In a tab two connects may be under way: the one    *)
(* boot starts and the one the user starts.                                *)
(***************************************************************************)
EXTENDS Naturals, FiniteSets

CONSTANTS
  Pages,      \* the tabs of the browser
  Inboxes,
  Keyfiles,   \* inboxes that exist already and come back from a keyfile
  MaxPageFaults, \* bound: failed calls, closed or crashed pages
  MaxActs,       \* bound: what the user asks for
  NoInbox        \* no inbox

\* There is something that is no inbox, and a keyfile is that of one.
ASSUME LifecycleAssumption ==
  /\ NoInbox \notin Inboxes /\ Keyfiles \subseteq Inboxes
  /\ MaxPageFaults \in Nat /\ MaxActs \in Nat

VARIABLES
  key,      \* the identity row: none, draft (no ids), staged (ids) or ready
  file,     \* the OPFS database: none, blank or registered
  entries,  \* converge.inboxRegistry.v1
  current,  \* converge.currentInbox.v1
  force,    \* converge.forceInboxId.v1
  network,  \* inboxes that exist on the XMTP network
  page, pageFaults, acts

VARIABLES    \* history
  ours,      \* inboxes this browser published
  gone,      \* burned, or cleared with everything
  discarded, \* attempts a create removed that had moved on, or were being connected
  late       \* touched again by another flow after a burn had removed it

browser == <<key, file, entries, current, force>>
history == <<ours, gone, discarded, late>>
lifecycleVars ==
  <<key, file, entries, current, force, network, page, pageFaults, acts, ours, gone,
    discarded, late>>

\* A connect; ids: the identity it is for had its ids when it was read.
Idle == [at |-> "none", inbox |-> NoInbox, ids |-> FALSE]
StartRun(i, ids) == [at |-> "connect", inbox |-> i, ids |-> ids]
NewPage == [entries |-> {}, current |-> NoInbox, hydrated |-> FALSE, session |-> NoInbox,
            authed |-> FALSE, client |-> NoInbox, boot |-> Idle, user |-> Idle,
            op |-> "none", noted |-> {}, prev |-> NoInbox]

LifecycleInit ==
  /\ key = [i \in Inboxes |-> "none"] /\ file = [i \in Inboxes |-> "none"]
  /\ entries = {} /\ current = NoInbox /\ force = NoInbox
  /\ network = Keyfiles /\ pageFaults = 0 /\ acts = 0
  /\ page = [t \in Pages |-> NewPage]
  /\ ours = {} /\ gone = {} /\ discarded = {} /\ late = {}
-----------------------------------------------------------------------------
Slots == {"boot", "user"}
PageFault == pageFaults < MaxPageFaults /\ pageFaults' = pageFaults + 1
Act == acts < MaxActs /\ acts' = acts + 1
Stored == {i \in Inboxes : key[i] # "none"}
Named == {i \in Inboxes : key[i] \in {"staged", "ready"}}
IsOpen(i) == \E t \in Pages : page[t].client = i
UnderWay(i) == \E t \in Pages, s \in Slots : page[t][s].inbox = i /\ page[t][s].at # "none"
BeingForgotten(i) == \E t \in Pages : page[t].op \in {"forgetting", "forgotten"} /\ page[t].session = i
Connecting(t) == \E s \in Slots : page[t][s].at \in {"stage", "publish"}
Becomes(t, record) == page' = [page EXCEPT ![t] = record]
ReloadPage(t) == Becomes(t, NewPage)

\* The storage driver of the page is replaced: a profile it was about to store
\* cannot be stored any more.
Drained(run) == IF run.at = "profile" THEN [run EXCEPT !.at = "mark"] ELSE run

\* The registry of a page: upsertEntry, removeEntry, and the entries updateEntry writes.
Upserted(t, i) == page[t].entries \cup {i}
Removed(t, i) == page[t].entries \ {i}
Updated(t, i) == IF i \in page[t].entries THEN page[t].entries ELSE entries

\* clearInboxBrowserState
HintWithout(i) == IF force = i THEN NoInbox ELSE force

\* reloadIntoInbox
ReloadInto(t, i) == current' = i /\ force' = i /\ ReloadPage(t)

\* The user closes or reloads the tab, or the page crashes.
Leave(t) ==
  /\ page[t] # NewPage /\ PageFault /\ ReloadPage(t)
  /\ UNCHANGED <<browser, network, acts, history>>
-----------------------------------------------------------------------------
(* checkExistingIdentity *)

\* The registry's entries are searched only by a page that had read them before.
Selected(t, chosen) ==
  IF Stored = {} THEN {}
  ELSE IF chosen = NoInbox THEN Stored
  ELSE IF chosen \in Named THEN {chosen}
  ELSE IF page[t].hydrated THEN page[t].entries \cap Named
  ELSE {}

\* A completed inbox is shown before it is connected.
BootInto(t, i, opened) ==
  LET selected == IF opened.current = NoInbox THEN NoInbox ELSE i
  IN /\ Becomes(t, [opened EXCEPT !.current = selected, !.session = i,
                      !.authed = (key[i] = "ready"), !.boot = StartRun(i, i \in Named)])
     /\ current' = selected

\* The hint left by a switch is consumed by whichever tab boots first.
Boot(t) ==
  LET chosen == IF force # NoInbox THEN force ELSE current
      opened == [page[t] EXCEPT !.entries = entries, !.current = chosen, !.hydrated = TRUE]
  IN /\ ~page[t].hydrated /\ force' = NoInbox
     /\ \/ \E i \in Selected(t, chosen) : BootInto(t, i, opened)
        \/ Selected(t, chosen) = {} /\ Becomes(t, opened) /\ current' = chosen
     /\ UNCHANGED <<key, file, entries, network, pageFaults, acts, history>>

\* handleOpenLocalInbox, from the list of onboarding; the page reloads afterwards.
OpenLocal(t) == \E i \in page[t].entries :
  LET opened == [page[t] EXCEPT !.current = i]
  IN /\ page[t].hydrated /\ ~page[t].authed /\ page[t].op = "none" /\ page[t].boot = Idle /\ Act
     /\ \/ \E j \in Selected(t, i) : BootInto(t, j, [opened EXCEPT !.op = "opening"])
        \/ Selected(t, i) = {} /\ Becomes(t, opened) /\ current' = i
     /\ UNCHANGED <<key, file, entries, force, network, pageFaults, history>>
-----------------------------------------------------------------------------
(* connectXmtpSafely: the lifecycle queue of a tab runs one connect at a time *)

\* The lock and the file: a client of another inbox is closed first.
ConnectInbox(t, s) ==
  LET run == page[t][s]  i == run.inbox
  IN /\ run.at = "connect" /\ ~Connecting(t)
     /\ ~\E u \in Pages \ {t} : page[u].client = i
     /\ Becomes(t, [page[t] EXCEPT !.client = i, ![s].at = "stage"])
     /\ file' = [file EXCEPT ![i] = IF @ = "none" THEN "blank" ELSE @]
     /\ late' = IF i \in gone \/ BeingForgotten(i) THEN late \cup {i} ELSE late
     /\ UNCHANGED <<key, entries, current, force, network, pageFaults, acts, ours, gone, discarded>>

\* Mutant: the ids are kept until the connect is complete.
StageInMemory(t, s) ==
  /\ page[t][s].at = "stage"
  /\ key[page[t][s].inbox] = "ready" => file[page[t][s].inbox] = "registered"
  /\ Becomes(t, [page[t] EXCEPT ![s].at = "publish"])
  /\ UNCHANGED <<browser, network, pageFaults, acts, history>>

\* onInstallationReady: the ids are stored before anything is published, unless
\* the row has gone.  A blank file of a completed inbox is not adopted.
Stage(t, s) ==
  LET i == page[t][s].inbox
  IN /\ page[t][s].at = "stage"
     /\ key[i] = "ready" => file[i] = "registered"
     /\ key' = [key EXCEPT ![i] = IF @ = "draft" THEN "staged" ELSE @]
     /\ LET opened == IF s = "user" THEN [page[t] EXCEPT !.boot = Drained(@)] ELSE page[t]
        IN Becomes(t, [opened EXCEPT ![s].at = "publish"])
     /\ UNCHANGED <<file, entries, current, force, network, pageFaults, acts, history>>

PublishInbox(t, s) ==
  LET i == page[t][s].inbox
  IN /\ page[t][s].at = "publish"
     /\ file' = [file EXCEPT ![i] = "registered"]
     /\ network' = network \cup {i}
     /\ ours' = IF i \in network THEN ours ELSE ours \cup {i}
     /\ Becomes(t, [page[t] EXCEPT ![s].at = "save"])
     /\ UNCHANGED <<key, entries, current, force, pageFaults, acts, gone, discarded, late>>

\* The completed identity, the registry entry and the namespace; nothing of it
\* when the row has gone.
Save(t, s) ==
  LET i == page[t][s].inbox
  IN /\ page[t][s].at = "save"
     /\ \/ /\ key[i] # "none" /\ key' = [key EXCEPT ![i] = "ready"]
           /\ entries' = Upserted(t, i) /\ current' = i
           /\ Becomes(t, [page[t] EXCEPT ![s].at = "profile", !.session = i,
                            !.entries = Upserted(t, i), !.current = i])
        \/ /\ key[i] = "none" /\ UNCHANGED <<key, entries, current>>
           /\ Becomes(t, [page[t] EXCEPT ![s].at = "mark"])
     /\ UNCHANGED <<file, force, network, pageFaults, acts, history>>

\* loadOwnProfile has answered: the identity read before the call is stored again.
Profile(t, s) ==
  LET i == page[t][s].inbox
  IN /\ page[t][s].at = "profile"
     /\ \/ /\ key' = [key EXCEPT ![i] = "ready"]
           /\ Becomes(t, [page[t] EXCEPT ![s].at = "mark", !.session = i])
           /\ late' = IF key[i] = "none" THEN late \cup {i} ELSE late
        \/ Becomes(t, [page[t] EXCEPT ![s].at = "mark"]) /\ UNCHANGED <<key, late>>
     /\ UNCHANGED <<file, entries, current, force, network, pageFaults, acts, ours, gone,
                    discarded>>

\* A connect throws: the database is in use, the file is not the installation
\* on record, or a call fails; what was stored stays.
ConnectFails(t, s) ==
  LET run == page[t][s]  i == run.inbox
  IN /\ \/ run.at = "connect" /\ ~Connecting(t) /\ UNCHANGED pageFaults
           /\ \E u \in Pages \ {t} : page[u].client = i
        \/ run.at = "stage" /\ key[i] = "ready" /\ file[i] # "registered" /\ UNCHANGED pageFaults
        \/ run.at \in {"stage", "publish"} /\ PageFault
     /\ Becomes(t, [page[t] EXCEPT
          ![s] = IF s = "user" THEN [@ EXCEPT !.at = "failed"]
                 ELSE IF page[t].authed THEN [@ EXCEPT !.at = "mark"] ELSE Idle,
          !.op = IF s = "boot" /\ @ = "opening" /\ ~page[t].authed THEN "none" ELSE @,
          !.client = IF run.at = "connect" THEN @ ELSE NoInbox])
     /\ UNCHANGED <<browser, network, acts, history>>

\* Boot is over: registry.markOpened refreshes the entry if this page knows it,
\* and sets the current inbox in any case.
Mark(t) ==
  LET run == page[t].boot  i == run.inbox
      opened == [page[t] EXCEPT !.boot = Idle,
                   !.authed = @ \/ (page[t].session = i /\ key[i] = "ready"),
                   !.current = IF run.ids THEN i ELSE @]
  IN /\ run.at = "mark"
     /\ current' = IF run.ids THEN i ELSE current
     /\ entries' = IF run.ids THEN Updated(t, i) ELSE entries
     /\ IF page[t].op = "opening" THEN ReloadPage(t) ELSE Becomes(t, opened)
     /\ UNCHANGED <<key, file, force, network, pageFaults, acts, history>>
-----------------------------------------------------------------------------
(* createIdentity: a new inbox, or one from a keyfile *)

\* The user may start one thing at a time; onboarding waits for boot.
Free(t) ==
  /\ page[t].hydrated /\ page[t].op = "none" /\ page[t].user = Idle
  /\ page[t].authed \/ page[t].boot = Idle
  /\ Act

\* A key generated just now is in nobody's hands.
Generated(i) ==
  /\ key[i] = "none" /\ i \notin network
  /\ \A u \in Pages :
       i \notin {page[u].session, page[u].prev, page[u].boot.inbox, page[u].user.inbox}

\* planPendingNewInboxAttempts: attempts without ids are dropped, one with ids
\* is resumed, as it was read, before a new key is used.
Attempts(t) ==
  {i \in Stored \ Keyfiles : key[i] # "ready" /\ ~(page[t].authed /\ page[t].session = i)}
Planned(i) == [Idle EXCEPT !.inbox = i, !.ids = key[i] = "staged"]
PlanCreate(t) ==
  LET resumable == {i \in Attempts(t) : key[i] = "staged"}
      fresh == {i \in Inboxes \ Keyfiles : Generated(i)}
  IN /\ Free(t)
     /\ \E i \in IF resumable # {} THEN resumable ELSE fresh :
          Becomes(t, [page[t] EXCEPT !.op = "creating", !.user = Planned(i),
                        !.noted = {j \in Attempts(t) : key[j] = "draft"}])
     /\ UNCHANGED <<browser, network, pageFaults, history>>

\* handleImportKeyfile: isInboxLoadedLocally goes by the registry, then by the rows.
PlanRestore(t) == \E i \in Keyfiles :
  /\ Free(t) /\ i \notin page[t].entries /\ key[i] # "ready"
  /\ Becomes(t, [page[t] EXCEPT !.op = "creating", !.user = Planned(i)])
  /\ UNCHANGED <<browser, network, pageFaults, history>>

\* The dropped rows are deleted by address, whatever they have become, and the
\* row of the attempt is written as it was planned.
StoreDraft(t) ==
  LET i == page[t].user.inbox  dropped == page[t].noted \ {i}
      planned == IF page[t].user.ids THEN "staged" ELSE "draft"
  IN /\ page[t].op = "creating" /\ page[t].user.at = "none"
     /\ key' = [j \in Inboxes |-> IF j \in dropped THEN "none"
                                   ELSE IF j = i THEN planned ELSE key[j]]
     /\ discarded' = discarded \cup
          {j \in dropped : key[j] # "none" /\ (key[j] # "draft" \/ UnderWay(j))}
     /\ gone' = gone \ {i}
     /\ late' = IF BeingForgotten(i) THEN late \cup {i} ELSE late \ {i}
     /\ Becomes(t, [page[t] EXCEPT !.user = StartRun(i, FALSE), !.noted = {}, !.session = i,
                      !.prev = IF page[t].authed THEN page[t].session ELSE NoInbox])
     /\ UNCHANGED <<file, entries, current, force, network, pageFaults, acts, ours>>

\* The switcher reloads into the inbox of the session; onboarding shows it.
Created(t) ==
  /\ page[t].op = "creating" /\ page[t].user.at = "mark"
  /\ \/ page[t].prev # NoInbox /\ ReloadInto(t, page[t].session)
     \/ /\ page[t].prev = NoInbox /\ UNCHANGED <<current, force>>
        /\ Becomes(t, [page[t] EXCEPT !.op = "none", !.user = Idle, !.authed = TRUE])
  /\ UNCHANGED <<key, file, entries, network, pageFaults, acts, history>>

\* The previous session is put back and connected again.
CreateFailed(t) ==
  LET back == [page[t] EXCEPT !.session = page[t].prev, !.prev = NoInbox]
  IN /\ page[t].op = "creating" /\ page[t].user.at = "failed"
     /\ Becomes(t, IF page[t].prev = NoInbox THEN [page[t] EXCEPT !.op = "none", !.user = Idle]
                   ELSE [back EXCEPT !.op = "returning", !.user = StartRun(page[t].prev, FALSE)])
     /\ UNCHANGED <<browser, network, pageFaults, acts, history>>

Returned(t) ==
  /\ page[t].op = "returning" /\ page[t].user.at \in {"mark", "failed"}
  /\ Becomes(t, [page[t] EXCEPT !.op = "none", !.user = Idle])
  /\ UNCHANGED <<browser, network, pageFaults, acts, history>>

\* handleSwitch: disconnect waits for the connect in progress.
Switch(t) == \E i \in page[t].entries :
  /\ Free(t) /\ page[t].authed /\ ~Connecting(t) /\ i # page[t].current
  /\ ReloadInto(t, i)
  /\ UNCHANGED <<key, file, entries, network, pageFaults, history>>
-----------------------------------------------------------------------------
(* burnInboxWithDependencies, for the inbox of the session *)

\* The other inboxes are those of the registry and, should it be damaged, of the
\* rows.  Only a connected inbox is disconnected.
BurnBegin(t) ==
  LET i == page[t].session  connected == page[t].client = i /\ ~Connecting(t)
  IN /\ Free(t) /\ page[t].authed
     /\ Becomes(t, [page[t] EXCEPT !.noted = (@ \cup page[t].entries \cup Named) \ {i},
                      !.op = IF connected THEN "revoking" ELSE "clearing"])
     /\ UNCHANGED <<browser, network, pageFaults, history>>

\* Neither the revocation nor the disconnect has to succeed.
BurnDisconnect(t) ==
  LET i == page[t].session
  IN /\ page[t].op = "revoking" /\ ~Connecting(t)
     /\ \/ page[t].client = i /\ file' = [file EXCEPT ![i] = "blank"]
        \/ UNCHANGED file
     /\ \/ Becomes(t, [page[t] EXCEPT !.op = "clearing", !.client = NoInbox]) /\ UNCHANGED pageFaults
        \/ Becomes(t, [page[t] EXCEPT !.op = "clearing"]) /\ PageFault
     /\ UNCHANGED <<key, entries, current, force, network, acts, history>>

\* Mutant: the warning about the files is ignored.
BurnClearUnchecked(t) ==
  LET i == page[t].session
  IN /\ page[t].op = "clearing"
     /\ file' = [file EXCEPT ![i] = IF IsOpen(i) THEN @ ELSE "none"]
     /\ Becomes(t, [page[t] EXCEPT !.op = "forgetting"])
     /\ UNCHANGED <<key, entries, current, force, network, pageFaults, acts, history>>

\* clearAllData: a file some tab has open cannot be removed.
BurnClear(t) ==
  LET i == page[t].session
  IN /\ page[t].op = "clearing" /\ ~IsOpen(i)
     /\ file' = [file EXCEPT ![i] = "none"]
     /\ Becomes(t, [page[t] EXCEPT !.op = "forgetting"])
     /\ UNCHANGED <<key, entries, current, force, network, pageFaults, acts, history>>

\* The key, the switch hint, the registry entry; the next inbox becomes current.
BurnForget(t) ==
  LET i == page[t].session  left == Removed(t, i)
  IN /\ page[t].op = "forgetting"
     /\ key' = [key EXCEPT ![i] = "none"]
     /\ entries' = left /\ force' = HintWithout(i)
     /\ \E next \in IF page[t].noted = {} THEN {NoInbox} ELSE page[t].noted :
          /\ current' = next
          /\ Becomes(t, [page[t] EXCEPT !.op = "forgotten", !.entries = left, !.current = next])
     /\ gone' = gone \cup {i}
     /\ UNCHANGED <<file, network, pageFaults, acts, ours, discarded, late>>

\* The wipe did not finish: it is reported, and the inbox stays loaded.
BurnBlocked(t) ==
  LET i == page[t].session
  IN /\ \/ page[t].op = "clearing" /\ IsOpen(i) /\ UNCHANGED <<file, pageFaults>>
        \/ /\ page[t].op = "clearing" /\ ~IsOpen(i) /\ PageFault
           /\ file' \in {file, [file EXCEPT ![i] = "none"]}
        \/ page[t].op = "forgetting" /\ PageFault /\ UNCHANGED file
     /\ Becomes(t, [page[t] EXCEPT !.op = "none", !.noted = {}])
     /\ UNCHANGED <<key, entries, current, force, network, acts, history>>

\* The storage is closed, the wipe is reported and the page leaves.
BurnFinish(t) ==
  /\ page[t].op = "forgotten" /\ ReloadPage(t)
  /\ UNCHANGED <<browser, network, pageFaults, acts, history>>
-----------------------------------------------------------------------------
(* clearAllBrowserData: every step has a deadline and none has to succeed *)

ClearDatabases(t) ==
  /\ page[t].hydrated /\ page[t].op = "none" /\ Act
  /\ Becomes(t, [page[t] EXCEPT !.op = "wiping", !.client = NoInbox, !.boot = Idle, !.user = Idle])
  /\ key' = [i \in Inboxes |-> "none"]
  /\ file' = [i \in Inboxes |-> IF \E u \in Pages \ {t} : page[u].client = i THEN file[i] ELSE "none"]
  /\ gone' = Inboxes
  /\ UNCHANGED <<entries, current, force, network, pageFaults, ours, discarded, late>>

ClearWebStorage(t) ==
  /\ page[t].op = "wiping" /\ ReloadPage(t)
  /\ entries' = {} /\ current' = NoInbox /\ force' = NoInbox
  /\ UNCHANGED <<key, file, network, pageFaults, acts, history>>
-----------------------------------------------------------------------------
PageStep(t) ==
  \/ Leave(t) \/ Boot(t) \/ OpenLocal(t) \/ Mark(t)
  \/ PlanCreate(t) \/ PlanRestore(t) \/ StoreDraft(t) \/ Created(t) \/ CreateFailed(t) \/ Returned(t)
  \/ Switch(t)
  \/ BurnBegin(t) \/ BurnDisconnect(t) \/ BurnClear(t) \/ BurnForget(t) \/ BurnBlocked(t) \/ BurnFinish(t)
  \/ ClearDatabases(t) \/ ClearWebStorage(t)
ConnectStep(t, s) ==
  \/ ConnectInbox(t, s) \/ Stage(t, s) \/ PublishInbox(t, s)
  \/ Save(t, s) \/ Profile(t, s) \/ ConnectFails(t, s)
LifecycleNext == \E t \in Pages : PageStep(t) \/ \E s \in Slots : ConnectStep(t, s)
LifecycleSpec == LifecycleInit /\ [][LifecycleNext]_lifecycleVars
-----------------------------------------------------------------------------
Runs == [at : {"none", "connect", "stage", "publish", "save", "profile", "mark", "failed"},
         inbox : Inboxes \cup {NoInbox}, ids : BOOLEAN]

\* Every variable ranges over its values, and no two tabs have one inbox's
\* database open: the lock of the inbox.
LifecycleTypeOK ==
  /\ key \in [Inboxes -> {"none", "draft", "staged", "ready"}]
  /\ file \in [Inboxes -> {"none", "blank", "registered"}]
  /\ entries \subseteq Inboxes /\ {current, force} \subseteq Inboxes \cup {NoInbox}
  /\ network \subseteq Inboxes /\ pageFaults \in 0..MaxPageFaults /\ acts \in 0..MaxActs
  /\ ours \cup gone \cup discarded \cup late \subseteq Inboxes
  /\ \A t \in Pages :
       /\ page[t].entries \cup page[t].noted \subseteq Inboxes
       /\ {page[t].current, page[t].session, page[t].client, page[t].prev} \subseteq Inboxes \cup {NoInbox}
       /\ page[t].boot \in Runs /\ page[t].user \in Runs
  /\ \A t, u \in Pages : t # u /\ page[t].client # NoInbox => page[t].client # page[u].client

\* An inbox this browser has put on the network can be reached again: its key is
\* stored, whatever crashed, failed or ran in two tabs, until the user burns it.
\* (A draft that one tab drops while another connects it is left out: see the README.)
NoInboxIsStranded == \A i \in ours \ (gone \cup discarded) : key[i] # "none"

\* A burn that reports success has left neither the key nor the database, unless
\* another flow has brought the inbox back meanwhile; one that reports that it
\* could not finish has kept the key, so that it can be tried again.
BurnStep == \A t \in Pages : LET i == page[t].session IN
  /\ BurnFinish(t) => i \in late \/ (key'[i] = "none" /\ file'[i] = "none")
  /\ BurnBlocked(t) => i \in gone \cup discarded \/ key'[i] # "none"
BurnReportsTruth == [][BurnStep]_lifecycleVars
=============================================================================
