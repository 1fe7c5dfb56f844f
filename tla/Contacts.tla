------------------------------- MODULE Contacts -------------------------------
(***************************************************************************)
(* The address book of one inbox (src/src/lib/stores/contact-store.ts) and *)
(* the pages and client calls that write it.                               *)
(*                                                                         *)
(* One person: p is the inbox id, a the Ethereum address of the same       *)
(* person, under which older versions kept the contact.  A call sets the   *)
(* store on screen and issues its IndexedDB write in one turn of the event *)
(* loop, and writes reach IndexedDB in the order they are issued, so the   *)
(* two are one step; what follows an await is a step of its own.           *)
(***************************************************************************)
EXTENDS Naturals, Sequences

CONSTANTS
  p, a,        \* the person's inbox id, and the address
  Calls,       \* slots for the calls under way
  MaxStarts,   \* bound: calls started
  MaxFaults,   \* bound: failed writes and closed pages
  None

VARIABLES
  rows,      \* IndexedDB, contacts: key -> row, or None
  screen,    \* useContactStore, contacts: a sequence of entries
  loaded,    \* a loadContacts has completed on this page
  call,      \* slot -> the call under way, or None
  peer,      \* the key the person's conversation has for them
  starts, faults

VARIABLES    \* history
  blocked,   \* the person's last decision is a block that succeeded
  crossed,   \* a block was under way while the opposite was asked for
  met,       \* a call that moves the address to the inbox id met that id's row or entry
  overtaken, \* a write landed after a load had read the rows, or in two parts around it
  rewritten, \* that load also wrote its older row back
  early,     \* a stored contact was entered anew before a load had completed on the page
  doubled,   \* an entry was appended beside another of the same contact
  failed     \* a write failed

book == <<rows, screen, loaded>>
history == <<blocked, crossed, met, overtaken, rewritten, early, doubled, failed>>
written == <<rows, screen, faults, failed, overtaken, early, doubled>>
vars == <<book, call, peer, starts, faults, history>>

\* deriveInboxId: a record without an inbox id is kept under its address.
Keys == {p, a}

\* raw: as an older version wrote it.  known: the row lists the address.
Row(b, known, raw) == [blocked |-> b, known |-> known, raw |-> raw]
Entry(k, b, known) == [key |-> k, blocked |-> b, known |-> known]
Stored(e) == Row(e.blocked, e.known, FALSE)

EntriesOf(list, k) == {n \in DOMAIN list : list[n].key = k}
Shown(k) == EntriesOf(screen, k) # {}
First(ns) == CHOOSE n \in ns : \A m \in ns : n <= m
Find(k) == IF Shown(k) THEN screen[First(EntriesOf(screen, k))] ELSE None
Without(list, k) == SelectSeq(list, LAMBDA e : e.key # k)

\* The first entry of the key gives way; without one the entry is appended.
Place(list, e) ==
  IF EntriesOf(list, e.key) = {} THEN Append(list, e)
  ELSE [list EXCEPT ![First(EntriesOf(list, e.key))] = e]

\* listContacts returns the rows in the order of their keys.
Listed(table) ==
  SelectSeq(<<a, p>>, LAMBDA k : table[k] # None)
AsEntries(table) ==
  [n \in DOMAIN Listed(table) |-> Entry(Listed(table)[n], table[Listed(table)[n]].blocked,
                                        table[Listed(table)[n]].known)]

AtRest == \A c \in Calls : call[c] = None
Moving == \E c \in Calls : call[c] # None /\ call[c].at \in {"delete", "put"}
Loading == \E c \in Calls : call[c] # None /\ call[c].name = "load" /\ call[c].at # "read"

Init ==
  /\ rows \in [Keys -> {None} \cup {Row(b, known, raw) : b, known, raw \in BOOLEAN}]
  /\ rows[a] # None => rows[a].known /\ ~rows[a].blocked
  /\ screen = <<>> /\ loaded = FALSE
  /\ call = [c \in Calls |-> None] /\ peer \in Keys /\ starts = 0 /\ faults = 0
  /\ blocked = (rows[p] # None /\ rows[p].blocked)
  /\ crossed = FALSE /\ met = FALSE /\ overtaken = FALSE /\ rewritten = FALSE
  /\ early = FALSE /\ doubled = FALSE /\ failed = FALSE
-----------------------------------------------------------------------------
(* Calls and writes *)

Named(name, at, key) == [name |-> name, at |-> at, key |-> key, create |-> FALSE, known |-> FALSE,
                         held |-> None, list |-> [k \in Keys |-> None]]

Start(c, op) ==
  /\ call[c] = None /\ starts < MaxStarts
  /\ call' = [call EXCEPT ![c] = op] /\ starts' = starts + 1

At(c, name, at) == call[c] # None /\ call[c].name = name /\ call[c].at = at
Go(c, at) == call' = [call EXCEPT ![c].at = at]
Return(c) == call' = [call EXCEPT ![c] = None]

Created(list, k) == Len(SelectSeq(list, LAMBDA e : e.key = k)) > Len(SelectSeq(screen, LAMBDA e : e.key = k))

\* The screen's list becomes `list` and IndexedDB `table`; the write may fail.
Write(list, table) ==
  /\ screen' = list
  /\ \/ rows' = table /\ UNCHANGED <<faults, failed>>
     \/ faults < MaxFaults /\ faults' = faults + 1 /\ failed' = TRUE /\ UNCHANGED rows
  /\ overtaken' = (overtaken \/ Loading)
  /\ early' = (early \/ (~loaded /\ \E k \in Keys : Created(list, k) /\ ~Shown(k) /\ rows[k] # None))
  /\ doubled' = (doubled \/ \E k \in Keys : Created(list, k) /\ Shown(k))

\* Looking a person up by address: found, or not (unknown, rate limited,
\* offline: the errors are caught and answered with null).
Resolves == {p, None}
-----------------------------------------------------------------------------
(* loadContacts, which every page that lists contacts calls when it opens *)

Load(c) == Start(c, Named("load", "read", None)) /\ UNCHANGED <<book, peer, faults, history>>

ReadRows(c) ==
  /\ At(c, "load", "read")
  /\ call' = [call EXCEPT ![c].list = rows, ![c].at = "normalise"]
  /\ overtaken' = (overtaken \/ Moving)
  /\ UNCHANGED <<book, peer, starts, faults, blocked, crossed, met, rewritten, early, doubled, failed>>

\* Rows in an older form are written back normalised, from the list read.
Normalise(c) ==
  /\ At(c, "load", "normalise")
  /\ LET list == call[c].list
         old == {k \in Keys : list[k] # None /\ list[k].raw}
     IN \/ /\ rows' = [k \in Keys |-> IF k \in old THEN [list[k] EXCEPT !.raw = FALSE] ELSE rows[k]]
           /\ rewritten' = (rewritten \/ \E k \in old : rows[k] # list[k])
           /\ overtaken' = (overtaken \/ \E d \in Calls \ {c} : call[d] # None /\ call[d].name = "load" /\ old # {})
           /\ Go(c, "show") /\ UNCHANGED <<faults, failed>>
        \/ /\ old # {} /\ faults < MaxFaults /\ faults' = faults + 1 /\ failed' = TRUE
           /\ Return(c) /\ UNCHANGED <<rows, rewritten, overtaken>>
  /\ UNCHANGED <<screen, loaded, peer, starts, blocked, crossed, met, early, doubled>>

ShowRows(c) ==
  /\ At(c, "load", "show")
  /\ screen' = AsEntries(call[c].list) /\ loaded' = TRUE
  /\ Return(c) /\ UNCHANGED <<rows, peer, starts, faults, history>>
-----------------------------------------------------------------------------
(* Block and unblock, from the conversation's menu *)

Opposes(name) == \E c \in Calls : call[c] # None /\ call[c].name = name

\* The menu offers one or the other, after the entry under the peer's key.
Block(c) ==
  /\ ~(Shown(peer) /\ Find(peer).blocked)
  /\ Start(c, Named("block", "consent", peer))
  /\ crossed' = (crossed \/ Opposes("unblock") \/ Opposes("remove"))
  /\ UNCHANGED <<book, peer, faults, blocked, met, overtaken, rewritten, early, doubled, failed>>

Unblock(c) ==
  /\ Shown(peer) /\ Find(peer).blocked
  /\ Start(c, Named("unblock", "consent", peer))
  /\ blocked' = FALSE /\ crossed' = (crossed \/ Opposes("block"))
  /\ UNCHANGED <<book, peer, faults, met, overtaken, rewritten, early, doubled, failed>>

\* updateConversationConsentState comes first; when it fails nothing else is done.
Consent(c) ==
  /\ call[c] # None /\ call[c].at = "consent"
  /\ Go(c, IF call[c].name = "block" /\ call[c].key = a THEN "resolve" ELSE "look") \/ Return(c)
  /\ UNCHANGED <<book, peer, starts, faults, history>>

\* blockContact of an address that is not resolved returns as if it had blocked.
ResolveBlock(c) ==
  /\ At(c, "block", "resolve")
  /\ \E found \in Resolves :
       IF found = p THEN call' = [call EXCEPT ![c].key = p, ![c].at = "look"] ELSE Return(c)
  /\ UNCHANGED <<book, peer, starts, faults, history>>

\* Whether the entry exists is decided before getStorage() is awaited.
LookForEntry(c) ==
  /\ call[c] # None /\ call[c].name \in {"block", "unblock"} /\ call[c].at = "look"
  /\ IF Shown(call[c].key) THEN Go(c, "update")
     ELSE IF call[c].name = "block" THEN Go(c, "append") ELSE Return(c)
  /\ UNCHANGED <<book, peer, starts, faults, history>>

\* updateContact changes every entry of the key, and writes the first.
UpdateEntries(c) ==
  /\ call[c] # None /\ call[c].at = "update"
  /\ LET k == call[c].key
         marked == [n \in DOMAIN screen |-> IF screen[n].key = k
                                            THEN [screen[n] EXCEPT !.blocked = (call[c].name = "block")] ELSE screen[n]]
     IN /\ IF Shown(k) THEN Write(marked, [rows EXCEPT ![k] = Stored(marked[First(EntriesOf(marked, k))])])
           ELSE UNCHANGED written
        /\ blocked' = (blocked \/ (call[c].name = "block" /\ k = p /\ Shown(k) /\ rows'[p] # None /\ rows'[p].blocked))
  /\ Return(c) /\ UNCHANGED <<loaded, peer, starts, crossed, met, rewritten>>

AppendBlocked(c) ==
  /\ At(c, "block", "append")
  /\ Write(Append(screen, Entry(call[c].key, TRUE, FALSE)), [rows EXCEPT ![call[c].key] = Row(TRUE, FALSE, FALSE)])
  /\ blocked' = (blocked \/ (call[c].key = p /\ rows'[p] # None /\ rows'[p].blocked))
  /\ Return(c) /\ UNCHANGED <<loaded, peer, starts, crossed, met, rewritten>>
-----------------------------------------------------------------------------
(* removeContact and addContact *)

Remove(c) ==
  /\ \E k \in Keys :
       /\ Shown(k) /\ Start(c, Named("remove", "remove", k))
       /\ blocked' = (blocked /\ k = a)
  /\ crossed' = (crossed \/ Opposes("block"))
  /\ UNCHANGED <<book, peer, faults, met, overtaken, rewritten, early, doubled, failed>>

Removed(c) ==
  /\ call[c] # None /\ call[c].at = "remove"
  /\ Write(Without(screen, call[c].key), [rows EXCEPT ![call[c].key] = None])
  /\ IF call[c].name = "remove" THEN Return(c) ELSE Go(c, "merge")
  /\ UNCHANGED <<loaded, peer, starts, blocked, crossed, met, rewritten>>

Add(c) ==
  /\ Start(c, Named("add", "add", p))
  /\ UNCHANGED <<book, peer, faults, history>>

Added(c) ==
  /\ At(c, "add", "add")
  /\ \E known \in BOOLEAN :
       IF Shown(p) THEN UNCHANGED written
       ELSE Write(Append(screen, Entry(p, FALSE, known)), [rows EXCEPT ![p] = Row(FALSE, known, FALSE)])
  /\ Return(c) /\ UNCHANGED <<loaded, peer, starts, blocked, crossed, met, rewritten>>
-----------------------------------------------------------------------------
(* upsertContactProfile: a published profile, or a message sent to a new   *)
(* peer, which alone may create the contact                                *)

Merging(k, create, known) == [Named("profile", "merge", k) EXCEPT !.create = create, !.known = known]

\* A profile message names its sender's inbox, and no addresses.
ProfileMessage(c) == Start(c, Merging(p, FALSE, FALSE)) /\ UNCHANGED <<book, peer, faults, history>>

\* What is known without the network: the entry's own addresses.
LocalProfile(k) == Shown(k) /\ Find(k).known

\* fetchInboxProfile: the local addresses, or, when there are none, those of
\* the inbox's state if it can be fetched.
RefreshProfile(c) ==
  /\ \E known \in {LocalProfile(p), TRUE} : Start(c, Merging(p, FALSE, known))
  /\ UNCHANGED <<book, peer, faults, history>>

\* A message to a peer without an entry; an address must be resolved first.
EnsureContact(c) ==
  /\ ~Shown(peer)
  /\ \E known \in {LocalProfile(p), TRUE} : Start(c, Merging(p, TRUE, known))
  /\ UNCHANGED <<book, peer, faults, history>>

\* A new conversation with the person.
NewConversation(c) ==
  /\ \E known \in BOOLEAN : Start(c, Merging(p, TRUE, known))
  /\ UNCHANGED <<book, peer, faults, history>>

\* "Add to contacts" in the conversation's menu, for a peer without an entry.
AddPeer(c) ==
  /\ ~Shown(peer)
  /\ Start(c, Merging(peer, TRUE, FALSE))
  /\ UNCHANGED <<book, peer, faults, history>>

\* Mutant: only by address.
ExistingByAddress(k, known) ==
  LET sharing == {n \in DOMAIN screen : known /\ screen[n].known}
  IN IF sharing = {} THEN None ELSE screen[First(sharing)]

\* By inbox id, then by a shared address.
Existing(k, known) ==
  LET sharing == {n \in DOMAIN screen : known /\ screen[n].known}
  IN IF Shown(k) THEN Find(k) ELSE IF sharing = {} THEN None ELSE screen[First(sharing)]

\* The entry under p is updated in place; one under the address moves to p,
\* over whatever p has by then: its row is deleted first, p's written after.
Merge(c, existing) ==
  LET entry == Entry(p, existing # None /\ existing.blocked,
                     call[c].known \/ (existing # None /\ existing.known))
  IN CASE existing = None /\ ~call[c].create -> Return(c) /\ UNCHANGED <<written, met>>
       [] existing # None /\ existing.key = a ->
            /\ screen' = Place(Without(screen, a), entry) /\ met' = (met \/ rows[p] # None)
            /\ overtaken' = (overtaken \/ Loading)
            /\ call' = [call EXCEPT ![c].held = entry, ![c].at = "delete"]
            /\ UNCHANGED <<rows, faults, failed, early, doubled>>
       [] OTHER ->
            /\ Write(Place(screen, entry), [rows EXCEPT ![p] = Stored(entry)]) /\ Return(c)
            /\ met' = (met \/ (call[c].at = "resolve" /\ rows[p] # None))

MergeProfile(c) ==
  /\ call[c] # None /\ call[c].at = "merge"
  /\ LET existing == Existing(call[c].key, call[c].known)
     IN IF call[c].key = p \/ (existing # None /\ existing.key = p) THEN Merge(c, existing)
        ELSE /\ call' = [call EXCEPT ![c].held = existing, ![c].at = "resolve"]
             /\ UNCHANGED <<written, met>>
  /\ UNCHANGED <<loaded, peer, starts, blocked, crossed, rewritten>>

\* An unresolved address is not stored; a resolved one continues with the
\* entry found before the lookup.
ResolveProfile(c) ==
  /\ call[c] # None /\ call[c].name \in {"profile", "card"} /\ call[c].at = "resolve"
  /\ \E found \in Resolves :
       IF found = p THEN Merge(c, call[c].held)
       ELSE Return(c) /\ UNCHANGED <<written, met>>
  /\ UNCHANGED <<loaded, peer, starts, blocked, crossed, rewritten>>

\* A deletion that fails is logged.
DeleteMoved(c) ==
  /\ call[c] # None /\ call[c].at = "delete"
  /\ Write(screen, [rows EXCEPT ![a] = None]) /\ Go(c, "put")
  /\ UNCHANGED <<loaded, peer, starts, blocked, crossed, met, rewritten>>

PutMoved(c) ==
  /\ call[c] # None /\ call[c].at = "put"
  /\ Write(screen, [rows EXCEPT ![p] = Stored(call[c].held)]) /\ Return(c)
  /\ met' = (met \/ Find(p) # call[c].held)
  /\ UNCHANGED <<loaded, peer, starts, blocked, crossed, rewritten>>
-----------------------------------------------------------------------------
(* Refresh on the contact card: the address is looked up, a contact that   *)
(* already has the inbox id found makes room, the subject is merged        *)

Card(c) ==
  /\ \E k \in Keys : Shown(k) /\ Start(c, [Named("card", "lookup", k) EXCEPT !.known = TRUE])
  /\ UNCHANGED <<book, peer, faults, history>>

LookUpCard(c) ==
  /\ At(c, "card", "lookup")
  /\ \E found \in Resolves :
       IF found = p /\ call[c].key = a /\ Shown(p)
       THEN call' = [call EXCEPT ![c].key = p, ![c].at = "remove"] /\ met' = TRUE
       ELSE call' = [call EXCEPT ![c].key = IF found = p THEN p ELSE @, ![c].at = "merge"] /\ UNCHANGED met
  /\ UNCHANGED <<book, peer, starts, faults, blocked, crossed, overtaken, rewritten, early, doubled, failed>>

\* The page is closed and opened again.
Reload ==
  /\ faults < MaxFaults /\ faults' = faults + 1
  /\ screen' = <<>> /\ loaded' = FALSE /\ call' = [c \in Calls |-> None]
  /\ UNCHANGED <<rows, peer, starts, history>>
-----------------------------------------------------------------------------
Next ==
  \/ Reload
  \/ \E c \in Calls :
       \/ Load(c) \/ ReadRows(c) \/ Normalise(c) \/ ShowRows(c)
       \/ Block(c) \/ Unblock(c) \/ Consent(c) \/ ResolveBlock(c) \/ LookForEntry(c)
       \/ UpdateEntries(c) \/ AppendBlocked(c)
       \/ Remove(c) \/ Removed(c) \/ Add(c) \/ Added(c)
       \/ ProfileMessage(c) \/ RefreshProfile(c) \/ EnsureContact(c) \/ NewConversation(c)
       \/ AddPeer(c) \/ MergeProfile(c) \/ ResolveProfile(c) \/ DeleteMoved(c) \/ PutMoved(c)
       \/ Card(c) \/ LookUpCard(c)

ContactsSpec == Init /\ [][Next]_vars
-----------------------------------------------------------------------------
\* Rows, entries and calls have their form; only p is ever created.
ContactsTypeOK ==
  /\ \A k \in Keys : rows[k] = None \/ rows[k] \in [blocked : BOOLEAN, known : BOOLEAN, raw : BOOLEAN]
  /\ \A n \in DOMAIN screen : screen[n] \in [key : Keys, blocked : BOOLEAN, known : BOOLEAN]
  /\ loaded \in BOOLEAN /\ peer \in Keys /\ starts \in 0..MaxStarts /\ faults \in 0..MaxFaults
  /\ \A c \in Calls : call[c] # None => call[c].key \in Keys \cup {None}

BlockIsKept ==
  AtRest /\ blocked /\ ~crossed /\ ~met /\ ~rewritten /\ ~overtaken /\ ~early /\ ~doubled =>
    rows[p] # None /\ rows[p].blocked

ScreenIsStored ==
  AtRest /\ loaded /\ ~failed /\ ~overtaken /\ ~doubled /\ ~met =>
    \A k \in Keys : /\ Shown(k) <=> rows[k] # None
                    /\ Shown(k) => Find(k).blocked = rows[k].blocked /\ Find(k).known = rows[k].known

\* contact-store.ts:374, "so the block survives reloads": a block that succeeded stays in
\* IndexedDB until the person undoes it, whatever profiles arrive, pages open and writes
\* fail.  And with nothing under way the contacts on screen are the rows of IndexedDB, one
\* entry each, unless a write failed.  The code does not keep to it, and the property is
\* silent, when
\*   - a message to the person, a new conversation or "Add to contacts" enters them anew on
\*     a page that has not completed a load, over the blocked row (early: the block only);
\*   - a block or a contact is appended beside an entry made since it was looked for
\*     (doubled), or the address moves to an inbox id that has a row (met);
\*   - a load showed a list that writes had overtaken (overtaken), or wrote an older row
\*     back while it normalised (rewritten: the block only).
ContactsAreKept == BlockIsKept /\ ScreenIsStored

\* docs/contacts.md:93: blocking stores the minimum record needed to retain the block
\* decision.  A call under the person's address does not look at that record again once
\* the address is resolved, and replaces it.
BlockOutlivesMerges ==
  AtRest /\ blocked /\ ~crossed /\ ~rewritten /\ ~overtaken /\ ~early /\ ~doubled =>
    rows[p] # None /\ rows[p].blocked
=============================================================================
